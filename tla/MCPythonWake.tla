---------------------------- MODULE MCPythonWake ----------------------------
(***************************************************************************)
(* An instance of PythonWake for TLC; the constants are in the .cfg file.  *)
(***************************************************************************)
EXTENDS PythonWake
=============================================================================
