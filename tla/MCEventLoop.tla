----------------------------- MODULE MCEventLoop -----------------------------
(***************************************************************************)
(* Instances of EventLoop for TLC; the constants are in the .cfg files.    *)
(***************************************************************************)
EXTENDS EventLoop
=============================================================================
