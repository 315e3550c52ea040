------------------------- MODULE MCOperationCancel -------------------------
(***************************************************************************)
(* Symmetry of OperationCancel for TLC.                                    *)
(***************************************************************************)
EXTENDS OperationCancel, TLC

Symmetry == Permutations(Ops)

=============================================================================
