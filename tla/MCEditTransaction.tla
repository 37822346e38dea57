------------------------- MODULE MCEditTransaction -------------------------
(***************************************************************************)
(* EditTransaction for TLC.  The executions are interchangeable: the run    *)
(* that checks an invariant only takes them up to permutation.              *)
(***************************************************************************)
EXTENDS EditTransaction, TLC

EditSymmetry == Permutations(Edits)
=============================================================================
