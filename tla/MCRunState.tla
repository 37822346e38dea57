----------------------------- MODULE MCRunState -----------------------------
(* RunState for TLC: one file, its slices, one evidence slot.              *)
EXTENDS RunState

CONSTANTS f1

MCFileOf == [a \in Artifacts |-> f1]

\* Four fields that tool_round_observed writes for the gate and no event
\* reads: states that differ only in them have the same futures here.
MCView ==
  [rs EXCEPT !.noGain = 0, !.viewDup = FALSE, !.suggested = FALSE,
             !.sinceEdit = 0]
=============================================================================
