----------------------------- MODULE AtomicEdit -----------------------------
(***************************************************************************)
(* What decision_edit promises of its target file: an edit either commits   *)
(* one of its patches, which the file then contains besides everything it   *)
(* contained before, or it fails and leaves no trace.                       *)
(***************************************************************************)
EXTENDS FileContents

VARIABLES content, outcome

AtomicInit ==
  /\ content \in {NoFile, {}}
  /\ outcome = [e \in Edits |-> "open"]

Commit(e) ==
  /\ outcome[e] = "open"
  /\ outcome' = [outcome EXCEPT ![e] = "committed"]
  /\ \E n \in 1 .. Attempts : content' = Patched(content, <<e, n>>)

Fail(e) ==
  /\ outcome[e] = "open"
  /\ outcome' = [outcome EXCEPT ![e] = "failed"]
  /\ UNCHANGED content

AtomicNext == \E e \in Edits : Commit(e) \/ Fail(e)

AtomicSpec == AtomicInit /\ [][AtomicNext]_<<content, outcome>>
=============================================================================
