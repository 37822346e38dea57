---------------------------- MODULE FileContents ----------------------------
(***************************************************************************)
(* The target file of decision_edit, as far as edits tell it apart: its     *)
(* content is the set of patches it contains, NoFile when it does not exist.*)
(***************************************************************************)
EXTENDS Naturals

CONSTANTS
  Edits,      \* executions of decision_edit on the file
  Attempts,   \* patches one execution may try: patch_retry_max + 1
  NoFile

Patches == Edits \X (1 .. Attempts)
Contents == (SUBSET Patches) \cup {NoFile}

ASSUME FileContentsAssumption ==
  /\ Attempts \in Nat \ {0}
  /\ \A c \in SUBSET Patches : c # NoFile

\* The content after a patch: a patch creates a missing file.
Patched(c, p) == (IF c = NoFile THEN {} ELSE c) \cup {p}
=============================================================================
