------------------------------ MODULE ToolGate ------------------------------
(***************************************************************************)
(* determine_allowed_tools of src/src/hooks/reallocate_tools.py: the tools  *)
(* the Core model is offered in a step, a function of the run state and of  *)
(* the checklist.                                                           *)
(*                                                                          *)
(* The manifest of a running loop has no required items (see RunState), so  *)
(* has_missing and critical_missing are False, retrieval_profile never asks *)
(* for the heavy tool, and sufficiency comes from the observed items alone. *)
(* The task text opens no wiring gap and the project has no SQL schema.     *)
(***************************************************************************)
EXTENDS RunState

CONSTANT BigArtifacts   \* slices of 50 lines or more

ASSUME ToolGateAssumption == BigArtifacts \subseteq Artifacts

Edit == {"decision_edit"}
Grep == {"grep_search"}
View == {"view_symbol_code"}
Heavy == {"codebase_retrieve"}
Primary == Grep \cup View
AllTools == Primary \cup Heavy \cup Edit      \* ASSEMBLED_TOOL_NAMES

\* "expr or default_tools": an empty set of tools means every tool.
OrDefault(tools) == IF tools = {} THEN AllTools ELSE tools

-----------------------------------------------------------------------------
(* What the manifest shows.  STALE items still count as grounded.          *)

GroundedItems(s) == {a \in Artifacts : s.items[a] \in {"satisfied", "stale"}}
StaleItems(s) == {a \in Artifacts : s.items[a] = "stale"}

ReadyFor(s, mode) ==
  IF mode = "diagnose" THEN GroundedItems(s) # {}
  ELSE \/ GroundedItems(s) \cap BigArtifacts # {}
       \/ Cardinality({FileOf[a] : a \in GroundedItems(s)}) >= 2

Sufficient(s) == ReadyFor(s, s.mode)

\* STALE items reopen retrieval unless they all lie on files the run edited,
\* or the evidence suffices for an edit without a refresh.
ActionableStale(s) ==
  /\ ~(\A a \in StaleItems(s) : FileOf[a] \in s.files)
  /\ ~(s.mode = "edit" /\ Sufficient(s))

-----------------------------------------------------------------------------
(* Retrieval tools.                                                        *)

ProfileTools(s) ==
  IF StaleItems(s) # {} THEN View
  ELSE IF ~ReadyFor(s, "edit") THEN Grep ELSE {}

\* Rounds without gain and rounds of duplicate views take tools away, and
\* with no open gap two rounds without gain take every retrieval tool.
Saturated(s, tools, open) ==
  LET light == tools \ Heavy IN
  IF s.noGain >= 2 /\ (s.viewDup \/ ~open) THEN {}
  ELSE IF open /\ s.viewDup THEN light \ View
  ELSE IF s.noGain = 1 /\ s.viewDup THEN (light \ View) \cup Grep
  ELSE light

\* Mutation of InsufficientTools: edit tasks fall through to the default.
InsufficientToolsDefault(s) ==
  OrDefault(Saturated(s, ProfileTools(s) \cup Primary, ActionableStale(s)))

InsufficientTools(s) ==
  LET stale == ActionableStale(s)
      retrieval == ProfileTools(s) \cup Primary
  IN
  CASE s.noGain = 0 /\ stale -> retrieval
    [] s.mode = "edit" /\ s.noGain >= 2 ->
         IF s.viewDup THEN Grep ELSE IF s.suggested THEN View ELSE Primary
    [] OTHER -> OrDefault(Saturated(s, retrieval, stale))

\* After a failed validation: repair, with a refresh of what went stale.
RecoveryTools(s, stale) ==
  CASE ~stale -> Edit
    [] stale /\ s.viewDup /\ s.mode = "edit" -> Edit
    [] OTHER -> Edit \cup Saturated(s, ProfileTools(s), TRUE)

-----------------------------------------------------------------------------
(* The waterfall.  checklist: no checklist, some item open, every item done. *)

Checklists == {"none", "open", "complete"}

Verifying(s, checklist) ==
  /\ s.mode = "edit"
  /\ \/ s.phase = "responding"
     \/ /\ s.files # {}
        /\ s.validation = "passed"
        /\ ~s.patchFailed
        /\ checklist = "complete" \/ (checklist = "none" /\ s.sinceEdit >= 1)

\* After a validated edit the loop stays on editing, unless evidence is
\* insufficient and went stale on a file the run has not edited.
EditBurst(s) ==
  /\ s.mode = "edit" /\ s.phase # "responding"
  /\ s.files # {} /\ s.validation = "passed" /\ ~s.failItems
  /\ Sufficient(s) \/ \A a \in StaleItems(s) : FileOf[a] \in s.files

DiagnoseTools(s) ==
  IF ActionableStale(s) THEN OrDefault(ProfileTools(s))
  ELSE IF s.phase = "responding" THEN {}
  ELSE OrDefault(Saturated(s, Primary, FALSE))

\* The first rule that applies decides.
AllowedTools(s, checklist) ==
  LET readyToEdit == s.mode = "edit" /\ Sufficient(s) IN
  IF s.validation = "failed" THEN RecoveryTools(s, StaleItems(s) # {})
  ELSE IF s.failItems THEN RecoveryTools(s, ActionableStale(s))
  ELSE IF /\ readyToEdit /\ s.phase # "responding"
          /\ s.sinceEdit >= 3 /\ checklist # "complete" THEN Edit
  ELSE IF Verifying(s, checklist) /\ ~s.viewDup THEN Primary \cup Edit
  ELSE IF readyToEdit /\ s.viewDup THEN Edit
  ELSE IF s.patchFailed THEN Primary \cup Edit
  ELSE IF EditBurst(s) THEN Edit
  ELSE IF ~Sufficient(s) THEN InsufficientTools(s)
  ELSE IF s.mode = "diagnose" THEN DiagnoseTools(s)
  ELSE Edit
=============================================================================
