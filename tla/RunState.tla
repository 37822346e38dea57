------------------------------ MODULE RunState ------------------------------
(***************************************************************************)
(* The reducer of src/src/agent/run_state.py: reduce_run_state(state,      *)
(* event) is a pure function from a frozen RunState and an event to the    *)
(* next RunState.  It is modelled the same way: the state is a record, an  *)
(* event kind is an operator from records to records, and the             *)
(* specification applies the operators in any order.  AgentLoop applies    *)
(* the same operators in the order the loop dispatches the events.         *)
(*                                                                         *)
(* Data abstraction.  An artifact is one durable code slice (an anchor id  *)
(* file:first-last); the manifest keeps one observed item per artifact,    *)
(* so "items" is indexed by artifacts.  Every Evidence the program builds  *)
(* has the default confidence "high", so an evidence entry is a pair       *)
(* <<slot, artifact>>.  Required (role "required") items never occur: the  *)
(* template of start_run is empty and reconciliation adds observed items   *)
(* only, so manifest.has_missing is always False and is left out.          *)
(* Failure items are kept as one flag (some item / no item).               *)
(*                                                                         *)
(* A definition introduced as a mutation is what its successor would be   *)
(* with a plausible bug in the code; no action uses it.                    *)
(***************************************************************************)
EXTENDS Naturals, FiniteSets

CONSTANTS
  Slots,        \* evidence slots a task can require
  Artifacts,    \* code slices that can be stored
  Files,        \* files of the project
  FileOf,       \* the file of each artifact
  MaxSteps,     \* settings.max_turns
  RetryLimit,   \* RetryBudget.limit, 3 in start_run
  CounterCap    \* where the round counters stop: the gate compares them with 1, 2, 3

ASSUME RunStateAssumption ==
  /\ FileOf \in [Artifacts -> Files]
  /\ MaxSteps \in Nat
  /\ RetryLimit \in Nat \ {0}
  /\ CounterCap \in Nat
  /\ CounterCap >= 3

VARIABLE rs     \* AssembledState.run_state

Modes == {"diagnose", "edit"}
Phases == {"retrieving", "acting", "validating", "responding", "waiting_user",
           "terminal"}
ItemStatus == {"absent", "missing", "satisfied", "stale"}

\* The fields of RunState the flow depends on.  "waiting" is the phase to
\* resume (WaitingState.resume_phase) or "none"; "terminal" is the outcome.
RunStates ==
  [mode        : Modes,
   required    : SUBSET Slots,
   phase       : Phases,
   step        : Nat,
   entries     : SUBSET (Slots \X Artifacts),
   artifacts   : SUBSET Artifacts,
   items       : [Artifacts -> ItemStatus],
   failItems   : BOOLEAN,
   files       : SUBSET Files,
   validation  : {"not_run", "passed", "failed"},
   failures    : Nat,
   waiting     : Phases \cup {"none"},
   terminal    : {"none", "success", "failure"},
   gain        : BOOLEAN,
   noGain      : 0 .. CounterCap,
   viewDup     : BOOLEAN,
   suggested   : BOOLEAN,
   patchFailed : BOOLEAN,
   sinceEdit   : 0 .. CounterCap]

Bump(n) == IF n < CounterCap THEN n + 1 ELSE n

Grounded(s) == {e[1] : e \in s.entries}
Complete(s) == s.required \subseteq Grounded(s)

\* Mutation of CanAnswer: an edit task answers without a validated edit.
CanAnswerUnvalidated(s) == s.phase \in {"responding", "acting"}

CanAnswer(s) ==
  \/ s.phase = "responding"
  \/ s.mode = "edit" /\ s.phase = "acting" /\ s.validation = "passed"

ActiveFiles(s) == {FileOf[e[2]] : e \in s.entries} \cup s.files

\* A terminal run ignores every event.
Live(s, next) == IF s.phase = "terminal" THEN s ELSE next

Ended(s, result) ==
  [s EXCEPT !.phase = "terminal", !.terminal = result]

-----------------------------------------------------------------------------
(* The manifest.                                                           *)

\* An observation of a slice refreshes its STALE item, or adds a MISSING one.
Reconcile(items, obs) ==
  [a \in Artifacts |->
     IF a \notin obs THEN items[a]
     ELSE CASE items[a] = "stale"  -> "satisfied"
            [] items[a] = "absent" -> "missing"
            [] OTHER               -> items[a]]

\* A MISSING item has no evidence that an edit could make stale.
MarkStale(items, fs) ==
  [a \in Artifacts |->
     IF FileOf[a] \in fs /\ items[a] \in {"satisfied", "stale"}
     THEN "stale"
     ELSE items[a]]

\* Mutation of Project: code in context clears STALE.
ProjectCoveredStale(items, covered) ==
  [a \in Artifacts |->
     IF items[a] = "absent" THEN "absent"
     ELSE IF a \in covered THEN "satisfied"
     ELSE IF items[a] = "stale" THEN "stale" ELSE "missing"]

\* project_manifest: the status of an item follows the anchors that hold its
\* verbatim code, except that a STALE item waits for a fresh observation.
Project(items, covered) ==
  [a \in Artifacts |->
     IF items[a] \in {"absent", "stale"} THEN items[a]
     ELSE IF a \in covered THEN "satisfied" ELSE "missing"]

-----------------------------------------------------------------------------
(* The events.                                                             *)

StartedRun(mode, req) ==
  [mode |-> mode, required |-> req, phase |-> "retrieving", step |-> 0,
   entries |-> {}, artifacts |-> {}, items |-> [a \in Artifacts |-> "absent"],
   failItems |-> FALSE, files |-> {}, validation |-> "not_run", failures |-> 0,
   waiting |-> "none", terminal |-> "none", gain |-> FALSE, noGain |-> 0,
   viewDup |-> FALSE, suggested |-> FALSE, patchFailed |-> FALSE,
   sinceEdit |-> 0]

\* Mutation of StepStarted: the step is not counted.
StepStartedUncounted(s) == Live(s, [s EXCEPT !.gain = FALSE])

StepStarted(s) ==
  Live(s, [s EXCEPT !.step = @ + 1, !.gain = FALSE])

\* ev: evidence claimed by the event, refs: the artifacts the event stores,
\* obs: the slices it carries verbatim.
EvidenceStored(s, ev, refs, obs) ==
  LET known == s.artifacts \cup refs
      t == [s EXCEPT !.entries = @ \cup {e \in ev : e[2] \in known},
                     !.artifacts = known,
                     !.items = Reconcile(@, obs),
                     !.gain = @ \/ obs # {},
                     !.patchFailed = @ /\ obs = {}]
      grounded == IF s.mode = "edit" THEN "acting" ELSE "responding"
  IN  Live(s, [t EXCEPT !.phase = IF Complete(t) THEN grounded ELSE @])

\* What one round of tool calls showed: o.suggested tells whether a grep of
\* the round returned suggested views, and whether one of them is actionable.
ToolRoundObserved(s, o) ==
  LET productive == o.suggested = "actionable" \/ s.gain IN
  Live(s,
    [s EXCEPT
       !.noGain = IF ~o.attempted THEN @ ELSE IF productive THEN 0 ELSE Bump(@),
       !.viewDup = o.viewDup,
       !.suggested = IF o.suggested = "none" THEN @ ELSE o.suggested = "actionable",
       !.patchFailed = @ /\ ~(o.viewDup /\ o.attempted),
       !.sinceEdit = IF o.edited \/ s.files = {} THEN 0 ELSE Bump(@)])

\* Mutation of ArtifactsInvalidated: evidence outlives its artifact.
InvalidatedKeepingEvidence(s, removed) ==
  Live(s,
    [s EXCEPT !.artifacts = @ \ removed,
              !.items = MarkStale(@, {FileOf[a] : a \in removed})])

\* The phase stays: lost evidence does not send the run back to retrieval.
ArtifactsInvalidated(s, removed) ==
  Live(s,
    [s EXCEPT !.entries = {e \in @ : e[2] \notin removed},
              !.artifacts = @ \ removed,
              !.items = MarkStale(@, {FileOf[a] : a \in removed})])

EditApplied(s, f) ==
  Live(s,
    [s EXCEPT !.phase = "validating",
              !.files = @ \cup {f},
              !.validation = "not_run",
              !.items = MarkStale(@, {f})])

ValidationPassed(s) ==
  Live(s,
    [s EXCEPT !.phase = "acting", !.validation = "passed",
              !.failItems = FALSE, !.patchFailed = FALSE])

\* Mutation of RecordFailure: one failure more than the limit.
RecordFailureLate(s) ==
  LET t == [s EXCEPT !.failures = @ + 1]
  IN  IF t.failures > RetryLimit THEN Ended(t, "failure") ELSE t

\* A failure is charged to the budget; the last one ends the run.
RecordFailure(s) ==
  LET t == [s EXCEPT !.failures = @ + 1]
  IN  IF t.failures >= RetryLimit THEN Ended(t, "failure") ELSE t

\* Mutation of ValidationFailed: the phase is set whatever the budget said.
ValidationFailedActing(s) ==
  Live(s, [RecordFailure(s) EXCEPT !.phase = "acting",
                                   !.validation = "failed",
                                   !.failItems = TRUE])

ValidationFailed(s) ==
  LET t == RecordFailure(s)
  IN  Live(s,
        [t EXCEPT !.phase = IF @ = "terminal" THEN @ ELSE "acting",
                  !.validation = "failed", !.failItems = TRUE])

\* Mutation of ToolFailed: a result that arrives after the end is charged.
ToolFailedAfterEnd(s, isEdit) ==
  [RecordFailure(s) EXCEPT !.patchFailed = @ \/ isEdit]

ToolFailed(s, isEdit) ==
  LET t == RecordFailure(s)
  IN  Live(s,
        [t EXCEPT !.patchFailed = IF t.phase = "terminal" THEN @ ELSE @ \/ isEdit])

PreflightBlocked(s, isEdit) ==
  Live(s, [s EXCEPT !.patchFailed = @ \/ isEdit])

\* permission_required and clarification_requested.
UserAsked(s) ==
  Live(s, [s EXCEPT !.phase = "waiting_user", !.waiting = s.phase])

PermissionGranted(s) ==
  IF s.waiting = "none" THEN s
  ELSE Live(s, [s EXCEPT !.phase = s.waiting, !.waiting = "none"])

PermissionDenied(s) ==
  IF s.waiting = "none" THEN s
  ELSE Live(s, [Ended(s, "failure") EXCEPT !.waiting = "none"])

AnswerProposed(s) ==
  IF CanAnswer(s) THEN Live(s, Ended(s, "success")) ELSE s

RunFailed(s) == Live(s, Ended(s, "failure"))

\* project_manifest, which the loop applies to the manifest of the run state
\* before it allocates the tools of a step.
ManifestProjected(s, covered) ==
  [s EXCEPT !.items = Project(@, covered)]

-----------------------------------------------------------------------------
(* The reducer on its own: any event in any state.                         *)

\* Duplicate views and suggestions come from the retrieval calls of the round.
RoundObservations ==
  {o \in [attempted : BOOLEAN, viewDup : BOOLEAN,
          suggested : {"none", "trivial", "actionable"}, edited : BOOLEAN] :
     o.viewDup \/ o.suggested # "none" => o.attempted}

Init == \E mode \in Modes, req \in SUBSET Slots : rs = StartedRun(mode, req)

StartRun == \E mode \in Modes, req \in SUBSET Slots : rs' = StartedRun(mode, req)

StartStep == rs.step < MaxSteps /\ rs' = StepStarted(rs)

StoreEvidence ==
  \E ev \in SUBSET (Slots \X Artifacts), refs \in SUBSET Artifacts,
     obs \in SUBSET Artifacts :
    rs' = EvidenceStored(rs, ev, refs, obs)

ObserveRound == \E o \in RoundObservations : rs' = ToolRoundObserved(rs, o)

InvalidateArtifacts ==
  \E removed \in SUBSET Artifacts : rs' = ArtifactsInvalidated(rs, removed)

ApplyEdit == \E f \in Files : rs' = EditApplied(rs, f)

FinishValidation == rs' = ValidationPassed(rs) \/ rs' = ValidationFailed(rs)

FailTool == \E isEdit \in BOOLEAN : rs' = ToolFailed(rs, isEdit)

BlockPreflight == \E isEdit \in BOOLEAN : rs' = PreflightBlocked(rs, isEdit)

AskUser == rs' = UserAsked(rs)

HearUser == rs' = PermissionGranted(rs) \/ rs' = PermissionDenied(rs)

ProposeAnswer == rs' = AnswerProposed(rs)

FailRun == rs' = RunFailed(rs)

ProjectManifest ==
  \E covered \in SUBSET Artifacts : rs' = ManifestProjected(rs, covered)

Next ==
  \/ StartRun
  \/ StartStep
  \/ StoreEvidence
  \/ ObserveRound
  \/ InvalidateArtifacts
  \/ ApplyEdit
  \/ FinishValidation
  \/ FailTool
  \/ BlockPreflight
  \/ AskUser
  \/ HearUser
  \/ ProposeAnswer
  \/ FailRun
  \/ ProjectManifest

Spec == Init /\ [][Next]_rs

-----------------------------------------------------------------------------
(* Properties.                                                             *)

\* Type invariant.  The counters stay inside their bounds: the step the loop
\* compares with max_turns, and the failures charged to the retry budget.
TypeOK ==
  /\ rs \in RunStates
  /\ rs.step <= MaxSteps
  /\ rs.failures <= RetryLimit

\* The run is over exactly when it has a result: no event leaves a run in the
\* terminal phase without an outcome, and none lets a run with an outcome move
\* on (run_state.py tests the phase only, callers read the result).  When the
\* retry budget is exhausted the run has failed, whatever used the last unit:
\* failed validations and failed tools are charged to one budget by two
\* different branches of the reducer.
RunEnds ==
  /\ rs.phase = "terminal" <=> rs.terminal # "none"
  /\ rs.failures >= RetryLimit => rs.terminal = "failure"

\* The ledger never refers to an artifact the run does not hold, although
\* evidence, references and invalidations arrive in separate events.
EvidenceAnchored == \A e \in rs.entries : e[2] \in rs.artifacts

\* An edit task succeeds only after its last edit was validated: not on old
\* evidence, not on the validation of an earlier edit, and not by resuming
\* from a permission request into a phase that allows an answer.
SuccessMeansValidated ==
  rs.mode = "edit" /\ rs.terminal = "success"
    => rs.validation = "passed" /\ ~rs.failItems

\* Within one run a STALE item stays STALE until an observation of it is
\* stored: neither the projection on the anchors nor another edit clears it.
StaleSurvives ==
  [][\A a \in Artifacts :
       rs.items[a] = "stale" /\ rs'.items[a] # "stale"
         => \/ rs' = StartedRun(rs'.mode, rs'.required)
            \/ rs'.items[a] = "satisfied" /\ rs'.gain]_rs

=============================================================================
