-------------------------- MODULE AgentLoopProofs --------------------------
(***************************************************************************)
(* Theorems about the reducer of the run state and about the agent loop,    *)
(* for every value of the constants.                                        *)
(*                                                                         *)
(* Part one: each event operator of RunState preserves the inductive        *)
(* invariant Sound of a run state.  The lemmas are about the operators, not *)
(* about Next, so that a specification that applies several events in one   *)
(* step can cite them.                                                      *)
(*                                                                         *)
(* Part two: the type invariant of the loop, that an edit request edits     *)
(* nothing before its evidence sufficed, that nothing of a plan runs after  *)
(* a failure and nothing at all after a refusal, and that the manifest      *)
(* calls only current code SATISFIED until a plan is drained.  The run      *)
(* state stays Sound because the loop changes it by reducer events only,    *)
(* but for one flag.  Each theorem has a part of the inductive invariant of *)
(* its own; all of them rest on the typed part.                             *)
(***************************************************************************)
EXTENDS AgentLoop, FiniteInduction, SequenceTheorems

-----------------------------------------------------------------------------
(* Part one: the run state.                                                *)

Typed(s) == s \in RunStates /\ s.step <= MaxSteps

EndSound(s) == s.phase = "terminal" <=> s.terminal # "none"

BudgetSound(s) ==
  /\ s.failures <= RetryLimit
  /\ s.failures = RetryLimit => s.terminal = "failure"

LedgerSound(s) == \A e \in s.entries : e[2] \in s.artifacts

\* A suspended run never resumes into the end, and an edit run is never in
\* the phase that lets a diagnosis answer, nor suspended from it.
PhaseSound(s) ==
  /\ s.waiting # "terminal"
  /\ s.mode = "edit" => s.phase # "responding" /\ s.waiting # "responding"

\* A passed validation leaves no failure item behind, and an edit run that
\* succeeded ended on one.
ResultSound(s) ==
  /\ s.validation = "passed" => ~s.failItems
  /\ s.mode = "edit" /\ s.terminal = "success" => s.validation = "passed"

\* The inductive invariant of a run state.
Sound(s) ==
  /\ Typed(s)
  /\ EndSound(s)
  /\ BudgetSound(s)
  /\ LedgerSound(s)
  /\ PhaseSound(s)
  /\ ResultSound(s)

USE RunStateAssumption

-----------------------------------------------------------------------------
(* The helpers keep their types.                                           *)

\* A round counter stays between 0 and its cap.
LEMMA BumpType ==
  ASSUME NEW n \in 0 .. CounterCap
  PROVE  Bump(n) \in 0 .. CounterCap
BY DEF Bump

\* The three operators on the manifest return item statuses.
LEMMA ItemsType ==
  ASSUME NEW items \in [Artifacts -> ItemStatus], NEW obs, NEW fs
  PROVE  /\ Reconcile(items, obs) \in [Artifacts -> ItemStatus]
         /\ MarkStale(items, fs) \in [Artifacts -> ItemStatus]
         /\ Project(items, obs) \in [Artifacts -> ItemStatus]
BY DEF Reconcile, MarkStale, Project, ItemStatus

-----------------------------------------------------------------------------
(* Each event preserves Sound.                                             *)

\* start_run.
LEMMA StartedRunSound ==
  ASSUME NEW mode \in Modes, NEW req \in SUBSET Slots
  PROVE  Sound(StartedRun(mode, req))
BY DEF Sound, Typed, EndSound, BudgetSound, LedgerSound, PhaseSound,
       ResultSound, StartedRun, RunStates, Modes, Phases, ItemStatus

\* step_started, under the loop's guard on the step.
LEMMA StepStartedSound ==
  ASSUME NEW s, Sound(s), s.step < MaxSteps
  PROVE  Sound(StepStarted(s))
<1>1. CASE s.phase = "terminal"
  BY <1>1 DEF StepStarted, Live
<1>2. CASE s.phase # "terminal"
  <2> DEFINE t == [s EXCEPT !.step = @ + 1, !.gain = FALSE]
  <2>1. s \in RunStates /\ s.step + 1 \in Nat /\ s.step + 1 <= MaxSteps
    BY DEF Sound, Typed, RunStates
  <2>2. t \in RunStates
    BY <2>1 DEF RunStates
  <2>3. Sound(t)
    BY <2>1, <2>2 DEF RunStates, Sound, Typed, EndSound, BudgetSound,
                      LedgerSound, PhaseSound, ResultSound
  <2> QED BY <1>2, <2>3 DEF StepStarted, Live
<1> QED BY <1>1, <1>2

\* evidence_stored: new entries are filtered by the artifacts known after
\* the merge, and completeness moves an edit run to "acting" only.
LEMMA EvidenceStoredSound ==
  ASSUME NEW s, Sound(s), NEW ev \in SUBSET (Slots \X Artifacts),
         NEW refs \in SUBSET Artifacts, NEW obs \in SUBSET Artifacts
  PROVE  Sound(EvidenceStored(s, ev, refs, obs))
<1>1. CASE s.phase = "terminal"
  BY <1>1 DEF EvidenceStored, Live
<1>2. CASE s.phase # "terminal"
  <2> DEFINE known == s.artifacts \cup refs
             entries == s.entries \cup {e \in ev : e[2] \in known}
             items == Reconcile(s.items, obs)
             gain == s.gain \/ obs # {}
             failed == s.patchFailed /\ obs = {}
             t == [s EXCEPT !.entries = entries, !.artifacts = known,
                            !.items = items, !.gain = gain,
                            !.patchFailed = failed]
             grounded == IF s.mode = "edit" THEN "acting" ELSE "responding"
  <2>1. s \in RunStates
    BY DEF Sound, Typed
  <2>2. /\ known \in SUBSET Artifacts
        /\ entries \in SUBSET (Slots \X Artifacts)
        /\ \A e \in entries : e[2] \in known
    BY <2>1 DEF RunStates, Sound, LedgerSound
  <2>3. items \in [Artifacts -> ItemStatus]
    BY <2>1, ItemsType DEF RunStates
  <2>4. gain \in BOOLEAN /\ failed \in BOOLEAN
    OBVIOUS
  <2> HIDE DEF known, entries, items, gain, failed
  <2>5. t \in RunStates
    BY <2>1, <2>2, <2>3, <2>4 DEF RunStates
  <2>6. t.entries = entries /\ t.artifacts = known
    BY <2>1 DEF RunStates
  <2>7. \A p \in {t.phase, grounded} : Sound([t EXCEPT !.phase = p])
    <3> SUFFICES ASSUME NEW p \in {t.phase, grounded}
                 PROVE  Sound([t EXCEPT !.phase = p])
      OBVIOUS
    <3> DEFINE u == [t EXCEPT !.phase = p]
    <3>1. /\ p \in Phases
          /\ p # "terminal"
          /\ s.mode = "edit" => p # "responding"
      BY <1>2, <2>1 DEF RunStates, Phases, Sound, PhaseSound
    <3>2. u \in RunStates
      BY <2>5, <3>1 DEF RunStates
    <3>3. u.entries = entries /\ u.artifacts = known /\ u.phase = p
      BY <2>1 DEF RunStates
    <3>4. /\ u.step = s.step /\ u.failures = s.failures
          /\ u.terminal = s.terminal /\ u.waiting = s.waiting
          /\ u.mode = s.mode /\ u.validation = s.validation
          /\ u.failItems = s.failItems
      BY <2>1 DEF RunStates
    <3> QED
      BY <1>2, <2>2, <3>1, <3>2, <3>3, <3>4
      DEF Sound, Typed, EndSound, BudgetSound, LedgerSound, PhaseSound,
          ResultSound
  <2>8. EvidenceStored(s, ev, refs, obs)
          \in {[t EXCEPT !.phase = p] : p \in {t.phase, grounded}}
    BY <1>2 DEF EvidenceStored, Live, known, entries, items, gain, failed
  <2> QED BY <2>7, <2>8
<1> QED BY <1>1, <1>2

\* Events that touch neither the flow fields nor the ledger preserve Sound.
LEMMA FrameSound ==
  ASSUME NEW s, Sound(s), NEW t \in RunStates, LedgerSound(t),
         t.step = s.step, t.mode = s.mode, t.phase = s.phase,
         t.waiting = s.waiting, t.terminal = s.terminal,
         t.failures = s.failures, t.validation = s.validation,
         t.failItems = s.failItems
  PROVE  Sound(t)
BY DEF Sound, Typed, EndSound, BudgetSound, PhaseSound, ResultSound

\* tool_round_observed.
LEMMA ToolRoundObservedSound ==
  ASSUME NEW s, Sound(s), NEW o \in RoundObservations
  PROVE  Sound(ToolRoundObserved(s, o))
<1>1. CASE s.phase = "terminal"
  BY <1>1 DEF ToolRoundObserved, Live
<1>2. CASE s.phase # "terminal"
  <2> DEFINE productive == o.suggested = "actionable" \/ s.gain
             noGain == IF ~o.attempted THEN s.noGain
                       ELSE IF productive THEN 0 ELSE Bump(s.noGain)
             suggested == IF o.suggested = "none" THEN s.suggested
                          ELSE o.suggested = "actionable"
             failed == s.patchFailed /\ ~(o.viewDup /\ o.attempted)
             since == IF o.edited \/ s.files = {} THEN 0 ELSE Bump(s.sinceEdit)
             t == [s EXCEPT !.noGain = noGain, !.viewDup = o.viewDup,
                            !.suggested = suggested, !.patchFailed = failed,
                            !.sinceEdit = since]
  <2>1. s \in RunStates /\ LedgerSound(s)
    BY DEF Sound, Typed
  <2>2. /\ s.noGain \in 0 .. CounterCap /\ s.sinceEdit \in 0 .. CounterCap
        /\ s.suggested \in BOOLEAN /\ o.viewDup \in BOOLEAN
    BY <2>1 DEF RunStates, RoundObservations
  <2>3. noGain \in 0 .. CounterCap /\ since \in 0 .. CounterCap
    BY <2>2, BumpType
  <2>4. suggested \in BOOLEAN /\ failed \in BOOLEAN
    BY <2>2
  <2> HIDE DEF noGain, suggested, failed, since
  <2>5. t \in RunStates
    BY <2>1, <2>2, <2>3, <2>4 DEF RunStates
  <2>6. Sound(t)
    BY <2>1, <2>5, FrameSound DEF RunStates, LedgerSound
  <2> QED
    BY <1>2, <2>6
    DEF ToolRoundObserved, Live, noGain, suggested, failed, since
<1> QED BY <1>1, <1>2

\* artifacts_invalidated: the entries of the removed artifacts go with them.
LEMMA ArtifactsInvalidatedSound ==
  ASSUME NEW s, Sound(s), NEW removed \in SUBSET Artifacts
  PROVE  Sound(ArtifactsInvalidated(s, removed))
<1>1. CASE s.phase = "terminal"
  BY <1>1 DEF ArtifactsInvalidated, Live
<1>2. CASE s.phase # "terminal"
  <2> DEFINE entries == {e \in s.entries : e[2] \notin removed}
             artifacts == s.artifacts \ removed
             items == MarkStale(s.items, {FileOf[a] : a \in removed})
             t == [s EXCEPT !.entries = entries, !.artifacts = artifacts,
                            !.items = items]
  <2>1. s \in RunStates /\ LedgerSound(s)
    BY DEF Sound, Typed
  <2>2. /\ entries \in SUBSET (Slots \X Artifacts)
        /\ artifacts \in SUBSET Artifacts
        /\ \A e \in entries : e[2] \in artifacts
    BY <2>1 DEF RunStates, LedgerSound
  <2>3. items \in [Artifacts -> ItemStatus]
    BY <2>1, ItemsType DEF RunStates
  <2> HIDE DEF entries, artifacts, items
  <2>4. t \in RunStates
    BY <2>1, <2>2, <2>3 DEF RunStates
  <2>5. LedgerSound(t)
    BY <2>1, <2>2 DEF RunStates, LedgerSound
  <2>6. Sound(t)
    BY <2>1, <2>4, <2>5, FrameSound DEF RunStates
  <2> QED
    BY <1>2, <2>6 DEF ArtifactsInvalidated, Live, entries, artifacts, items
<1> QED BY <1>1, <1>2

\* edit_applied: the validation of the previous edit does not outlive it.
LEMMA EditAppliedSound ==
  ASSUME NEW s, Sound(s), NEW f \in Files
  PROVE  Sound(EditApplied(s, f))
<1>1. CASE s.phase = "terminal"
  BY <1>1 DEF EditApplied, Live
<1>2. CASE s.phase # "terminal"
  <2> DEFINE items == MarkStale(s.items, {f})
             files == s.files \cup {f}
             t == [s EXCEPT !.phase = "validating", !.files = files,
                            !.validation = "not_run", !.items = items]
  <2>1. s \in RunStates
    BY DEF Sound, Typed
  <2>2. items \in [Artifacts -> ItemStatus] /\ files \in SUBSET Files
    BY <2>1, ItemsType DEF RunStates
  <2> HIDE DEF items, files
  <2>3. t \in RunStates
    BY <2>1, <2>2 DEF RunStates, Phases
  <2>4. Sound(t)
    BY <1>2, <2>1, <2>3
    DEF RunStates, Sound, Typed, EndSound, BudgetSound, LedgerSound,
        PhaseSound, ResultSound
  <2> QED BY <1>2, <2>4 DEF EditApplied, Live, items, files
<1> QED BY <1>1, <1>2

\* validation_finished without issues.
LEMMA ValidationPassedSound ==
  ASSUME NEW s, Sound(s)
  PROVE  Sound(ValidationPassed(s))
<1>1. CASE s.phase = "terminal"
  BY <1>1 DEF ValidationPassed, Live
<1>2. CASE s.phase # "terminal"
  <2> DEFINE t == [s EXCEPT !.phase = "acting", !.validation = "passed",
                            !.failItems = FALSE, !.patchFailed = FALSE]
  <2>1. s \in RunStates
    BY DEF Sound, Typed
  <2>2. t \in RunStates
    BY <2>1 DEF RunStates, Phases
  <2>3. Sound(t)
    BY <1>2, <2>1, <2>2
    DEF RunStates, Sound, Typed, EndSound, BudgetSound, LedgerSound,
        PhaseSound, ResultSound
  <2> QED BY <1>2, <2>3 DEF ValidationPassed, Live
<1> QED BY <1>1, <1>2

\* A failure charged to a live run keeps the state sound: the one that
\* exhausts the budget ends the run.
LEMMA RecordFailureSound ==
  ASSUME NEW s, Sound(s), s.phase # "terminal"
  PROVE  /\ Sound(RecordFailure(s))
         /\ RecordFailure(s).terminal # "success"
<1> DEFINE t == [s EXCEPT !.failures = @ + 1]
           u == [t EXCEPT !.phase = "terminal", !.terminal = "failure"]
<1>1. s \in RunStates /\ s.terminal = "none"
  BY DEF Sound, Typed, EndSound
<1>2. s.failures \in Nat /\ s.failures < RetryLimit
  BY <1>1 DEF Sound, BudgetSound, RunStates
<1>3. s.failures + 1 \in Nat /\ s.failures + 1 <= RetryLimit
  BY <1>2
<1>4. t \in RunStates /\ t.failures = s.failures + 1
  BY <1>1, <1>3 DEF RunStates
<1>5. u \in RunStates
  BY <1>4 DEF RunStates, Phases
<1>6. CASE t.failures >= RetryLimit
  <2>1. Sound(u) /\ u.terminal # "success"
    BY <1>1, <1>3, <1>4, <1>5, <1>6
    DEF RunStates, Sound, Typed, EndSound, BudgetSound, LedgerSound,
        PhaseSound, ResultSound
  <2> QED BY <2>1, <1>6 DEF RecordFailure, Ended
<1>7. CASE ~(t.failures >= RetryLimit)
  <2>1. Sound(t) /\ t.terminal # "success"
    BY <1>1, <1>3, <1>4, <1>7
    DEF RunStates, Sound, Typed, EndSound, BudgetSound, LedgerSound,
        PhaseSound, ResultSound
  <2> QED BY <2>1, <1>7 DEF RecordFailure
<1> QED BY <1>6, <1>7

\* validation_finished with issues.
LEMMA ValidationFailedSound ==
  ASSUME NEW s, Sound(s)
  PROVE  Sound(ValidationFailed(s))
<1>1. CASE s.phase = "terminal"
  BY <1>1 DEF ValidationFailed, Live
<1>2. CASE s.phase # "terminal"
  <2> DEFINE t == RecordFailure(s)
             p == IF t.phase = "terminal" THEN t.phase ELSE "acting"
             u == [t EXCEPT !.phase = p, !.validation = "failed",
                            !.failItems = TRUE]
  <2>1. Sound(t) /\ t \in RunStates /\ t.terminal # "success"
    BY <1>2, RecordFailureSound DEF Sound, Typed
  <2> HIDE DEF t
  <2>2. p \in Phases /\ (p = "terminal" <=> t.phase = "terminal")
    BY <2>1 DEF RunStates, Phases
  <2>3. p # "responding" \/ t.mode # "edit"
    BY <2>1 DEF Sound, PhaseSound
  <2> HIDE DEF p
  <2>4. u \in RunStates
    BY <2>1, <2>2 DEF RunStates
  <2>5. Sound(u)
    BY <2>1, <2>2, <2>3, <2>4
    DEF RunStates, Sound, Typed, EndSound, BudgetSound, LedgerSound,
        PhaseSound, ResultSound
  <2> QED BY <1>2, <2>5 DEF ValidationFailed, Live, t, p
<1> QED BY <1>1, <1>2

\* tool_failed.
LEMMA ToolFailedSound ==
  ASSUME NEW s, Sound(s), NEW isEdit \in BOOLEAN
  PROVE  Sound(ToolFailed(s, isEdit))
<1>1. CASE s.phase = "terminal"
  BY <1>1 DEF ToolFailed, Live
<1>2. CASE s.phase # "terminal"
  <2> DEFINE t == RecordFailure(s)
             failed == IF t.phase = "terminal" THEN t.patchFailed
                       ELSE t.patchFailed \/ isEdit
             u == [t EXCEPT !.patchFailed = failed]
  <2>1. Sound(t) /\ t \in RunStates /\ LedgerSound(t)
    BY <1>2, RecordFailureSound DEF Sound, Typed
  <2> HIDE DEF t
  <2>2. failed \in BOOLEAN
    BY <2>1 DEF RunStates
  <2> HIDE DEF failed
  <2>3. u \in RunStates
    BY <2>1, <2>2 DEF RunStates
  <2>4. Sound(u)
    BY <2>1, <2>3, FrameSound DEF RunStates, LedgerSound
  <2> QED BY <1>2, <2>4 DEF ToolFailed, Live, t, failed
<1> QED BY <1>1, <1>2

\* preflight_blocked.
LEMMA PreflightBlockedSound ==
  ASSUME NEW s, Sound(s), NEW isEdit \in BOOLEAN
  PROVE  Sound(PreflightBlocked(s, isEdit))
<1> DEFINE failed == s.patchFailed \/ isEdit
           t == [s EXCEPT !.patchFailed = failed]
<1>1. s \in RunStates /\ LedgerSound(s) /\ failed \in BOOLEAN
  BY DEF Sound, Typed
<1> HIDE DEF failed
<1>2. t \in RunStates
  BY <1>1 DEF RunStates
<1>3. Sound(t)
  BY <1>1, <1>2, FrameSound DEF RunStates, LedgerSound
<1> QED BY <1>3 DEF PreflightBlocked, Live, failed

\* permission_required and clarification_requested suspend a live run only.
LEMMA UserAskedSound ==
  ASSUME NEW s, Sound(s)
  PROVE  Sound(UserAsked(s))
<1>1. CASE s.phase = "terminal"
  BY <1>1 DEF UserAsked, Live
<1>2. CASE s.phase # "terminal"
  <2> DEFINE t == [s EXCEPT !.phase = "waiting_user", !.waiting = s.phase]
  <2>1. s \in RunStates
    BY DEF Sound, Typed
  <2>2. t \in RunStates
    BY <2>1 DEF RunStates, Phases
  <2>3. Sound(t)
    BY <1>2, <2>1, <2>2
    DEF RunStates, Sound, Typed, EndSound, BudgetSound, LedgerSound,
        PhaseSound, ResultSound
  <2> QED BY <1>2, <2>3 DEF UserAsked, Live
<1> QED BY <1>1, <1>2

\* permission_granted.
LEMMA PermissionGrantedSound ==
  ASSUME NEW s, Sound(s)
  PROVE  Sound(PermissionGranted(s))
<1>1. CASE s.phase = "terminal" \/ s.waiting = "none"
  BY <1>1 DEF PermissionGranted, Live
<1>2. CASE s.phase # "terminal" /\ s.waiting # "none"
  <2> DEFINE t == [s EXCEPT !.phase = s.waiting, !.waiting = "none"]
  <2>1. s \in RunStates /\ s.waiting \in Phases
    BY <1>2 DEF Sound, Typed, RunStates
  <2>2. t \in RunStates
    BY <2>1 DEF RunStates
  <2>3. Sound(t)
    BY <1>2, <2>1, <2>2
    DEF RunStates, Sound, Typed, EndSound, BudgetSound, LedgerSound,
        PhaseSound, ResultSound
  <2> QED BY <1>2, <2>3 DEF PermissionGranted, Live
<1> QED BY <1>1, <1>2

\* An end other than the success of an edit run keeps the state sound.
LEMMA EndedSound ==
  ASSUME NEW s, Sound(s), s.phase # "terminal",
         NEW result \in {"success", "failure"},
         result = "success" /\ s.mode = "edit" => s.validation = "passed"
  PROVE  Sound(Ended(s, result))
<1>1. s \in RunStates /\ s.terminal = "none"
  BY DEF Sound, Typed, EndSound
<1>2. Ended(s, result) \in RunStates
  BY <1>1 DEF RunStates, Phases, Ended
<1> QED
  BY <1>1, <1>2
  DEF Ended, RunStates, Sound, Typed, EndSound, BudgetSound, LedgerSound,
      PhaseSound, ResultSound

\* run_failed.
LEMMA RunFailedSound ==
  ASSUME NEW s, Sound(s)
  PROVE  Sound(RunFailed(s))
BY EndedSound DEF RunFailed, Live

\* permission_denied ends the run.
LEMMA PermissionDeniedSound ==
  ASSUME NEW s, Sound(s)
  PROVE  Sound(PermissionDenied(s))
<1>1. CASE s.phase = "terminal" \/ s.waiting = "none"
  BY <1>1 DEF PermissionDenied, Live
<1>2. CASE s.phase # "terminal" /\ s.waiting # "none"
  <2> DEFINE e == Ended(s, "failure")
             t == [e EXCEPT !.waiting = "none"]
  <2>1. Sound(e)
    BY <1>2, EndedSound
  <2> HIDE DEF e
  <2>2. e \in RunStates
    BY <2>1 DEF Sound, Typed
  <2>3. t \in RunStates
    BY <2>2 DEF RunStates
  <2>4. Sound(t)
    BY <2>1, <2>2, <2>3
    DEF RunStates, Sound, Typed, EndSound, BudgetSound, LedgerSound,
        PhaseSound, ResultSound
  <2> QED BY <1>2, <2>4 DEF PermissionDenied, Live, e
<1> QED BY <1>1, <1>2

\* answer_proposed: in an edit run only a passed validation lets it through.
LEMMA AnswerProposedSound ==
  ASSUME NEW s, Sound(s)
  PROVE  Sound(AnswerProposed(s))
<1>1. CASE ~CanAnswer(s) \/ s.phase = "terminal"
  BY <1>1 DEF AnswerProposed, Live
<1>2. CASE CanAnswer(s) /\ s.phase # "terminal"
  <2>1. s.mode = "edit" => s.validation = "passed"
    BY <1>2 DEF CanAnswer, Sound, PhaseSound
  <2>2. Sound(Ended(s, "success"))
    BY <1>2, <2>1, EndedSound
  <2> QED BY <1>2, <2>2 DEF AnswerProposed, Live
<1> QED BY <1>1, <1>2

\* project_manifest changes the items only.
LEMMA ManifestProjectedSound ==
  ASSUME NEW s, Sound(s), NEW covered \in SUBSET Artifacts
  PROVE  Sound(ManifestProjected(s, covered))
<1> DEFINE items == Project(s.items, covered)
           t == [s EXCEPT !.items = items]
<1>1. s \in RunStates /\ LedgerSound(s)
  BY DEF Sound, Typed
<1>2. items \in [Artifacts -> ItemStatus]
  BY <1>1, ItemsType DEF RunStates
<1> HIDE DEF items
<1>3. t \in RunStates
  BY <1>1, <1>2 DEF RunStates
<1>4. Sound(t)
  BY <1>1, <1>3, FrameSound DEF RunStates, LedgerSound
<1> QED BY <1>4 DEF ManifestProjected, items

-----------------------------------------------------------------------------
(* The inductive invariant of the reducer.                                 *)

RunInv == Sound(rs)

\* Every event, in any state of a run, leads to a sound state.
LEMMA NextSound ==
  ASSUME RunInv, Next
  PROVE  RunInv'
<1> USE DEF RunInv
<1>1. CASE StartRun
  BY <1>1, StartedRunSound DEF StartRun
<1>2. CASE StartStep
  BY <1>2, StepStartedSound DEF StartStep
<1>3. CASE StoreEvidence
  BY <1>3, EvidenceStoredSound DEF StoreEvidence
<1>4. CASE ObserveRound
  BY <1>4, ToolRoundObservedSound DEF ObserveRound
<1>5. CASE InvalidateArtifacts
  BY <1>5, ArtifactsInvalidatedSound DEF InvalidateArtifacts
<1>6. CASE ApplyEdit
  BY <1>6, EditAppliedSound DEF ApplyEdit
<1>7. CASE FinishValidation
  BY <1>7, ValidationPassedSound, ValidationFailedSound DEF FinishValidation
<1>8. CASE FailTool
  BY <1>8, ToolFailedSound DEF FailTool
<1>9. CASE BlockPreflight
  BY <1>9, PreflightBlockedSound DEF BlockPreflight
<1>10. CASE AskUser
  BY <1>10, UserAskedSound DEF AskUser
<1>11. CASE HearUser
  BY <1>11, PermissionGrantedSound, PermissionDeniedSound DEF HearUser
<1>12. CASE ProposeAnswer
  BY <1>12, AnswerProposedSound DEF ProposeAnswer
<1>13. CASE FailRun
  BY <1>13, RunFailedSound DEF FailRun
<1>14. CASE ProjectManifest
  BY <1>14, ManifestProjectedSound DEF ProjectManifest
<1> QED
  BY <1>1, <1>2, <1>3, <1>4, <1>5, <1>6, <1>7, <1>8, <1>9, <1>10, <1>11,
     <1>12, <1>13, <1>14
  DEF Next

\* Sound is an invariant of the reducer, whatever order the events come in.
THEOREM RunInvariant == Spec => []RunInv
<1>1. Init => RunInv
  BY StartedRunSound DEF Init, RunInv
<1>2. RunInv /\ [Next]_rs => RunInv'
  BY NextSound DEF RunInv
<1> QED BY <1>1, <1>2, PTL DEF Spec

\* Type correctness of the run state, with the bounds of step and failures.
THEOREM TypeCorrect == Spec => []TypeOK
<1>1. RunInv => TypeOK
  BY DEF RunInv, Sound, Typed, BudgetSound, TypeOK
<1> QED BY <1>1, RunInvariant, PTL

\* A run is over exactly when it has a result, and one that exhausts its retry
\* budget has failed.
THEOREM RunsEnd == Spec => []RunEnds
<1>1. RunInv => (rs.phase = "terminal" <=> rs.terminal # "none")
  BY DEF RunInv, Sound, EndSound
<1>2. RunInv => (rs.failures >= RetryLimit => rs.terminal = "failure")
  BY DEF RunInv, Sound, Typed, RunStates, BudgetSound
<1>3. RunInv => RunEnds
  BY <1>1, <1>2 DEF RunEnds
<1> QED BY <1>3, RunInvariant, PTL

\* Evidence never outlives the artifact it cites.
THEOREM LedgerAnchored == Spec => []EvidenceAnchored
<1>1. RunInv => EvidenceAnchored
  BY DEF RunInv, Sound, LedgerSound, EvidenceAnchored
<1> QED BY <1>1, RunInvariant, PTL

\* An edit task succeeds only on a validated last edit.
THEOREM ValidatedSuccess == Spec => []SuccessMeansValidated
<1>1. RunInv => SuccessMeansValidated
  BY DEF RunInv, Sound, ResultSound, SuccessMeansValidated
<1> QED BY <1>1, RunInvariant, PTL

-----------------------------------------------------------------------------
(* What may happen to a STALE item.                                        *)

KeepsStale(s, t) ==
  \A a \in Artifacts : s.items[a] = "stale" => t.items[a] = "stale"

\* No helper on the manifest but Reconcile turns a STALE item into another.
LEMMA HelpersKeepStale ==
  ASSUME NEW items \in [Artifacts -> ItemStatus], NEW fs,
         NEW a \in Artifacts, items[a] = "stale"
  PROVE  MarkStale(items, fs)[a] = "stale" /\ Project(items, fs)[a] = "stale"
BY DEF MarkStale, Project

\* Storing evidence refreshes a STALE item only with an observation, which
\* the round then counts as a gain.
LEMMA StoringRefreshes ==
  ASSUME NEW s \in RunStates, NEW ev \in SUBSET (Slots \X Artifacts),
         NEW refs \in SUBSET Artifacts, NEW obs \in SUBSET Artifacts,
         NEW a \in Artifacts, s.items[a] = "stale"
  PROVE  LET t == EvidenceStored(s, ev, refs, obs)
         IN  t.items[a] = "stale" \/ (t.items[a] = "satisfied" /\ t.gain)
<1>1. CASE s.phase = "terminal"
  <2>1. EvidenceStored(s, ev, refs, obs) = s
    BY <1>1 DEF EvidenceStored, Live
  <2> QED BY <2>1
<1>2. CASE s.phase # "terminal"
  <2> DEFINE entries == s.entries
                 \cup {e \in ev : e[2] \in s.artifacts \cup refs}
             items == Reconcile(s.items, obs)
             gain == s.gain \/ obs # {}
             failed == s.patchFailed /\ obs = {}
             t == [s EXCEPT !.entries = entries,
                            !.artifacts = s.artifacts \cup refs,
                            !.items = items, !.gain = gain,
                            !.patchFailed = failed]
             grounded == IF s.mode = "edit" THEN "acting" ELSE "responding"
  <2>1. items[a] = "stale" \/ (items[a] = "satisfied" /\ gain)
    <3>1. CASE a \in obs
      BY <3>1 DEF Reconcile
    <3>2. CASE a \notin obs
      BY <3>2 DEF Reconcile
    <3> QED BY <3>1, <3>2
  <2> HIDE DEF entries, items, gain, failed
  <2>2. EvidenceStored(s, ev, refs, obs)
          \in {[t EXCEPT !.phase = p] : p \in {t.phase, grounded}}
    BY <1>2 DEF EvidenceStored, Live, entries, items, gain, failed
  <2>3. PICK p : EvidenceStored(s, ev, refs, obs) = [t EXCEPT !.phase = p]
    BY <2>2
  <2>4. /\ EvidenceStored(s, ev, refs, obs).items = items
        /\ EvidenceStored(s, ev, refs, obs).gain = gain
    BY <2>3 DEF RunStates
  <2> QED BY <2>1, <2>4
<1> QED BY <1>1, <1>2

\* The other events keep every STALE item.
LEMMA OthersKeepStale ==
  ASSUME NEW s \in RunStates, NEW o, NEW removed, NEW f, NEW b, NEW covered
  PROVE  /\ KeepsStale(s, StepStarted(s))
         /\ KeepsStale(s, ToolRoundObserved(s, o))
         /\ KeepsStale(s, ArtifactsInvalidated(s, removed))
         /\ KeepsStale(s, EditApplied(s, f))
         /\ KeepsStale(s, ValidationPassed(s))
         /\ KeepsStale(s, ValidationFailed(s))
         /\ KeepsStale(s, ToolFailed(s, b))
         /\ KeepsStale(s, PreflightBlocked(s, b))
         /\ KeepsStale(s, UserAsked(s))
         /\ KeepsStale(s, PermissionGranted(s))
         /\ KeepsStale(s, PermissionDenied(s))
         /\ KeepsStale(s, AnswerProposed(s))
         /\ KeepsStale(s, RunFailed(s))
         /\ KeepsStale(s, ManifestProjected(s, covered))
<1>1. s.items \in [Artifacts -> ItemStatus]
  BY DEF RunStates
<1>2. StepStarted(s).items = s.items
  BY DEF StepStarted, Live, RunStates
<1>3. ToolRoundObserved(s, o).items = s.items
  BY DEF ToolRoundObserved, Live, RunStates
<1>4. ArtifactsInvalidated(s, removed).items
        \in {s.items, MarkStale(s.items, {FileOf[a] : a \in removed})}
  BY DEF ArtifactsInvalidated, Live, RunStates
<1>5. EditApplied(s, f).items \in {s.items, MarkStale(s.items, {f})}
  BY DEF EditApplied, Live, RunStates
<1>6. ValidationPassed(s).items = s.items
  BY DEF ValidationPassed, Live, RunStates
<1>7. ValidationFailed(s).items = s.items
  BY DEF ValidationFailed, RecordFailure, Ended, Live, RunStates
<1>8. ToolFailed(s, b).items = s.items
  BY DEF ToolFailed, RecordFailure, Ended, Live, RunStates
<1>9. PreflightBlocked(s, b).items = s.items
  BY DEF PreflightBlocked, Live, RunStates
<1>10. UserAsked(s).items = s.items
  BY DEF UserAsked, Live, RunStates
<1>11. PermissionGranted(s).items = s.items
  BY DEF PermissionGranted, Live, RunStates
<1>12. PermissionDenied(s).items = s.items
  BY DEF PermissionDenied, Ended, Live, RunStates
<1>13. AnswerProposed(s).items = s.items
  BY DEF AnswerProposed, Ended, Live, RunStates
<1>14. RunFailed(s).items = s.items
  BY DEF RunFailed, Ended, Live, RunStates
<1>15. ManifestProjected(s, covered).items = Project(s.items, covered)
  BY DEF ManifestProjected, RunStates
<1> QED
  BY <1>1, <1>2, <1>3, <1>4, <1>5, <1>6, <1>7, <1>8, <1>9, <1>10, <1>11,
     <1>12, <1>13, <1>14, <1>15, HelpersKeepStale
  DEF KeepsStale

\* Within a run only a stored observation clears a STALE item.
THEOREM StaleItemsSurvive == Spec => StaleSurvives
<1> DEFINE Refreshed(a) ==
             \/ rs' = StartedRun(rs'.mode, rs'.required)
             \/ rs'.items[a] = "satisfied" /\ rs'.gain
<1>1. ASSUME RunInv, Next, NEW a \in Artifacts,
             rs.items[a] = "stale", rs'.items[a] # "stale"
      PROVE  Refreshed(a)
  <2>1. rs \in RunStates
    BY <1>1 DEF RunInv, Sound, Typed
  <2>2. CASE StartRun
    BY <2>2 DEF StartRun, StartedRun
  <2>3. CASE StoreEvidence
    BY <1>1, <2>1, <2>3, StoringRefreshes DEF StoreEvidence
  <2>4. CASE ~StartRun /\ ~StoreEvidence
    <3>1. KeepsStale(rs, rs')
      BY <1>1, <2>1, <2>4, OthersKeepStale
      DEF Next, StartStep, ObserveRound, InvalidateArtifacts, ApplyEdit,
          FinishValidation, FailTool, BlockPreflight, AskUser, HearUser,
          ProposeAnswer, FailRun, ProjectManifest
    <3> QED BY <1>1, <3>1 DEF KeepsStale
  <2> QED BY <2>2, <2>3, <2>4
<1>2. RunInv /\ Next =>
        \A a \in Artifacts :
          rs.items[a] = "stale" /\ rs'.items[a] # "stale" => Refreshed(a)
  BY <1>1
<1>3. RunInv /\ [Next]_rs =>
        [\A a \in Artifacts :
           rs.items[a] = "stale" /\ rs'.items[a] # "stale" => Refreshed(a)]_rs
  BY <1>2
<1> QED BY <1>3, RunInvariant, PTL DEF Spec, StaleSurvives

-----------------------------------------------------------------------------
(* Part two: the loop.                                                     *)

USE ToolGateAssumption, AgentLoopAssumption

-----------------------------------------------------------------------------
(* What an event does to a run state, as the loop sees it.                 *)

\* The mode stays, the end is final, and the run does not start to wait.
Onwards(s, t) ==
  /\ t.mode = s.mode
  /\ s.phase = "terminal" => t.phase = "terminal"
  /\ t.phase = "waiting_user" => s.phase = "waiting_user" /\ t.waiting = s.waiting

\* What shows that the run has tried an edit.
Marks(s) ==
  s.files # {} \/ s.patchFailed \/ s.failItems \/ s.validation # "not_run"

\* The event is not about an edit, and makes no item SATISFIED.
Plain(s, t) ==
  /\ Onwards(s, t)
  /\ t.files = s.files
  /\ Marks(t) => Marks(s)
  /\ t.items = s.items

\* STEP_STARTED touches neither files nor marks.
LEMMA StepStartedPlain ==
  ASSUME NEW s \in RunStates
  PROVE  Plain(s, StepStarted(s))
BY DEF Plain, Onwards, Marks, StepStarted, Live, RunStates

\* Stored evidence may satisfy items, and no more.
LEMMA EvidenceStoredEffect ==
  ASSUME NEW s \in RunStates, s.phase # "waiting_user",
         NEW ev \in SUBSET (Slots \X Artifacts), NEW refs \in SUBSET Artifacts,
         NEW obs \in SUBSET Artifacts
  PROVE  LET t == EvidenceStored(s, ev, refs, obs)
         IN  /\ Onwards(s, t) /\ t.files = s.files /\ (Marks(t) => Marks(s))
             /\ t.items \in {s.items, Reconcile(s.items, obs)}
<1> DEFINE known == s.artifacts \cup refs
           entries == s.entries \cup {e \in ev : e[2] \in known}
           items == Reconcile(s.items, obs)
           gain == s.gain \/ obs # {}
           failed == s.patchFailed /\ obs = {}
           t == [s EXCEPT !.entries = entries, !.artifacts = known,
                          !.items = items, !.gain = gain,
                          !.patchFailed = failed]
           grounded == IF s.mode = "edit" THEN "acting" ELSE "responding"
<1> HIDE DEF entries, items, gain, failed, known
<1>1. EvidenceStored(s, ev, refs, obs)
        \in {s} \cup {[t EXCEPT !.phase = p] : p \in {t.phase, grounded}}
  BY DEF EvidenceStored, Live, entries, items, gain, failed, known
<1>2. CASE s.phase = "terminal"
  <2>1. EvidenceStored(s, ev, refs, obs) = s
    BY <1>2 DEF EvidenceStored, Live
  <2> QED BY <2>1 DEF Onwards, Marks
<1>3. CASE s.phase # "terminal"
  <2>1. PICK p \in {s.phase, grounded} :
               EvidenceStored(s, ev, refs, obs) \in {s, [t EXCEPT !.phase = p]}
    BY <1>1 DEF RunStates
  <2>2. s.phase # "waiting_user" => p # "waiting_user"
    OBVIOUS
  <2>3. Marks([t EXCEPT !.phase = p]) => Marks(s)
    BY DEF Marks, RunStates, failed
  <2>4. /\ [t EXCEPT !.phase = p].items = items
        /\ [t EXCEPT !.phase = p].mode = s.mode
        /\ [t EXCEPT !.phase = p].phase = p
        /\ [t EXCEPT !.phase = p].files = s.files
    BY DEF RunStates
  <2> HIDE DEF t
  <2> QED BY <1>3, <2>1, <2>2, <2>3, <2>4 DEF Onwards, items
<1> QED BY <1>2, <1>3

\* An observed round counts rounds.
LEMMA ToolRoundObservedPlain ==
  ASSUME NEW s \in RunStates, NEW o
  PROVE  Plain(s, ToolRoundObserved(s, o))
<1> DEFINE noGain == IF ~o.attempted THEN s.noGain
                     ELSE IF o.suggested = "actionable" \/ s.gain THEN 0 ELSE Bump(s.noGain)
           suggested == IF o.suggested = "none" THEN s.suggested
                        ELSE o.suggested = "actionable"
           failed == s.patchFailed /\ ~(o.viewDup /\ o.attempted)
           since == IF o.edited \/ s.files = {} THEN 0 ELSE Bump(s.sinceEdit)
           t == [s EXCEPT !.noGain = noGain, !.viewDup = o.viewDup,
                          !.suggested = suggested, !.patchFailed = failed,
                          !.sinceEdit = since]
<1>1. ToolRoundObserved(s, o) \in {s, t}
  BY DEF ToolRoundObserved, Live
<1> HIDE DEF noGain, suggested, since
<1>2. Plain(s, t)
  BY DEF Plain, Onwards, Marks, RunStates
<1>3. Plain(s, s)
  BY DEF Plain, Onwards
<1> QED BY <1>1, <1>2, <1>3

\* A question to the user remembers the phase it is asked in.
LEMMA UserAskedEffect ==
  ASSUME NEW s \in RunStates
  PROVE  LET t == UserAsked(s)
         IN  /\ t.mode = s.mode /\ t.files = s.files /\ (Marks(t) => Marks(s))
             /\ t.items = s.items
             /\ IF s.phase = "terminal" THEN t = s
                ELSE t.phase = "waiting_user" /\ t.waiting = s.phase
BY DEF Marks, UserAsked, Live, RunStates

\* A permission that is granted.
LEMMA PermissionGrantedEffect ==
  ASSUME NEW s \in RunStates, s.phase \in {"waiting_user", "terminal"},
         s.phase = "waiting_user" => s.waiting \notin {"none", "waiting_user"}
  PROVE  LET t == PermissionGranted(s)
         IN  /\ t.mode = s.mode /\ t.files = s.files /\ (Marks(t) => Marks(s))
             /\ t.items = s.items /\ t.phase # "waiting_user"
             /\ s.phase = "terminal" => t.phase = "terminal"
             /\ s.phase = "waiting_user" => t.phase = s.waiting
BY DEF Marks, PermissionGranted, Live, RunStates

\* A permission that is denied.
LEMMA PermissionDeniedEffect ==
  ASSUME NEW s \in RunStates, s.phase \in {"waiting_user", "terminal"},
         s.phase = "waiting_user" => s.waiting # "none"
  PROVE  Plain(s, PermissionDenied(s)) /\ PermissionDenied(s).phase = "terminal"
BY DEF Plain, Onwards, Marks, PermissionDenied, Ended, Live, RunStates

\* A failure and a proposed answer.
LEMMA EndingPlain ==
  ASSUME NEW s \in RunStates
  PROVE  Plain(s, RunFailed(s)) /\ Plain(s, AnswerProposed(s))
         /\ RunFailed(s).phase = "terminal"
BY DEF Plain, Onwards, Marks, RunFailed, AnswerProposed, Ended, Live, RunStates

\* A manifest that is projected.
LEMMA ManifestProjectedEffect ==
  ASSUME NEW s \in RunStates, NEW covered
  PROVE  LET t == ManifestProjected(s, covered)
         IN  /\ Onwards(s, t) /\ t.files = s.files /\ (Marks(t) => Marks(s))
             /\ t.phase = s.phase
             /\ t.items = Project(s.items, covered)
BY DEF Onwards, Marks, ManifestProjected, RunStates

\* An applied edit makes its file dirty.
LEMMA EditAppliedEffect ==
  ASSUME NEW s \in RunStates, NEW f
  PROVE  /\ Onwards(s, EditApplied(s, f))
         /\ EditApplied(s, f).items \in {s.items, MarkStale(s.items, {f})}
         /\ EditApplied(s, f).phase # "terminal" =>
              EditApplied(s, f).items = MarkStale(s.items, {f})
BY DEF Onwards, EditApplied, Live, RunStates

\* Events about an edit: files, flags and the validation may change.
LEMMA EditEffects ==
  ASSUME NEW s \in RunStates, NEW f, NEW b \in BOOLEAN
  PROVE  /\ Onwards(s, EditApplied(s, f))
         /\ EditApplied(s, f).items \in {s.items, MarkStale(s.items, {f})}
         /\ EditApplied(s, f).phase # "terminal" =>
              EditApplied(s, f).items = MarkStale(s.items, {f})
         /\ Onwards(s, ValidationPassed(s)) /\ ValidationPassed(s).items = s.items
         /\ Onwards(s, ValidationFailed(s)) /\ ValidationFailed(s).items = s.items
         /\ Onwards(s, ToolFailed(s, b)) /\ ToolFailed(s, b).items = s.items
         /\ Onwards(s, PreflightBlocked(s, b)) /\ PreflightBlocked(s, b).items = s.items
<1>2. Onwards(s, ValidationPassed(s)) /\ ValidationPassed(s).items = s.items
  BY DEF Onwards, ValidationPassed, Live, RunStates
<1>3. /\ Onwards(s, RecordFailure(s)) /\ RecordFailure(s).items = s.items
      /\ DOMAIN RecordFailure(s) = DOMAIN s
      /\ RecordFailure(s).waiting = s.waiting
  BY DEF Onwards, RecordFailure, Ended, RunStates
<1>4. Onwards(s, ValidationFailed(s)) /\ ValidationFailed(s).items = s.items
  BY <1>3 DEF Onwards, ValidationFailed, Live, RunStates
<1>5. Onwards(s, ToolFailed(s, b)) /\ ToolFailed(s, b).items = s.items
  BY <1>3 DEF Onwards, ToolFailed, Live, RunStates
<1>6. Onwards(s, PreflightBlocked(s, b)) /\ PreflightBlocked(s, b).items = s.items
  BY DEF Onwards, PreflightBlocked, Live, RunStates
<1> QED BY <1>2, <1>4, <1>5, <1>6, EditAppliedEffect

\* Artifacts that are invalidated make their items stale.
LEMMA ArtifactsInvalidatedEffect ==
  ASSUME NEW s \in RunStates, NEW removed
  PROVE  LET t == ArtifactsInvalidated(s, removed)
         IN  /\ Onwards(s, t)
             /\ t.items \in {s.items, MarkStale(s.items, {FileOf[a] : a \in removed})}
BY DEF Onwards, ArtifactsInvalidated, Live, RunStates

-----------------------------------------------------------------------------
(* Plans and calls.                                                        *)

\* RemoveFirst takes nothing into a sequence that was not there.
LEMMA RemoveFirstType ==
  ASSUME NEW T, NEW s \in Seq(T), NEW e
  PROVE  RemoveFirst(s, e) \in Seq(T)
<1>1. CASE ~(\E i \in 1 .. Len(s) : s[i] = e)
  BY <1>1 DEF RemoveFirst
<1>2. CASE \E i \in 1 .. Len(s) : s[i] = e
  <2> DEFINE I == {i \in 1 .. Len(s) : s[i] = e}
             k == CHOOSE x \in I : \A y \in I : x <= y
  <2>1. I \in SUBSET Nat /\ I # {}
    BY <1>2
  <2>2. \E x \in I : \A y \in I : x <= y
    <3> HIDE DEF I
    <3> QED BY <2>1, LeastNumber
  <2>3. k \in 1 .. Len(s)
    BY <2>2
  <2>4. RemoveFirst(s, e) = SubSeq(s, 1, k - 1) \o SubSeq(s, k + 1, Len(s))
    BY <1>2, <2>1 DEF RemoveFirst, RemoveAt, SelectInSeq, Min
  <2> HIDE DEF k
  <2>5. /\ 1 - 1 <= k - 1 /\ k - 1 <= Len(s)
        /\ k + 1 - 1 <= Len(s) /\ Len(s) \in Nat
    BY <2>3
  <2>6. SubSeq(s, 1, k - 1) \in Seq(T)
    BY <2>3
  <2>7. SubSeq(s, k + 1, Len(s)) \in Seq(T)
    BY <2>3
  <2> QED BY <2>4, <2>6, <2>7
<1> QED BY <1>1, <1>2

\* What the calls of a response leave of its plan is a sequence of its steps.
LEMMA ResidualType ==
  ASSUME NEW plan \in Seq(Steps), NEW cs \in Seq(Calls)
  PROVE  Residual(plan, cs) \in Seq(Steps)
<1> DEFINE N == Len(cs)
           Q == Seq(Steps)
           After(n, q) == IF IsRetrieval(cs[n]) THEN q ELSE RemoveFirst(q, cs[n].on)
           F == [p \in (1 .. N) \X Q |-> After(p[1], p[2])]
           Body(h) == [n \in 0 .. N |->
                         IF n = 0 THEN plan
                         ELSE IF IsRetrieval(cs[n]) THEN h[n - 1]
                         ELSE RemoveFirst(h[n - 1], cs[n].on)]
           left == CHOOSE h : h = Body(h)
<1>1. N \in Nat /\ plan \in Q
  OBVIOUS
<1>2. \A n \in 1 .. N, q \in Q : After(n, q) \in Q
  BY RemoveFirstType
<1>3. F \in [(1 .. N) \X Q -> Q]
  <2> HIDE DEF After, N, Q
  <2> QED BY <1>2
<1>4. \E g : Unfolds(g, N, Q, plan, F)
  <2> HIDE DEF F, N, Q
  <2> QED BY <1>1, <1>3, RecursionExists
<1>5. PICK g \in [0 .. N -> Q] :
        /\ g[0] = plan
        /\ \A n \in 1 .. N : g[n] = F[<<n, g[n - 1]>>]
  <2> HIDE DEF F, N, Q
  <2> QED BY <1>4 DEF Unfolds
<1>6. \A n \in 1 .. N : g[n] = After(n, g[n - 1])
  <2> SUFFICES ASSUME NEW n \in 1 .. N PROVE g[n] = After(n, g[n - 1])
    OBVIOUS
  <2> HIDE DEF After, N, Q
  <2>1. <<n, g[n - 1]>> \in (1 .. N) \X Q
    BY <1>1, <1>5
  <2> QED BY <1>5, <2>1
<1>7. g = Body(g)
  <2>1. \A n \in 0 .. N : g[n] = Body(g)[n]
    <3> SUFFICES ASSUME NEW n \in 0 .. N PROVE g[n] = Body(g)[n]
      OBVIOUS
    <3>1. CASE n = 0
      BY <1>5, <3>1
    <3>2. CASE n # 0
      <4>1. n \in 1 .. N /\ n > 0
        BY <1>1, <3>2
      <4>2. g[n] = After(n, g[n - 1])
        BY <1>6, <4>1
      <4>3. CASE IsRetrieval(cs[n])
        BY <3>2, <4>1, <4>2, <4>3
      <4>4. CASE ~IsRetrieval(cs[n])
        BY <3>2, <4>1, <4>2, <4>4
      <4> QED BY <4>3, <4>4
    <3> QED BY <3>1, <3>2
  <2> QED BY <1>5, <2>1
<1>8. left = Body(left)
  <2> HIDE DEF Body
  <2> QED BY <1>7
<1>9. Residual(plan, cs) = left[N]
  BY DEF Residual
<1> HIDE DEF left
<1> DEFINE P == {n \in 0 .. N : left[n] \in Q}
<1>10. 0 \in P
  BY <1>1, <1>8
<1>11. ASSUME NEW n \in 0 .. N - 1, n \in P
       PROVE  n + 1 \in P
  <2>1. n + 1 \in 1 .. N /\ n + 1 \in 0 .. N /\ n + 1 > 0 /\ n + 1 # 0 /\ n + 1 - 1 = n
    BY <1>1
  <2>2. left[n + 1] = After(n + 1, left[n])
    <3>1. left[n + 1] = Body(left)[n + 1]
      BY <1>8
    <3>2. CASE IsRetrieval(cs[n + 1])
      BY <2>1, <3>1, <3>2
    <3>3. CASE ~IsRetrieval(cs[n + 1])
      BY <2>1, <3>1, <3>3
    <3> QED BY <3>2, <3>3
  <2> HIDE DEF After, N, Q
  <2> QED BY <1>2, <1>11, <2>1, <2>2
<1>12. 0 .. N \subseteq P
  <2> HIDE DEF P, N
  <2> QED BY <1>1, <1>10, <1>11, PrefixInduction
<1> QED BY <1>1, <1>9, <1>12

-----------------------------------------------------------------------------
(* Tools and calls.                                                        *)

\* The gate offers no tool the loop does not have.
LEMMA AllowedToolsType ==
  ASSUME NEW s, NEW checks
  PROVE  AllowedTools(s, checks) \subseteq AllTools
<1>1. /\ Edit \subseteq AllTools /\ Grep \subseteq AllTools /\ View \subseteq AllTools
      /\ Primary \subseteq AllTools
  BY DEF AllTools, Primary
<1>2. \A T, open : T \subseteq AllTools => Saturated(s, T, open) \subseteq AllTools
  BY <1>1 DEF Saturated
<1>3. \A T : T \subseteq AllTools => OrDefault(T) \subseteq AllTools
  BY DEF OrDefault
<1>4. ProfileTools(s) \subseteq AllTools
  BY <1>1 DEF ProfileTools
<1>5. \A stale : RecoveryTools(s, stale) \subseteq AllTools
  BY <1>1, <1>2, <1>4 DEF RecoveryTools
<1>6. InsufficientTools(s) \subseteq AllTools
  BY <1>1, <1>2, <1>3, <1>4 DEF InsufficientTools
<1>7. DiagnoseTools(s) \subseteq AllTools
  BY <1>1, <1>2, <1>3, <1>4 DEF DiagnoseTools
<1> QED BY <1>1, <1>5, <1>6, <1>7 DEF AllowedTools

\* The first call of a response names a slice or a step, and the rest are calls.
LEMMA FirstCall ==
  ASSUME NEW cs \in Seq(Calls), cs # <<>>
  PROVE  /\ Tail(cs) \in Seq(Calls)
         /\ Head(cs).tool \in AllTools
         /\ IF IsRetrieval(Head(cs)) THEN Head(cs).on \in Artifacts
            ELSE /\ Head(cs).on \in Steps
                 /\ StepFile[Head(cs).on] \in Files
<1>1. Head(cs) \in Calls /\ Tail(cs) \in Seq(Calls)
  OBVIOUS
<1> DEFINE c == Head(cs)
<1>2. /\ c.tool \in AllTools
      /\ c.tool = "decision_edit" => c.on \in Steps
      /\ c.tool # "decision_edit" => c.on \in Artifacts
  <2> HIDE DEF c
  <2>1. c \in Calls
    BY <1>1 DEF c
  <2> QED BY <2>1 DEF Calls, AllTools, Primary, Grep, View, Heavy, Edit
<1> QED BY <1>1, <1>2 DEF IsRetrieval

\* The plan after a response.
LEMMA SyncedQueueType ==
  ASSUME NEW previous \in Seq(Steps), NEW t \in Responses
  PROVE  SyncedQueue(previous, t) \in Seq(Steps)
BY ResidualType DEF SyncedQueue, Responses

-----------------------------------------------------------------------------
(* The inductive invariant.                                                *)

Rounds ==
  [attempted : BOOLEAN, views : SUBSET {"duplicate", "other"},
   suggested : {"none", "trivial", "actionable"}, edited : BOOLEAN,
   ok : BOOLEAN, halted : BOOLEAN]

\* Typed part.  The run state is sound.  A round with views or suggestions was
\* attempted, as the reducer expects.  A suspended run is at the approval or at
\* its end, and what waits for the approval is an edit.
LoopSound ==
  /\ LoopTypeOK
  /\ Sound(rs)
  /\ round \in Rounds
  /\ round.views # {} \/ round.suggested # "none" => round.attempted
  /\ seen \in [grounded : BOOLEAN, refused : BOOLEAN, missed : SUBSET Artifacts]
  /\ pc # "done" => protocolFailures <= MaxProtocolFailures
  /\ pc = "approve" => rs.phase \in {"waiting_user", "terminal"}
  /\ pc \in {"approve", "edit"} => calls # <<>> /\ ~IsRetrieval(Head(calls))

\* An edit was approved, and what was refused has ended the run.
StopInv ==
  /\ round.ok => approval = "approved"
  /\ pc = "edit" => approval = "approved"
  /\ pc = "approve" => approval = "none"
  /\ seen.refused => /\ approval # "approved" /\ calls = <<>>
                     /\ pc \in {"call", "observe", "done"}
                     /\ rs.phase = "terminal"
  /\ round.halted => queue = <<>> /\ pc # "drain"

\* Whatever opens decision_edit in an edit run comes after its evidence once
\* sufficed, and edits happen only where decision_edit is open.
GroundInv ==
  /\ rs.mode = "edit" /\ Marks(rs) => seen.grounded
  /\ rs.mode = "edit" /\ pc \notin {"step", "done"} /\ "decision_edit" \in tools
       => seen.grounded
  /\ pc \in {"approve", "edit", "drain", "drain_plan"} \/ (pc = "call" /\ round.ok)
       => "decision_edit" \in tools

\* What is SATISFIED is in context, and outdated code in context is STALE but for
\* what an edit could not mark.
FreshInv ==
  rs.phase # "terminal" =>
    \A a \in Artifacts :
      /\ rs.items[a] = "satisfied" => anchors[a] # "none"
      /\ anchors[a] = "outdated" => a \in seen.missed \/ rs.items[a] = "stale"

\* A call keeps the shape of its round.
LEMMA AttemptedType ==
  ASSUME NEW c, NEW view \in SUBSET {"duplicate", "other"}, round \in Rounds,
         round.views # {} \/ round.suggested # "none" => round.attempted
  PROVE  LET r == Attempted(c, view)
         IN  /\ r \in Rounds
             /\ r.ok = round.ok /\ r.halted = round.halted /\ r.edited = round.edited
             /\ r.suggested = round.suggested
             /\ r.views # {} \/ r.suggested # "none" => r.attempted
             /\ IsRetrieval(c) => r.attempted
BY DEF Attempted, Rounds, IsRetrieval

\* _post_process_tool_result clears a flag the other fields do not depend on.
LEMMA RetrievedSound ==
  ASSUME NEW s, Sound(s), NEW c
  PROVE  Sound(Retrieved(s, c)) /\ Plain(s, Retrieved(s, c))
         /\ Retrieved(s, c).phase = s.phase /\ Retrieved(s, c).waiting = s.waiting
<1> DEFINE t == [s EXCEPT !.patchFailed = FALSE]
<1>1. s \in RunStates /\ LedgerSound(s)
  BY DEF Sound, Typed
<1>2. t \in RunStates
  BY <1>1 DEF RunStates
<1>3. Sound(t)
  BY <1>1, <1>2, FrameSound DEF RunStates, LedgerSound
<1>4. Plain(s, t) /\ t.phase = s.phase /\ t.waiting = s.waiting
  BY <1>1 DEF Plain, Onwards, Marks, RunStates
<1>5. Plain(s, s)
  BY DEF Plain, Onwards
<1> HIDE DEF t
<1>6. Retrieved(s, c) \in {s, t}
  BY DEF Retrieved, t
<1> QED BY <1>3, <1>4, <1>5, <1>6

\* The run state of a new request.
LEMMA StartedRunEffect ==
  ASSUME NEW mode \in Modes, NEW req \in SUBSET Slots
  PROVE  LET s == StartedRun(mode, req)
         IN  s.phase = "retrieving" /\ ~Marks(s)
             /\ s.items = [a \in Artifacts |-> "absent"]
BY DEF StartedRun, Marks

-----------------------------------------------------------------------------
(* The typed part is inductive.                                            *)

\* A run starts sound, and a new request starts a run.
LEMMA LoopInitSound == LoopInit => LoopSound
<1> SUFFICES ASSUME LoopInit PROVE LoopSound
  OBVIOUS
<1>1. PICK mode \in Modes, req \in SUBSET Slots : rs = StartedRun(mode, req)
  BY DEF LoopInit
<1>2. Sound(rs) /\ rs \in RunStates /\ rs.phase = "retrieving"
  BY <1>1, StartedRunSound, StartedRunEffect DEF Sound, Typed
<1>3. round \in Rounds /\ round.views = {} /\ round.suggested = "none"
  BY DEF LoopInit, NewRound, Rounds
<1>4. seen \in [grounded : BOOLEAN, refused : BOOLEAN, missed : SUBSET Artifacts]
  BY DEF LoopInit, NothingSeen
<1> QED
  BY <1>2, <1>3, <1>4
  DEF LoopInit, LoopSound, LoopTypeOK, AllTools, Checklists, Decisions

\* The next request of the user starts a new run.
LEMMA NextRequestSound ==
  ASSUME LoopSound, NextRequest
  PROVE  LoopSound'
<1>1. PICK mode \in Modes, req \in SUBSET Slots : StartRequest(mode, req)
  BY DEF NextRequest
<1>2. Sound(rs)' /\ rs' \in RunStates /\ rs'.phase = "retrieving"
  BY <1>1, StartedRunSound, StartedRunEffect DEF Sound, Typed, StartRequest
<1>3. (round \in Rounds /\ round.views = {} /\ round.suggested = "none")'
  BY <1>1 DEF StartRequest, NewRound, Rounds
<1>4. (seen \in [grounded : BOOLEAN, refused : BOOLEAN, missed : SUBSET Artifacts])'
  BY <1>1 DEF StartRequest, NothingSeen
<1> QED
  BY <1>1, <1>2, <1>3, <1>4
  DEF NextRequest, StartRequest, LoopSound, LoopTypeOK, AllTools, Checklists, Decisions

\* A step that leaves the run state alone keeps what depends on it.
LEMMA BeginStepSound ==
  ASSUME LoopSound, BeginStep
  PROVE  LoopSound'
<1> DEFINE s == StepStarted(rs)
           cold == {a \in Artifacts : FileOf[a] \notin HotFiles(s)}
<1>1. Sound(s) /\ Plain(rs, s) /\ s \in RunStates
  BY StepStartedSound, StepStartedPlain DEF LoopSound, BeginStep, Sound, Typed
<1> HIDE DEF s
<1>2. PICK demoted \in SUBSET {a \in cold : anchors[a] # "none"} :
        LET kept == [a \in Artifacts |->
                       IF a \in demoted THEN "none" ELSE anchors[a]]
            t == ManifestProjected(s, {a \in Artifacts : kept[a] # "none"})
        IN /\ anchors' = kept
           /\ rs' = t
           /\ tools' = AllowedTools(t, checklist)
           /\ seen' = [seen EXCEPT !.grounded = @ \/ Sufficient(t), !.missed = @ \ demoted]
  BY DEF BeginStep, s
<1> HIDE DEF cold
<1>3. anchors' \in [Artifacts -> {"none", "fresh", "outdated"}]
  BY <1>2 DEF LoopSound, LoopTypeOK
<1>4. /\ Sound(rs') /\ Onwards(s, rs') /\ rs' \in RunStates
      /\ rs'.phase = s.phase
  BY <1>1, <1>2, ManifestProjectedSound, ManifestProjectedEffect DEF Sound, Typed
<1>5. tools' \subseteq AllTools
  BY <1>2, AllowedToolsType
<1>6. seen' \in [grounded : BOOLEAN, refused : BOOLEAN, missed : SUBSET Artifacts]
  <2>1. Sufficient(rs') \in BOOLEAN
    BY DEF Sufficient, ReadyFor
  <2> QED BY <1>2, <2>1 DEF LoopSound
<1>7. rs'.phase # "waiting_user"
  BY <1>1, <1>4 DEF LoopSound, LoopTypeOK, BeginStep, Plain, Onwards
<1> QED
  BY <1>3, <1>4, <1>5, <1>6, <1>7
  DEF BeginStep, LoopSound, LoopTypeOK

\* The steps that end a request, and the turns that bring none.
LEMMA TurnSound ==
  ASSUME LoopSound, ReachMaxSteps \/ LoseResponse \/ TakeResponse \/ Answer
  PROVE  LoopSound'
<1>1. rs \in RunStates
  BY DEF LoopSound, Sound, Typed
<1>2. Sound(RunFailed(rs)) /\ RunFailed(rs).phase = "terminal" /\ RunFailed(rs) \in RunStates
  BY <1>1, RunFailedSound, EndingPlain DEF LoopSound, Sound, Typed
<1>3. CASE ReachMaxSteps
  BY <1>2, <1>3 DEF ReachMaxSteps, LoopSound, LoopTypeOK
<1>4. CASE LoseResponse
  BY <1>2, <1>4 DEF LoseResponse, LoopSound, LoopTypeOK
<1>5. CASE TakeResponse
  <2>1. PICK t \in Turns :
          /\ queue' = SyncedQueue(queue, t)
          /\ card' \in SyncedCards(queue')
          /\ checklist' = IF t.checklist = "keep" THEN checklist ELSE t.checklist
          /\ calls' = t.calls
          /\ pc' = IF t.calls # <<>> THEN "call"
                   ELSE IF queue' # <<>> /\ "decision_edit" \in tools
                        THEN "drain_plan"
                   ELSE "answer"
    BY <1>5 DEF TakeResponse
  <2>2. t \in Responses /\ t.calls \in Seq(Calls)
        /\ t.checklist \in {"keep", "open", "complete"}
    BY <2>1 DEF Responses
  <2>3. queue' \in Seq(Steps)
    BY <2>1, <2>2, SyncedQueueType DEF LoopSound, LoopTypeOK
  <2>4. card' \in {"empty", "draining", "halted", "complete"}
    BY <2>1 DEF SyncedCards, LoopSound, LoopTypeOK
  <2>5. checklist' \in Checklists
    BY <2>1, <2>2 DEF LoopSound, LoopTypeOK, Checklists
  <2>6. round' \in Rounds /\ round'.views = {} /\ round'.suggested = "none"
    BY <1>5 DEF TakeResponse, NewRound, Rounds
  <2>7. rs.phase # "waiting_user"
    BY <1>5 DEF TakeResponse, LoopSound, LoopTypeOK
  <2> QED
    BY <1>5, <2>1, <2>2, <2>3, <2>4, <2>5, <2>6, <2>7
    DEF TakeResponse, LoopSound, LoopTypeOK
<1>6. CASE Answer
  <2>1. rs.phase # "waiting_user"
    BY <1>6 DEF Answer, LoopSound, LoopTypeOK
  <2>2. Sound(rs') /\ rs' \in RunStates
    BY <1>6, AnswerProposedSound, UserAskedSound DEF Answer, LoopSound, Sound, Typed
  <2>3. rs'.phase = "waiting_user" =>
          rs'.waiting \notin {"none", "waiting_user", "terminal"}
    BY <1>1, <1>6, <2>1, UserAskedEffect, EndingPlain
    DEF Answer, Plain, Onwards, RunStates, Phases
  <2> QED
    BY <1>6, <2>2, <2>3 DEF Answer, LoopSound, LoopTypeOK
<1> QED BY <1>3, <1>4, <1>5, <1>6

\* Retrieval calls, taken or not.
LEMMA RetrievalSound ==
  ASSUME LoopSound, SkipCall \/ RetrieveNothing \/ LoadSlice \/ LocateSlice
  PROVE  LoopSound'
<1> DEFINE c == Head(calls)
<1>1. /\ pc = "call" /\ pc' = "call" /\ calls # <<>> /\ calls' = Tail(calls)
      /\ UNCHANGED <<tools, queue, card, checklist, approval, consumer, protocolFailures>>
      /\ seen' = [seen EXCEPT !.missed = @ \ {c.on}] \/ seen' = seen
  BY DEF SkipCall, RetrieveNothing, LoadSlice, LocateSlice
<1>2. /\ calls' \in Seq(Calls)
      /\ IsRetrieval(c) => c.on \in Artifacts
  BY <1>1, FirstCall DEF LoopSound, LoopTypeOK
<1>3. rs.phase # "waiting_user" /\ rs \in RunStates
  BY <1>1 DEF LoopSound, LoopTypeOK
<1> DEFINE s == Retrieved(rs, c)
<1>4. Sound(s) /\ s \in RunStates /\ s.phase # "waiting_user"
  BY <1>3, RetrievedSound DEF LoopSound, Sound, Typed
<1> HIDE DEF s
<1>5. \A ev \in SUBSET (Slots \X Artifacts), refs, obs \in SUBSET Artifacts :
        LET t == EvidenceStored(s, ev, refs, obs)
        IN  Sound(t) /\ t \in RunStates /\ t.phase # "waiting_user"
  BY <1>4, EvidenceStoredSound, EvidenceStoredEffect DEF Onwards, Sound, Typed
<1>6. SUFFICES /\ Sound(rs') /\ rs' \in RunStates /\ rs'.phase # "waiting_user"
               /\ anchors' \in [Artifacts -> {"none", "fresh", "outdated"}]
               /\ round' \in Rounds
               /\ round'.views # {} \/ round'.suggested # "none" => round'.attempted
  <2>1. seen' \in [grounded : BOOLEAN, refused : BOOLEAN, missed : SUBSET Artifacts]
    BY <1>1 DEF LoopSound
  <2> QED BY <1>1, <1>2, <2>1 DEF LoopSound, LoopTypeOK
<1>7. \A view \in SUBSET {"duplicate", "other"} :
        LET r == Attempted(c, view)
        IN  /\ r \in Rounds
            /\ r.views # {} \/ r.suggested # "none" => r.attempted
            /\ IsRetrieval(c) => r.attempted
  BY AttemptedType DEF LoopSound
<1> HIDE DEF c
<1>8. CASE SkipCall
  <2>1. rs' = rs /\ anchors' = anchors
    BY <1>8 DEF SkipCall
  <2>2. PICK view \in SUBSET {"duplicate", "other"} : round' = Attempted(c, view)
    BY <1>8 DEF SkipCall, c
  <2> QED BY <1>3, <1>7, <2>1, <2>2 DEF LoopSound, LoopTypeOK
<1>9. CASE RetrieveNothing
  <2>1. Sound(rs') /\ rs' \in RunStates /\ rs'.phase # "waiting_user"
    BY <1>3, <1>4, <1>5, <1>9 DEF RetrieveNothing, LoopSound, s, c
  <2> QED BY <1>7, <1>9, <2>1 DEF RetrieveNothing, LoopSound, LoopTypeOK, c
<1>10. CASE LoadSlice
  <2>1. IsRetrieval(c)
    BY <1>10 DEF LoadSlice, IsRetrieval, View, Heavy, c
  <2>2. PICK ev \in SUBSET (Slots \X {c.on}) :
               rs' = EvidenceStored(s, ev, {c.on}, {c.on})
    BY <1>10 DEF LoadSlice, s, c
  <2>3. ev \in SUBSET (Slots \X Artifacts) /\ {c.on} \in SUBSET Artifacts
    BY <1>2, <2>1
  <2>4. Sound(rs') /\ rs' \in RunStates /\ rs'.phase # "waiting_user"
    BY <1>5, <2>2, <2>3
  <2>5. anchors' \in [Artifacts -> {"none", "fresh", "outdated"}]
    BY <1>10 DEF LoadSlice, LoopSound, LoopTypeOK
  <2> QED BY <1>7, <1>10, <2>4, <2>5 DEF LoadSlice, c
<1>11. CASE LocateSlice
  <2>1. IsRetrieval(c)
    BY <1>11 DEF LocateSlice, IsRetrieval, Grep, c
  <2>2. PICK ev \in SUBSET (Slots \X {c.on}) :
               rs' = EvidenceStored(s, ev, {c.on}, {})
    BY <1>11 DEF LocateSlice, s, c
  <2>3. ev \in SUBSET (Slots \X Artifacts) /\ {c.on} \in SUBSET Artifacts
    BY <1>2, <2>1
  <2>4. Sound(rs') /\ rs' \in RunStates /\ rs'.phase # "waiting_user"
    BY <1>5, <2>2, <2>3
  <2>5. PICK views \in {"trivial", "actionable"} :
               round' = [Attempted(c, {}) EXCEPT !.suggested =
                           IF @ = "actionable" THEN @ ELSE views]
    BY <1>11 DEF LocateSlice, c
  <2>6. Attempted(c, {}) \in Rounds /\ Attempted(c, {}).attempted
    BY <1>7, <2>1
  <2>7. round' \in Rounds /\ round'.attempted
    BY <2>5, <2>6 DEF Rounds
  <2> QED BY <1>11, <2>4, <2>7 DEF LocateSlice, LoopSound, LoopTypeOK
<1> QED BY <1>8, <1>9, <1>10, <1>11

\* The approval: whatever the user says, the run no longer waits after it.
LEMMA ApprovalSound ==
  ASSUME LoopSound,
         \/ BlockEdit \/ PassPermission \/ RecallDenial \/ RequestApproval
         \/ Approve \/ Deny \/ ApprovalTimeout
  PROVE  LoopSound'
<1>1. rs \in RunStates /\ Sound(rs)
  BY DEF LoopSound, Sound, Typed
<1>2. Sound(UserAsked(rs)) /\ UserAsked(rs) \in RunStates
  BY <1>1, UserAskedSound DEF Sound, Typed
<1>3. rs.phase # "waiting_user" =>
        /\ UserAsked(rs).phase \in {"waiting_user", "terminal"}
        /\ UserAsked(rs).phase = "waiting_user" =>
             UserAsked(rs).waiting \notin {"none", "waiting_user", "terminal"}
  BY <1>1, UserAskedEffect DEF RunStates, Phases
<1>4. ASSUME NEW s, Sound(s), s.phase \in {"waiting_user", "terminal"},
             s.phase = "waiting_user" => s.waiting \notin {"none", "waiting_user"}
      PROVE  /\ Sound(PermissionGranted(s)) /\ PermissionGranted(s).phase # "waiting_user"
             /\ Sound(PermissionDenied(s)) /\ PermissionDenied(s).phase # "waiting_user"
  <2>1. s \in RunStates
    BY <1>4 DEF Sound, Typed
  <2> QED
    BY <1>4, <2>1, PermissionGrantedSound, PermissionGrantedEffect,
       PermissionDeniedSound, PermissionDeniedEffect
<1>5. CASE BlockEdit
  <2>1. Sound(rs') /\ rs'.phase # "waiting_user"
    BY <1>1, <1>5, PreflightBlockedSound, EditEffects
    DEF BlockEdit, AtEdit, Onwards, LoopSound, LoopTypeOK
  <2>2. calls' \in Seq(Calls)
    BY <1>5, FirstCall DEF BlockEdit, AtEdit, LoopSound, LoopTypeOK
  <2> QED
    BY <1>5, <2>1, <2>2 DEF BlockEdit, AtEdit, LoopSound, LoopTypeOK, Sound, Typed
<1>6. CASE PassPermission
  BY <1>6 DEF PassPermission, AtEdit, LoopSound, LoopTypeOK
<1>7. CASE RecallDenial
  <2>1. Sound(rs') /\ rs'.phase # "waiting_user"
    BY <1>2, <1>3, <1>4, <1>7
    DEF RecallDenial, AtEdit, Refused, LoopSound, LoopTypeOK
  <2>2. seen' \in [grounded : BOOLEAN, refused : BOOLEAN, missed : SUBSET Artifacts]
    BY <1>7 DEF RecallDenial, Refused, LoopSound
  <2>3. calls' \in Seq(Calls)
    BY <1>7 DEF RecallDenial, Refused
  <2> QED
    BY <1>7, <2>1, <2>2, <2>3
    DEF RecallDenial, AtEdit, Refused, LoopSound, LoopTypeOK, Sound, Typed
<1>8. CASE RequestApproval
  BY <1>2, <1>3, <1>8 DEF RequestApproval, AtEdit, LoopSound, LoopTypeOK
<1>9. CASE Approve
  <2>1. Sound(rs') /\ rs'.phase # "waiting_user"
    BY <1>1, <1>4, <1>9 DEF Approve, LoopSound, LoopTypeOK
  <2> QED
    BY <1>9, <2>1 DEF Approve, LoopSound, LoopTypeOK, Sound, Typed, Decisions
<1>10. CASE Deny \/ ApprovalTimeout
  <2>1. Sound(rs') /\ rs'.phase # "waiting_user"
    BY <1>1, <1>4, <1>10 DEF Deny, ApprovalTimeout, Refused, LoopSound, LoopTypeOK
  <2>2. seen' \in [grounded : BOOLEAN, refused : BOOLEAN, missed : SUBSET Artifacts]
    BY <1>10 DEF Deny, ApprovalTimeout, Refused, LoopSound
  <2>3. calls' \in Seq(Calls)
    <3>1. calls' = <<>>
      BY <1>10 DEF Deny, ApprovalTimeout, Refused
    <3> QED BY <3>1
  <2> QED
    BY <1>10, <2>1, <2>2, <2>3
    DEF Deny, ApprovalTimeout, Refused, LoopSound, LoopTypeOK, Sound, Typed,
        Decisions
<1> QED BY <1>5, <1>6, <1>7, <1>8, <1>9, <1>10

\* The edits of a response.
LEMMA EditCallSound ==
  ASSUME LoopSound, EditSucceeds \/ EditFails \/ EndCalls
  PROVE  LoopSound'
<1>1. rs \in RunStates /\ Sound(rs)
  BY DEF LoopSound, Sound, Typed
<1>2. CASE EditSucceeds
  <2> DEFINE f == StepFile[Head(calls).on]
  <2>1. f \in Files /\ calls' \in Seq(Calls)
    BY <1>2, FirstCall DEF EditSucceeds, LoopSound, LoopTypeOK
  <2> DEFINE held == HeldOf(f)
             s == ArtifactsInvalidated(rs, held)
             t == EditApplied(s, f)
  <2>2. held \in SUBSET Artifacts
    BY DEF HeldOf
  <2> HIDE DEF held
  <2>3. Sound(s) /\ s \in RunStates /\ Onwards(rs, s)
    BY <1>1, <2>2, ArtifactsInvalidatedSound, ArtifactsInvalidatedEffect DEF Sound, Typed
  <2> HIDE DEF s
  <2>4. Sound(t) /\ t \in RunStates /\ Onwards(s, t)
    BY <2>1, <2>3, EditAppliedSound, EditEffects DEF Sound, Typed
  <2>5. rs' = ValidationPassed(t)
    BY <1>2 DEF EditSucceeds, t, s, held, f
  <2> HIDE DEF t
  <2>6. Sound(rs') /\ rs' \in RunStates /\ Onwards(t, rs')
    BY <2>4, <2>5, ValidationPassedSound, EditEffects DEF Sound, Typed
  <2>7. rs'.phase # "waiting_user"
    BY <1>2, <2>3, <2>4, <2>6 DEF Onwards, EditSucceeds, LoopSound, LoopTypeOK
  <2>8. anchors' \in [Artifacts -> {"none", "fresh", "outdated"}]
    BY <1>2 DEF EditSucceeds, LoopSound, LoopTypeOK
  <2>9. /\ round' \in Rounds
        /\ round'.views # {} \/ round'.suggested # "none" => round'.attempted
    BY <1>2 DEF EditSucceeds, LoopSound, Rounds
  <2>10. seen' \in [grounded : BOOLEAN, refused : BOOLEAN, missed : SUBSET Artifacts]
    <3>1. PICK w \in Windows[Head(calls).on] :
            seen' = [seen EXCEPT !.missed = (@ \cup Unmarked(f, w)) \ HeldOf(f)]
      BY <1>2 DEF EditSucceeds
    <3>2. Unmarked(f, w) \subseteq Artifacts
      BY DEF Unmarked, HeldOf
    <3> HIDE DEF f
    <3> QED BY <3>1, <3>2 DEF LoopSound
  <2> QED
    BY <1>2, <2>1, <2>6, <2>7, <2>8, <2>9, <2>10 DEF EditSucceeds, LoopSound, LoopTypeOK
<1>3. CASE EditFails
  <2> DEFINE f == StepFile[Head(calls).on]
             t == EditApplied(rs, f)
  <2>1. f \in Files /\ calls' \in Seq(Calls)
    BY <1>3, FirstCall DEF EditFails, LoopSound, LoopTypeOK
  <2>2. Sound(t) /\ t \in RunStates /\ Onwards(rs, t)
    BY <1>1, <2>1, EditAppliedSound, EditEffects DEF Sound, Typed
  <2>3. rs' \in {ValidationFailed(t), ToolFailed(rs, TRUE)}
    BY <1>3 DEF EditFails
  <2> HIDE DEF t
  <2>4. Sound(rs') /\ (Onwards(t, rs') \/ Onwards(rs, rs'))
    BY <1>1, <2>2, <2>3, ValidationFailedSound, ToolFailedSound, EditEffects
  <2>5. rs' \in RunStates /\ rs'.phase # "waiting_user"
    BY <1>3, <2>2, <2>4 DEF Onwards, EditFails, LoopSound, LoopTypeOK, Sound, Typed
  <2>6. /\ round' \in Rounds
        /\ round'.views # {} \/ round'.suggested # "none" => round'.attempted
    BY <1>3 DEF EditFails, LoopSound, Rounds
  <2>7. queue' \in Seq(Steps)
    BY <1>3 DEF EditFails
  <2> QED
    BY <1>3, <2>1, <2>4, <2>5, <2>6, <2>7 DEF EditFails, LoopSound, LoopTypeOK
<1>4. CASE EndCalls
  BY <1>4 DEF EndCalls, LoopSound, LoopTypeOK
<1> QED BY <1>2, <1>3, <1>4

\* The drained plan, and the end of the step.
LEMMA DrainSound ==
  ASSUME LoopSound, DrainStep \/ DrainFails \/ EndDrain \/ ObserveTools
  PROVE  LoopSound'
<1>1. rs \in RunStates /\ Sound(rs) /\ rs.phase # "waiting_user"
  BY DEF LoopSound, LoopTypeOK, Sound, Typed, DrainStep, DrainFails, EndDrain,
         ObserveTools, Draining
<1>2. CASE DrainStep
  <2> DEFINE f == StepFile[Head(queue)]
             t == EditApplied(rs, f)
  <2>1. f \in Files /\ queue' \in Seq(Steps)
    <3>1. Head(queue) \in Steps /\ Tail(queue) \in Seq(Steps)
      BY <1>2 DEF DrainStep, LoopSound, LoopTypeOK
    <3> QED BY <1>2, <3>1 DEF DrainStep
  <2>2. Sound(t) /\ t \in RunStates /\ Onwards(rs, t)
    BY <1>1, <2>1, EditAppliedSound, EditEffects DEF Sound, Typed
  <2>3. rs' = ValidationPassed(t)
    BY <1>2 DEF DrainStep
  <2> HIDE DEF t
  <2>4. Sound(rs') /\ Onwards(t, rs') /\ rs' \in RunStates
    BY <2>2, <2>3, ValidationPassedSound, EditEffects DEF Sound, Typed
  <2>5. rs'.phase # "waiting_user"
    BY <1>1, <2>2, <2>4 DEF Onwards
  <2>6. anchors' \in [Artifacts -> {"none", "fresh", "outdated"}]
    BY <1>2 DEF DrainStep, LoopSound, LoopTypeOK
  <2>7. seen' \in [grounded : BOOLEAN, refused : BOOLEAN, missed : SUBSET Artifacts]
    BY <1>2 DEF DrainStep, Unmarked, HeldOf, LoopSound
  <2> QED
    BY <1>2, <2>1, <2>4, <2>5, <2>6, <2>7
    DEF DrainStep, Draining, LoopSound, LoopTypeOK
<1>3. CASE DrainFails
  <2>1. Sound(rs') /\ rs' \in RunStates /\ rs'.phase # "waiting_user"
    <3>1. Sound(ToolFailed(rs, TRUE)) /\ Onwards(rs, ToolFailed(rs, TRUE))
      BY <1>1, ToolFailedSound, EditEffects
    <3>2. rs' \in {rs, ToolFailed(rs, TRUE)}
      BY <1>3 DEF DrainFails
    <3> QED BY <1>1, <3>1, <3>2 DEF Onwards, Sound, Typed
  <2>2. queue' \in Seq(Steps)
    BY <1>3 DEF DrainFails
  <2> QED
    BY <1>3, <2>1, <2>2 DEF DrainFails, Draining, LoopSound, LoopTypeOK
<1>4. CASE EndDrain
  BY <1>1, <1>4 DEF EndDrain, Draining, Onward, LoopSound, LoopTypeOK
<1>5. CASE ObserveTools
  <2> DEFINE o == [attempted |-> round.attempted,
                   viewDup |-> round.views = {"duplicate"},
                   suggested |-> round.suggested, edited |-> round.edited]
  <2>1. o \in RoundObservations
    BY DEF RoundObservations, LoopSound, Rounds
  <2>2. rs' = ToolRoundObserved(rs, o)
    BY <1>5 DEF ObserveTools
  <2> HIDE DEF o
  <2>3. Sound(rs') /\ rs' \in RunStates /\ Onwards(rs, rs')
    BY <1>1, <2>1, <2>2, ToolRoundObservedSound, ToolRoundObservedPlain
    DEF Sound, Typed, Plain
  <2> QED
    BY <1>1, <1>5, <2>3 DEF Onwards, ObserveTools, Onward, LoopSound, LoopTypeOK
<1> QED BY <1>2, <1>3, <1>4, <1>5

\* Every step keeps the typed part.
LEMMA LoopSoundStep == LoopSound /\ [LoopNext]_vars => LoopSound'
<1>1. ASSUME LoopSound, LoopNext
      PROVE  LoopSound'
  BY <1>1, NextRequestSound, BeginStepSound, TurnSound, RetrievalSound,
     ApprovalSound, EditCallSound, DrainSound
  DEF LoopNext, LoopStep, UserStep
<1>2. ASSUME LoopSound, UNCHANGED vars
      PROVE  LoopSound'
  BY <1>2 DEF LoopSound, LoopTypeOK, vars, loopVars
<1> QED BY <1>1, <1>2

-----------------------------------------------------------------------------
(* What a failure and a refusal stop.                                      *)

\* A refused edit has ended the run, and no step runs it further; the plan of
\* a failed edit is gone until the Core answers again.
LEMMA StopInvStep == LoopSound /\ StopInv /\ [LoopNext]_vars => StopInv'
<1> SUFFICES ASSUME LoopSound, StopInv, [LoopNext]_vars
             PROVE  StopInv'
  OBVIOUS
<1>1. rs \in RunStates /\ round \in Rounds
      /\ seen \in [grounded : BOOLEAN, refused : BOOLEAN, missed : SUBSET Artifacts]
  BY DEF LoopSound, Sound, Typed
<1>2. CASE NextRequest
  <2>1. round' = NewRound /\ seen' = NothingSeen /\ pc' = "step"
    BY <1>2 DEF NextRequest, StartRequest
  <2> QED BY <2>1 DEF NewRound, NothingSeen, StopInv
<1>3. CASE BeginStep
  <2>1. seen'.refused = seen.refused
    BY <1>1, <1>3 DEF BeginStep
  <2> QED BY <1>3, <2>1 DEF BeginStep, StopInv
<1>4. CASE ReachMaxSteps \/ LoseResponse \/ Answer
  BY <1>4 DEF ReachMaxSteps, LoseResponse, Answer, StopInv
<1>5. CASE TakeResponse
  <2>1. round' = NewRound /\ pc' \in {"call", "drain_plan", "answer"}
        /\ seen' = seen /\ ~seen.refused
    BY <1>5 DEF TakeResponse, StopInv
  <2> QED BY <2>1 DEF NewRound, StopInv
<1>6. CASE SkipCall \/ RetrieveNothing \/ LoadSlice \/ LocateSlice
  <2>1. /\ pc = "call" /\ calls # <<>>
        /\ UNCHANGED <<pc, queue, approval>> /\ seen'.refused = seen.refused
    BY <1>1, <1>6 DEF SkipCall, RetrieveNothing, LoadSlice, LocateSlice
  <2>2. round'.ok = round.ok /\ round'.halted = round.halted
    BY <1>1, <1>6
    DEF SkipCall, RetrieveNothing, LoadSlice, LocateSlice, Attempted, Rounds
  <2> QED BY <2>1, <2>2 DEF StopInv
<1>7. CASE BlockEdit \/ PassPermission \/ RequestApproval \/ Approve
  BY <1>7 DEF BlockEdit, PassPermission, RequestApproval, Approve, AtEdit, StopInv
<1>8. ASSUME RecallDenial \/ Deny \/ ApprovalTimeout
      PROVE  StopInv'
  <2>1. /\ calls' = <<>> /\ pc' = "call" /\ approval' # "approved"
        /\ ~round.ok /\ round' = round /\ queue' = queue
    BY <1>8 DEF RecallDenial, Deny, ApprovalTimeout, AtEdit, Refused, StopInv
  <2>2. rs'.phase = "terminal"
    <3>1. CASE RecallDenial
      <4> DEFINE s == UserAsked(rs)
      <4>1. rs.phase # "waiting_user" /\ rs' = PermissionDenied(s)
        BY <3>1 DEF RecallDenial, AtEdit, Refused, LoopSound, LoopTypeOK
      <4>2. s \in RunStates /\ s.phase \in {"waiting_user", "terminal"}
            /\ (s.phase = "waiting_user" => s.waiting # "none")
        BY <1>1, <4>1, UserAskedEffect, UserAskedSound
        DEF LoopSound, Sound, Typed, RunStates, Phases
      <4> HIDE DEF s
      <4> QED BY <4>1, <4>2, PermissionDeniedEffect
    <3>2. CASE Deny \/ ApprovalTimeout
      <4>1. pc = "approve" /\ rs' = PermissionDenied(rs)
        BY <3>2 DEF Deny, ApprovalTimeout, Refused
      <4>2. rs.phase \in {"waiting_user", "terminal"}
            /\ (rs.phase = "waiting_user" => rs.waiting # "none")
        BY <4>1 DEF LoopSound, LoopTypeOK
      <4> QED BY <1>1, <4>1, <4>2, PermissionDeniedEffect
    <3> QED BY <1>8, <3>1, <3>2
  <2>3. round'.halted => queue' = <<>> /\ pc' # "drain"
    BY <2>1 DEF StopInv
  <2> QED BY <2>1, <2>2, <2>3 DEF StopInv
<1>9. CASE EditSucceeds
  <2>1. round'.ok /\ round'.halted = round.halted /\ seen'.refused = seen.refused
    BY <1>1, <1>9 DEF EditSucceeds, Rounds
  <2> QED BY <1>9, <2>1 DEF EditSucceeds, StopInv
<1>10. CASE EditFails
  <2>1. ~round'.ok
    BY <1>1, <1>10 DEF EditFails, Rounds
  <2> QED BY <1>10, <2>1 DEF EditFails, StopInv
<1>11. CASE EndCalls
  BY <1>11 DEF EndCalls, StopInv
<1>12. CASE DrainStep
  <2>1. seen'.refused = seen.refused
    BY <1>1, <1>12 DEF DrainStep
  <2> QED BY <1>12, <2>1 DEF DrainStep, Draining, StopInv
<1>13. CASE DrainFails
  BY <1>13 DEF DrainFails, Draining, StopInv
<1>14. CASE EndDrain
  BY <1>14 DEF EndDrain, Draining, Onward, StopInv
<1>15. CASE ObserveTools
  <2>1. rs.phase = "terminal" => rs'.phase = "terminal"
    BY <1>1, <1>15, ToolRoundObservedPlain DEF ObserveTools, Plain, Onwards
  <2> QED BY <1>15, <2>1 DEF ObserveTools, Onward, StopInv
<1>16. CASE UNCHANGED vars
  BY <1>16 DEF vars, loopVars, StopInv
<1> QED
  BY <1>2, <1>3, <1>4, <1>5, <1>6, <1>7, <1>8, <1>9, <1>10, <1>11, <1>12,
     <1>13, <1>14, <1>15, <1>16
  DEF LoopNext, LoopStep, UserStep

-----------------------------------------------------------------------------
(* No edit before the evidence sufficed.                                   *)

\* The gate offers decision_edit in an edit run only when the evidence suffices
\* or the run shows that it has tried an edit.
LEMMA ToolsGrounded ==
  ASSUME NEW s, Sound(s), s.mode = "edit", ~Sufficient(s), ~Marks(s),
         NEW checks \in Checklists
  PROVE  "decision_edit" \notin AllowedTools(s, checks)
<1>1. s.noGain \in Nat /\ s.phase # "responding"
  BY DEF Sound, Typed, RunStates, PhaseSound
<1>2. s.validation = "not_run" /\ ~s.failItems /\ ~s.patchFailed /\ s.files = {}
  BY DEF Marks
<1>3. ~Verifying(s, checks) /\ ~EditBurst(s)
  BY <1>1, <1>2 DEF Verifying, EditBurst
<1>4. AllowedTools(s, checks) = InsufficientTools(s)
  BY <1>2, <1>3 DEF AllowedTools
<1> DEFINE retrieval == ProfileTools(s) \cup Primary
<1>5. "decision_edit" \notin retrieval /\ Grep \subseteq retrieval /\ View \subseteq retrieval
  BY DEF ProfileTools, Primary, Grep, View
<1>6. "decision_edit" \notin Primary /\ "decision_edit" \notin Grep /\ "decision_edit" \notin View
  BY DEF Primary, Grep, View
<1> HIDE DEF retrieval
<1>7. CASE s.noGain >= 2
  BY <1>1, <1>4, <1>6, <1>7 DEF InsufficientTools
<1>8. CASE ~(s.noGain >= 2)
  <2> DEFINE open == ActionableStale(s)
             left == Saturated(s, retrieval, open)
  <2>1. "decision_edit" \notin left /\ left # {}
    BY <1>1, <1>5, <1>6, <1>8 DEF Saturated, Grep, View, Heavy
  <2>2. InsufficientTools(s) \in {retrieval, OrDefault(left)}
    BY <1>1, <1>8 DEF InsufficientTools, retrieval
  <2> HIDE DEF left
  <2>3. OrDefault(left) = left
    BY <2>1 DEF OrDefault
  <2> QED BY <1>4, <1>5, <2>1, <2>2, <2>3
<1> QED BY <1>7, <1>8

\* The evidence that opens decision_edit first is remembered.
LEMMA BeginStepGrounded ==
  ASSUME LoopSound, GroundInv, BeginStep
  PROVE  GroundInv'
<1> DEFINE s == StepStarted(rs)
           cold == {a \in Artifacts : FileOf[a] \notin HotFiles(s)}
<1>1. Sound(s) /\ Plain(rs, s) /\ s \in RunStates
  BY StepStartedSound, StepStartedPlain DEF LoopSound, BeginStep, Sound, Typed
<1> HIDE DEF s
<1>2. PICK demoted \in SUBSET {a \in cold : anchors[a] # "none"} :
        LET kept == [a \in Artifacts |->
                       IF a \in demoted THEN "none" ELSE anchors[a]]
            t == ManifestProjected(s, {a \in Artifacts : kept[a] # "none"})
        IN /\ anchors' = kept
           /\ rs' = t
           /\ tools' = AllowedTools(t, checklist)
           /\ seen' = [seen EXCEPT !.grounded = @ \/ Sufficient(t), !.missed = @ \ demoted]
  BY DEF BeginStep, s
<1> HIDE DEF cold
<1>3. /\ Sound(rs') /\ rs'.mode = rs.mode /\ (Marks(rs') => Marks(rs))
  BY <1>1, <1>2, ManifestProjectedSound, ManifestProjectedEffect
  DEF Plain, Onwards
<1>4. seen'.grounded = (seen.grounded \/ Sufficient(rs'))
  BY <1>2 DEF LoopSound
<1>5. tools' = AllowedTools(rs', checklist) /\ checklist \in Checklists
  BY <1>2 DEF LoopSound, LoopTypeOK
<1>6. rs'.mode = "edit" /\ "decision_edit" \in tools' => seen'.grounded
  BY <1>3, <1>4, <1>5, ToolsGrounded DEF GroundInv
<1>7. pc' = "llm"
  BY DEF BeginStep
<1> QED BY <1>3, <1>4, <1>6, <1>7 DEF GroundInv

\* No event about an edit changes the mode of the run.
LEMMA EditModes ==
  ASSUME NEW s, Sound(s), NEW f \in Files
  PROVE  /\ PreflightBlocked(s, TRUE).mode = s.mode
         /\ ToolFailed(s, TRUE).mode = s.mode
         /\ ValidationPassed(EditApplied(s, f)).mode = s.mode
         /\ ValidationFailed(EditApplied(s, f)).mode = s.mode
<1>1. s \in RunStates
  BY DEF Sound, Typed
<1> DEFINE t == EditApplied(s, f)
<1>2. t \in RunStates /\ t.mode = s.mode
  BY <1>1, EditAppliedSound, EditEffects DEF Sound, Typed, Onwards
<1> HIDE DEF t
<1>3. \A r \in RunStates :
        /\ ValidationPassed(r).mode = r.mode
        /\ ValidationFailed(r).mode = r.mode
  BY EditEffects DEF Onwards
<1>4. ToolFailed(s, TRUE).mode = s.mode /\ PreflightBlocked(s, TRUE).mode = s.mode
  BY <1>1, EditEffects DEF Onwards
<1> QED BY <1>2, <1>3, <1>4 DEF t

\* An edit run shows no trace of an edit before its evidence sufficed.
LEMMA GroundInvStep == LoopSound /\ GroundInv /\ [LoopNext]_vars => GroundInv'
<1> SUFFICES ASSUME LoopSound, GroundInv, [LoopNext]_vars
             PROVE  GroundInv'
  OBVIOUS
<1>1. rs \in RunStates /\ round \in Rounds
      /\ seen \in [grounded : BOOLEAN, refused : BOOLEAN, missed : SUBSET Artifacts]
  BY DEF LoopSound, Sound, Typed
<1>2. CASE NextRequest
  <2>1. PICK mode \in Modes, req \in SUBSET Slots : StartRequest(mode, req)
    BY <1>2 DEF NextRequest
  <2>2. ~Marks(rs') /\ pc' = "step"
    BY <2>1, StartedRunEffect DEF StartRequest
  <2> QED BY <2>2 DEF GroundInv
<1>3. CASE BeginStep
  BY <1>3, BeginStepGrounded
<1>4. CASE ReachMaxSteps \/ LoseResponse \/ Answer
  <2>1. rs' \in {rs, RunFailed(rs), AnswerProposed(rs), UserAsked(rs)}
        /\ pc' \in {"step", "done"} /\ seen' = seen
    BY <1>4 DEF ReachMaxSteps, LoseResponse, Answer
  <2>2. rs'.mode = rs.mode /\ (Marks(rs') => Marks(rs))
    BY <1>1, <2>1, EndingPlain, UserAskedEffect DEF Plain, Onwards
  <2> QED BY <2>1, <2>2 DEF GroundInv
<1>5. CASE TakeResponse
  <2>1. /\ round' = NewRound /\ pc' \in {"call", "drain_plan", "answer"}
        /\ pc' = "drain_plan" => "decision_edit" \in tools
        /\ pc = "llm" /\ UNCHANGED <<rs, tools, seen>>
    BY <1>5 DEF TakeResponse
  <2> QED BY <2>1 DEF NewRound, GroundInv
<1>6. CASE SkipCall \/ RetrieveNothing \/ LoadSlice \/ LocateSlice
  <2>1. pc = "call" /\ calls # <<>> /\ UNCHANGED <<pc, tools>>
        /\ seen'.grounded = seen.grounded
    BY <1>1, <1>6 DEF SkipCall, RetrieveNothing, LoadSlice, LocateSlice
  <2>2. round'.ok = round.ok
    BY <1>1, <1>6
    DEF SkipCall, RetrieveNothing, LoadSlice, LocateSlice, Attempted, Rounds
  <2> DEFINE s == Retrieved(rs, Head(calls))
  <2>3. Plain(rs, s) /\ s \in RunStates /\ s.phase # "waiting_user"
    BY <2>1, RetrievedSound DEF LoopSound, LoopTypeOK, Sound, Typed
  <2>4. rs' \in {rs, s} \/
          \E ev \in SUBSET (Slots \X Artifacts), refs, obs \in SUBSET Artifacts :
            rs' = EvidenceStored(s, ev, refs, obs)
    <3>1. IsRetrieval(Head(calls)) => Head(calls).on \in Artifacts
      BY <2>1, FirstCall DEF LoopSound, LoopTypeOK
    <3>2. CASE SkipCall
      BY <3>2 DEF SkipCall
    <3>3. CASE RetrieveNothing
      BY <3>3 DEF RetrieveNothing
    <3> DEFINE a == Head(calls).on
    <3> HIDE DEF s
    <3>4. CASE LoadSlice
      <4>1. a \in Artifacts
        BY <3>1, <3>4 DEF LoadSlice, IsRetrieval, View, Heavy
      <4>2. PICK ev \in SUBSET (Slots \X {a}) : rs' = EvidenceStored(s, ev, {a}, {a})
        BY <3>4 DEF LoadSlice, s
      <4> QED BY <4>1, <4>2
    <3>5. CASE LocateSlice
      <4>1. a \in Artifacts
        BY <3>1, <3>5 DEF LocateSlice, IsRetrieval, Grep
      <4>2. PICK ev \in SUBSET (Slots \X {a}) : rs' = EvidenceStored(s, ev, {a}, {})
        BY <3>5 DEF LocateSlice, s
      <4> QED BY <4>1, <4>2
    <3> QED BY <1>6, <3>2, <3>3, <3>4, <3>5
  <2> HIDE DEF s
  <2>5. rs'.mode = rs.mode /\ (Marks(rs') => Marks(rs))
    BY <2>3, <2>4, EvidenceStoredEffect DEF Plain, Onwards
  <2> QED BY <2>1, <2>2, <2>5 DEF GroundInv
<1>7. ASSUME rs'.mode = rs.mode, "decision_edit" \in tools, tools' = tools,
             seen'.grounded = seen.grounded, pc \notin {"step", "done"}
      PROVE  GroundInv'
  BY <1>7 DEF GroundInv
<1>8. CASE BlockEdit \/ PassPermission \/ RecallDenial \/ RequestApproval
  <2>1. pc = "call" /\ "decision_edit" \in tools /\ tools' = tools
        /\ seen'.grounded = seen.grounded
    BY <1>1, <1>8
    DEF BlockEdit, PassPermission, RecallDenial, RequestApproval, AtEdit, Refused
  <2>2. UserAsked(rs) \in RunStates /\ UserAsked(rs).mode = rs.mode
    BY <1>1, UserAskedSound, UserAskedEffect DEF LoopSound, Sound, Typed
  <2>3. \A s \in RunStates : PermissionDenied(s).mode = s.mode
    BY DEF PermissionDenied, Live, Ended, RunStates
  <2>4. rs'.mode = rs.mode
    <3>1. rs' \in {rs, PreflightBlocked(rs, TRUE), UserAsked(rs),
                   PermissionDenied(UserAsked(rs))}
      BY <1>8 DEF BlockEdit, PassPermission, RecallDenial, RequestApproval, Refused
    <3>2. PreflightBlocked(rs, TRUE).mode = rs.mode
      BY <1>1, EditEffects DEF Onwards
    <3>3. PermissionDenied(UserAsked(rs)).mode = rs.mode
      BY <2>2, <2>3
    <3> QED BY <2>2, <3>1, <3>2, <3>3
  <2> QED BY <2>1, <2>4 DEF GroundInv
<1>9. CASE Approve \/ Deny \/ ApprovalTimeout
  <2>1. pc = "approve" /\ tools' = tools /\ seen'.grounded = seen.grounded
    BY <1>1, <1>9 DEF Approve, Deny, ApprovalTimeout, Refused
  <2>2. rs'.mode = rs.mode
    <3>1. rs' \in {PermissionGranted(rs), PermissionDenied(rs)}
      BY <1>9 DEF Approve, Deny, ApprovalTimeout, Refused
    <3>2. PermissionGranted(rs).mode = rs.mode /\ PermissionDenied(rs).mode = rs.mode
      BY <1>1 DEF PermissionGranted, PermissionDenied, Live, Ended, RunStates
    <3> QED BY <3>1, <3>2
  <2> QED BY <2>1, <2>2 DEF GroundInv
<1>10. CASE EditSucceeds \/ EditFails
  <2>1. pc = "edit" /\ tools' = tools /\ seen'.grounded = seen.grounded
    BY <1>1, <1>10 DEF EditSucceeds, EditFails
  <2>2. rs'.mode = rs.mode
    <3> DEFINE f == StepFile[Head(calls).on]
               s == ArtifactsInvalidated(rs, HeldOf(f))
    <3>1. f \in Files
      BY <2>1, FirstCall DEF LoopSound, LoopTypeOK
    <3>2. rs' \in {ValidationPassed(EditApplied(s, f)),
                   ValidationFailed(EditApplied(rs, f)), ToolFailed(rs, TRUE)}
      BY <1>10 DEF EditSucceeds, EditFails
    <3>3. HeldOf(f) \in SUBSET Artifacts
      BY DEF HeldOf
    <3>4. Sound(s) /\ s \in RunStates /\ s.mode = rs.mode
      BY <1>1, <3>3, ArtifactsInvalidatedSound, ArtifactsInvalidatedEffect
      DEF LoopSound, Sound, Typed, Onwards
    <3>5. Sound(rs)
      BY DEF LoopSound
    <3> HIDE DEF s, f
    <3>6. /\ ValidationPassed(EditApplied(s, f)).mode = rs.mode
          /\ ValidationFailed(EditApplied(rs, f)).mode = rs.mode
          /\ ToolFailed(rs, TRUE).mode = rs.mode
      BY <3>1, <3>4, <3>5, EditModes
    <3> QED BY <3>2, <3>6
  <2> QED BY <1>7, <2>1, <2>2 DEF GroundInv
<1>11. CASE EndCalls
  BY <1>11 DEF EndCalls, GroundInv
<1>12. CASE DrainStep \/ DrainFails
  <2>1. pc \in {"drain", "drain_plan"} /\ UNCHANGED <<pc, tools>>
        /\ seen'.grounded = seen.grounded
    BY <1>1, <1>12 DEF DrainStep, DrainFails, Draining
  <2>2. rs'.mode = rs.mode
    <3> DEFINE f == StepFile[Head(queue)]
    <3>1. rs' \in {ValidationPassed(EditApplied(rs, f)), rs, ToolFailed(rs, TRUE)}
      BY <1>12 DEF DrainStep, DrainFails
    <3>2. queue # <<>> /\ queue \in Seq(Steps)
      BY <1>12 DEF DrainStep, DrainFails, LoopSound, LoopTypeOK
    <3>3. Head(queue) \in Steps
      BY <3>2
    <3>4. f \in Files /\ Sound(rs)
      BY <3>3 DEF LoopSound
    <3> HIDE DEF f
    <3>5. /\ ValidationPassed(EditApplied(rs, f)).mode = rs.mode
          /\ ToolFailed(rs, TRUE).mode = rs.mode
      BY <3>4, EditModes
    <3> QED BY <3>1, <3>5
  <2> QED BY <2>1, <2>2 DEF GroundInv
<1>13. CASE EndDrain
  BY <1>13 DEF EndDrain, Draining, Onward, GroundInv
<1>14. CASE ObserveTools
  <2>1. rs'.mode = rs.mode /\ (Marks(rs') => Marks(rs))
    BY <1>1, <1>14, ToolRoundObservedPlain DEF ObserveTools, Plain, Onwards
  <2> QED BY <1>14, <2>1 DEF ObserveTools, Onward, GroundInv
<1>15. CASE UNCHANGED vars
  BY <1>15 DEF vars, loopVars, GroundInv
<1> QED
  BY <1>2, <1>3, <1>4, <1>5, <1>6, <1>8, <1>9, <1>10, <1>11, <1>12, <1>13,
     <1>14, <1>15
  DEF LoopNext, LoopStep, UserStep

-----------------------------------------------------------------------------
(* What the manifest calls SATISFIED.                                      *)

\* The end is final, no item becomes SATISFIED and the STALE ones stay so.
Dims(s, t) ==
  /\ s.phase = "terminal" => t.phase = "terminal"
  /\ \A a \in Artifacts : /\ t.items[a] = "satisfied" => s.items[a] = "satisfied"
                          /\ s.items[a] = "stale" => t.items[a] = "stale"

\* MarkStale makes no item SATISFIED and keeps the STALE ones.
LEMMA DimFrame ==
  ASSUME NEW s, NEW t, NEW fs, s.phase = "terminal" => t.phase = "terminal",
         t.items \in {s.items, MarkStale(s.items, fs)}
  PROVE  Dims(s, t)
<1>1. \A items : \A a \in Artifacts :
        /\ MarkStale(items, fs)[a] = "satisfied" => items[a] = "satisfied"
        /\ items[a] = "stale" => MarkStale(items, fs)[a] = "stale"
  BY DEF MarkStale
<1>2. CASE t.items = s.items
  BY <1>2 DEF Dims
<1>3. CASE t.items = MarkStale(s.items, fs)
  BY <1>1, <1>3 DEF Dims
<1> QED BY <1>2, <1>3

\* Edits, and what the user says of them, make no item SATISFIED.
LEMMA EditsDim ==
  ASSUME NEW s, Sound(s), NEW f \in Files
  PROVE  /\ Dims(s, PreflightBlocked(s, TRUE)) /\ Dims(s, ToolFailed(s, TRUE))
         /\ Dims(s, ValidationFailed(EditApplied(s, f)))
         /\ Dims(s, ValidationPassed(EditApplied(s, f)))
         /\ Dims(s, UserAsked(s)) /\ Dims(s, PermissionGranted(s))
         /\ Dims(s, PermissionDenied(s)) /\ Dims(s, PermissionDenied(UserAsked(s)))
<1>1. s \in RunStates
  BY DEF Sound, Typed
<1> DEFINE t == EditApplied(s, f)
<1>2. t \in RunStates
  BY EditAppliedSound DEF Sound, Typed
<1>3. Dims(s, t)
  <2>1. (s.phase = "terminal" => t.phase = "terminal")
        /\ t.items \in {s.items, MarkStale(s.items, {f})}
    BY <1>1, EditAppliedEffect DEF Onwards
  <2> HIDE DEF t
  <2> QED BY <2>1, DimFrame
<1> HIDE DEF t
<1>4. ASSUME NEW r \in RunStates
      PROVE  Dims(r, ValidationPassed(r)) /\ Dims(r, ValidationFailed(r))
  <2> DEFINE p == ValidationPassed(r)
             q == ValidationFailed(r)
  <2>1. /\ r.phase = "terminal" => p.phase = "terminal" /\ q.phase = "terminal"
        /\ p.items = r.items /\ q.items = r.items
    BY EditEffects DEF Onwards
  <2> HIDE DEF p, q
  <2>2. Dims(r, p) /\ Dims(r, q)
    BY <2>1, DimFrame
  <2> QED BY <2>2 DEF p, q
<1>5. Dims(s, ToolFailed(s, TRUE)) /\ Dims(s, PreflightBlocked(s, TRUE))
  <2> DEFINE p == ToolFailed(s, TRUE)
             q == PreflightBlocked(s, TRUE)
  <2>1. /\ s.phase = "terminal" => p.phase = "terminal" /\ q.phase = "terminal"
        /\ p.items = s.items /\ q.items = s.items
    BY <1>1, EditEffects DEF Onwards
  <2> HIDE DEF p, q
  <2>2. Dims(s, p) /\ Dims(s, q)
    BY <2>1, DimFrame
  <2> QED BY <2>2 DEF p, q
<1>6. \A r \in RunStates : /\ Dims(r, UserAsked(r)) /\ Dims(r, PermissionGranted(r))
                           /\ Dims(r, PermissionDenied(r))
  BY DEF Dims, UserAsked, PermissionGranted, PermissionDenied, Ended, Live, RunStates
<1>7. UserAsked(s) \in RunStates
  BY UserAskedSound DEF Sound, Typed
<1>8. \A q, r : Dims(s, q) /\ Dims(q, r) => Dims(s, r)
  BY DEF Dims
<1> QED BY <1>1, <1>2, <1>3, <1>4, <1>5, <1>6, <1>7, <1>8 DEF t

\* The invariant survives a step that changes no code in context and makes no
\* item SATISFIED.
LEMMA FreshFrame ==
  ASSUME FreshInv, Dims(rs, rs'), anchors' = anchors, seen'.missed = seen.missed
  PROVE  FreshInv'
BY DEF FreshInv, Dims

\* The projection calls SATISFIED what is in context.
LEMMA BeginStepFresh ==
  ASSUME LoopSound, FreshInv, BeginStep
  PROVE  FreshInv'
<1> DEFINE s == StepStarted(rs)
           cold == {a \in Artifacts : FileOf[a] \notin HotFiles(s)}
<1>1. Plain(rs, s) /\ s \in RunStates
  BY StepStartedSound, StepStartedPlain DEF LoopSound, BeginStep, Sound, Typed
<1> HIDE DEF s
<1>2. PICK demoted \in SUBSET {a \in cold : anchors[a] # "none"} :
        LET kept == [a \in Artifacts |->
                       IF a \in demoted THEN "none" ELSE anchors[a]]
            t == ManifestProjected(s, {a \in Artifacts : kept[a] # "none"})
        IN /\ anchors' = kept
           /\ rs' = t
           /\ tools' = AllowedTools(t, checklist)
           /\ seen' = [seen EXCEPT !.grounded = @ \/ Sufficient(t), !.missed = @ \ demoted]
  BY DEF BeginStep, s
<1> HIDE DEF cold
<1>3. seen'.missed = seen.missed \ demoted
  BY <1>2 DEF LoopSound
<1> DEFINE covered == {a \in Artifacts : anchors'[a] # "none"}
<1>4. rs'.items = Project(s.items, covered)
  BY <1>1, <1>2, ManifestProjectedEffect
<1>5. \A a \in Artifacts : /\ rs'.items[a] = "satisfied" => anchors'[a] # "none"
                           /\ s.items[a] = "stale" => rs'.items[a] = "stale"
  BY <1>4 DEF Project
<1>6. \A a \in Artifacts : anchors'[a] = IF a \in demoted THEN "none" ELSE anchors[a]
  BY <1>2
<1>7. s.items = rs.items /\ (rs'.phase # "terminal" => rs.phase # "terminal")
  <2>1. Onwards(s, rs')
    BY <1>1, <1>2, ManifestProjectedEffect
  <2> QED BY <1>1, <2>1 DEF Plain, Onwards
<1> QED BY <1>3, <1>5, <1>6, <1>7 DEF FreshInv

\* What a call stores as SATISFIED it has just loaded.
LEMMA RetrievalFresh ==
  ASSUME LoopSound, FreshInv,
         SkipCall \/ RetrieveNothing \/ LoadSlice \/ LocateSlice
  PROVE  FreshInv'
<1> DEFINE c == Head(calls)
           s == Retrieved(rs, c)
<1>1. pc = "call" /\ calls # <<>>
  BY DEF SkipCall, RetrieveNothing, LoadSlice, LocateSlice
<1>2. Plain(rs, s) /\ s \in RunStates /\ s.phase # "waiting_user"
  BY <1>1, RetrievedSound DEF LoopSound, LoopTypeOK, Sound, Typed
<1>3. IsRetrieval(c) => c.on \in Artifacts
  BY <1>1, FirstCall DEF LoopSound, LoopTypeOK
<1> HIDE DEF s
<1> DEFINE Stores(t, obs) ==
             \E ev \in SUBSET (Slots \X Artifacts), refs \in SUBSET Artifacts :
               t = EvidenceStored(s, ev, refs, obs)
<1>4. ASSUME NEW obs \in SUBSET Artifacts, NEW t, Stores(t, obs)
      PROVE  /\ rs.phase = "terminal" => t.phase = "terminal"
             /\ \A a \in Artifacts \ obs :
                  /\ t.items[a] = "satisfied" => rs.items[a] = "satisfied"
                  /\ rs.items[a] = "stale" => t.items[a] = "stale"
  <2>1. /\ rs.phase = "terminal" => t.phase = "terminal"
        /\ t.items \in {s.items, Reconcile(s.items, obs)} /\ s.items = rs.items
    BY <1>2, <1>4, EvidenceStoredEffect DEF Plain, Onwards
  <2>2. \A items : \A a \in Artifacts \ obs : Reconcile(items, obs)[a] = items[a]
    BY DEF Reconcile
  <2>3. CASE t.items = s.items
    BY <2>1, <2>3
  <2>4. CASE t.items = Reconcile(s.items, obs)
    BY <2>1, <2>2, <2>4
  <2> QED BY <2>1, <2>3, <2>4
<1> HIDE DEF Stores
<1>5. CASE SkipCall
  BY <1>1, <1>5, FreshFrame DEF SkipCall, Dims
<1>6. CASE RetrieveNothing
  <2>1. rs' \in {rs, s, EvidenceStored(s, {}, {}, {})}
    BY <1>6 DEF RetrieveNothing, s
  <2>2. Dims(rs, EvidenceStored(s, {}, {}, {}))
    <3>1. Stores(EvidenceStored(s, {}, {}, {}), {})
      BY DEF Stores
    <3> QED BY <1>4, <3>1 DEF Dims
  <2>3. Dims(rs, rs')
    BY <1>2, <2>1, <2>2 DEF Plain, Onwards, Dims
  <2> QED BY <1>1, <1>6, <2>3, FreshFrame DEF RetrieveNothing
<1>7. CASE LocateSlice
  <2>1. c.on \in Artifacts
    BY <1>3, <1>7 DEF LocateSlice, IsRetrieval, Grep
  <2> DEFINE a == c.on
  <2>2. Stores(rs', {})
    <3>1. PICK ev \in SUBSET (Slots \X {a}) : rs' = EvidenceStored(s, ev, {a}, {})
      BY <1>7 DEF LocateSlice, s
    <3>2. ev \in SUBSET (Slots \X Artifacts) /\ {a} \in SUBSET Artifacts
      BY <2>1
    <3> QED BY <3>1, <3>2 DEF Stores
  <2>3. Dims(rs, rs')
    BY <1>4, <2>1, <2>2 DEF Dims
  <2> QED BY <1>1, <1>7, <2>3, FreshFrame DEF LocateSlice
<1>8. CASE LoadSlice
  <2>1. c.on \in Artifacts
    BY <1>3, <1>8 DEF LoadSlice, IsRetrieval, View, Heavy
  <2> DEFINE a == c.on
  <2>2. Stores(rs', {a})
    <3>1. PICK ev \in SUBSET (Slots \X {a}) : rs' = EvidenceStored(s, ev, {a}, {a})
      BY <1>8 DEF LoadSlice, s
    <3>2. ev \in SUBSET (Slots \X Artifacts) /\ {a} \in SUBSET Artifacts
      BY <2>1
    <3> QED BY <3>1, <3>2 DEF Stores
  <2>3. /\ rs.phase = "terminal" => rs'.phase = "terminal"
        /\ \A x \in Artifacts \ {a} :
             /\ rs'.items[x] = "satisfied" => rs.items[x] = "satisfied"
             /\ rs.items[x] = "stale" => rs'.items[x] = "stale"
    BY <1>4, <2>1, <2>2
  <2>4. anchors' = [anchors EXCEPT ![a] = "fresh"] /\ anchors \in [Artifacts -> {"none", "fresh", "outdated"}]
    BY <1>8 DEF LoadSlice, LoopSound, LoopTypeOK
  <2>5. \A x \in Artifacts : anchors'[x] = IF x = a THEN "fresh" ELSE anchors[x]
    BY <2>4
  <2>6. seen'.missed = seen.missed \ {a}
    BY <1>8 DEF LoadSlice, LoopSound
  <2> HIDE DEF a
  <2> QED BY <2>3, <2>5, <2>6 DEF FreshInv
<1> QED BY <1>5, <1>6, <1>7, <1>8

\* The code of the file that is named leaves the context with the status of its items,
\* and what is held of another file that is written is missed.
LEMMA EditSucceedsFresh ==
  ASSUME LoopSound, FreshInv, EditSucceeds
  PROVE  FreshInv'
<1> DEFINE f == StepFile[Head(calls).on]
           s == ArtifactsInvalidated(rs, HeldOf(f))
           t == EditApplied(s, f)
<1>1. f \in Files
  BY FirstCall DEF EditSucceeds, LoopSound, LoopTypeOK
<1>2. HeldOf(f) \in SUBSET Artifacts
  BY DEF HeldOf
<1>3. Sound(s) /\ s \in RunStates /\ Dims(rs, s)
  <2>1. rs \in RunStates /\ Sound(rs)
    BY DEF LoopSound, Sound, Typed
  <2> DEFINE fs == {FileOf[a] : a \in HeldOf(f)}
  <2>2. (rs.phase = "terminal" => s.phase = "terminal")
        /\ s.items \in {rs.items, MarkStale(rs.items, fs)}
    BY <2>1, ArtifactsInvalidatedEffect DEF Onwards
  <2>3. Sound(s)
    BY <1>2, <2>1, ArtifactsInvalidatedSound
  <2> HIDE DEF s, fs
  <2> QED BY <2>2, <2>3, DimFrame DEF Sound, Typed
<1> HIDE DEF s
<1>4. Sound(t) /\ t \in RunStates /\ Onwards(s, t)
      /\ (t.phase # "terminal" => t.items = MarkStale(s.items, {f}))
  BY <1>1, <1>3, EditAppliedSound, EditEffects DEF Sound, Typed
<1>5. rs' = ValidationPassed(t)
  BY DEF EditSucceeds, s
<1> HIDE DEF t
<1>6. /\ rs'.items = t.items
      /\ t.phase = "terminal" => rs'.phase = "terminal"
      /\ rs.phase = "terminal" => t.phase = "terminal"
  BY <1>3, <1>4, <1>5, EditEffects DEF Onwards, Dims
<1>7. ASSUME rs'.phase # "terminal", NEW a \in Artifacts
      PROVE  /\ rs.phase # "terminal"
             /\ rs'.items[a] = "satisfied" => rs.items[a] = "satisfied" /\ FileOf[a] # f
             /\ rs.items[a] = "stale" => rs'.items[a] = "stale"
  <2>1. rs'.items[a] = MarkStale(s.items, {f})[a] /\ rs.phase # "terminal"
    BY <1>4, <1>6, <1>7
  <2>2. /\ rs'.items[a] = "satisfied" => s.items[a] = "satisfied" /\ FileOf[a] # f
        /\ s.items[a] = "stale" => rs'.items[a] = "stale"
    BY <2>1 DEF MarkStale
  <2> QED BY <1>3, <2>1, <2>2 DEF Dims
<1>8. PICK w \in Windows[Head(calls).on] :
        /\ anchors' = [a \in Artifacts |->
                         IF FileOf[a] = f THEN "none"
                         ELSE IF a \in HeldOf(w) THEN "outdated" ELSE anchors[a]]
        /\ seen' = [seen EXCEPT !.missed = (@ \cup Unmarked(f, w)) \ HeldOf(f)]
  BY DEF EditSucceeds
<1>9. seen'.missed = (seen.missed \cup Unmarked(f, w)) \ HeldOf(f)
  BY <1>8 DEF LoopSound
<1>10. ASSUME rs'.phase # "terminal", NEW a \in Artifacts
       PROVE  /\ rs'.items[a] = "satisfied" => anchors'[a] # "none"
              /\ anchors'[a] = "outdated" => a \in seen'.missed \/ rs'.items[a] = "stale"
  <2> HIDE DEF f
  <2>1. CASE FileOf[a] = f
    BY <1>7, <1>8, <1>10, <2>1
  <2>2. CASE FileOf[a] # f /\ a \in HeldOf(w)
    <3>1. a \in Unmarked(f, w) /\ a \notin HeldOf(f)
      BY <2>2 DEF Unmarked, HeldOf
    <3> QED BY <1>8, <1>9, <2>2, <3>1
  <2>3. CASE FileOf[a] # f /\ a \notin HeldOf(w)
    <3>1. anchors'[a] = anchors[a] /\ a \notin HeldOf(f)
      BY <1>8, <2>3 DEF HeldOf
    <3> QED BY <1>7, <1>9, <1>10, <3>1 DEF FreshInv
  <2> QED BY <2>1, <2>2, <2>3
<1> QED BY <1>10 DEF FreshInv

\* A drained step marks the items of the file it names; what is held of the written file
\* and has none of them is missed.
LEMMA DrainStepFresh ==
  ASSUME LoopSound, FreshInv, DrainStep
  PROVE  FreshInv'
<1> DEFINE f == StepFile[Head(queue)]
           t == EditApplied(rs, f)
<1>1. rs \in RunStates /\ Sound(rs) /\ f \in Files
  <2>1. queue # <<>> /\ queue \in Seq(Steps)
    BY DEF DrainStep, LoopSound, LoopTypeOK
  <2>2. Head(queue) \in Steps
    BY <2>1
  <2> QED BY <2>2 DEF LoopSound, Sound, Typed
<1>2. t \in RunStates /\ Onwards(rs, t)
      /\ (t.phase # "terminal" => t.items = MarkStale(rs.items, {f}))
  BY <1>1, EditAppliedSound, EditEffects DEF Sound, Typed
<1>3. rs' = ValidationPassed(t)
  BY DEF DrainStep
<1> HIDE DEF t
<1>4. /\ rs'.items = t.items
      /\ t.phase = "terminal" => rs'.phase = "terminal"
      /\ rs.phase = "terminal" => t.phase = "terminal"
  BY <1>2, <1>3, EditEffects DEF Onwards
<1>5. PICK w \in Windows[Head(queue)] :
        /\ anchors' = [a \in Artifacts |->
                         IF a \in HeldOf(w) THEN "outdated" ELSE anchors[a]]
        /\ seen' = [seen EXCEPT !.missed = @ \cup Unmarked(f, w)]
  BY DEF DrainStep
<1>6. seen'.missed = seen.missed \cup Unmarked(f, w)
  BY <1>5 DEF LoopSound
<1> HIDE DEF f
<1>7. ASSUME rs'.phase # "terminal", NEW a \in Artifacts
      PROVE  /\ rs'.items[a] = "satisfied" => anchors'[a] # "none"
             /\ anchors'[a] = "outdated" => a \in seen'.missed \/ rs'.items[a] = "stale"
  <2>1. rs.phase # "terminal" /\ rs'.items[a] = MarkStale(rs.items, {f})[a]
    BY <1>2, <1>4, <1>7
  <2>2. /\ rs'.items[a] = "satisfied" => rs.items[a] = "satisfied"
        /\ rs.items[a] = "stale" => rs'.items[a] = "stale"
        /\ FileOf[a] = f /\ rs.items[a] = "satisfied" => rs'.items[a] = "stale"
    BY <2>1 DEF MarkStale
  <2>3. CASE a \in HeldOf(w)
    <3>1. a \in Unmarked(f, w) \/ (FileOf[a] = f /\ rs.items[a] \in {"satisfied", "stale"})
      BY <2>3 DEF Unmarked, HeldOf
    <3> QED BY <1>5, <1>6, <2>2, <2>3, <3>1
  <2>4. CASE a \notin HeldOf(w)
    BY <1>5, <1>6, <2>1, <2>2, <2>4 DEF FreshInv
  <2> QED BY <2>3, <2>4
<1> QED BY <1>7 DEF FreshInv

\* What is called SATISFIED stays in context, and outdated code is STALE or missed.
LEMMA FreshInvStep == LoopSound /\ FreshInv /\ [LoopNext]_vars => FreshInv'
<1> SUFFICES ASSUME LoopSound, FreshInv, [LoopNext]_vars
             PROVE  FreshInv'
  OBVIOUS
<1>1. rs \in RunStates /\ Sound(rs)
      /\ seen \in [grounded : BOOLEAN, refused : BOOLEAN, missed : SUBSET Artifacts]
  BY DEF LoopSound, Sound, Typed
<1>2. CASE NextRequest
  <2>1. PICK mode \in Modes, req \in SUBSET Slots : StartRequest(mode, req)
    BY <1>2 DEF NextRequest
  <2>2. \A a \in Artifacts : rs'.items[a] = "absent" /\ anchors'[a] = "none"
    BY <2>1, StartedRunEffect DEF StartRequest
  <2> QED BY <2>2 DEF FreshInv
<1>3. CASE BeginStep
  BY <1>3, BeginStepFresh
<1>4. CASE ReachMaxSteps \/ LoseResponse \/ TakeResponse \/ Answer
  <2>1. rs' \in {rs, RunFailed(rs), AnswerProposed(rs), UserAsked(rs)}
        /\ UNCHANGED <<anchors, seen>>
    BY <1>4 DEF ReachMaxSteps, LoseResponse, TakeResponse, Answer
  <2>2. Dims(rs, rs')
    BY <1>1, <2>1, EndingPlain, UserAskedEffect DEF Plain, Onwards, Dims
  <2> QED BY <2>1, <2>2, FreshFrame
<1>5. CASE SkipCall \/ RetrieveNothing \/ LoadSlice \/ LocateSlice
  BY <1>5, RetrievalFresh
<1>6. CASE \/ BlockEdit \/ PassPermission \/ RecallDenial \/ RequestApproval
           \/ Approve \/ Deny \/ ApprovalTimeout
  <2>1. rs' \in {rs, PreflightBlocked(rs, TRUE), UserAsked(rs), PermissionGranted(rs),
                 PermissionDenied(rs), PermissionDenied(UserAsked(rs))}
    BY <1>6
    DEF BlockEdit, PassPermission, RecallDenial, RequestApproval, Approve, Deny,
        ApprovalTimeout, Refused
  <2>2. anchors' = anchors /\ seen'.missed = seen.missed
    BY <1>1, <1>6
    DEF BlockEdit, PassPermission, RecallDenial, RequestApproval, Approve, Deny,
        ApprovalTimeout, Refused
  <2>3. CASE Files = {}
    <3>1. calls # <<>> /\ ~IsRetrieval(Head(calls))
      BY <1>6
      DEF BlockEdit, PassPermission, RecallDenial, RequestApproval, AtEdit, Approve,
          Deny, ApprovalTimeout, LoopSound
    <3> QED BY <2>3, <3>1, FirstCall DEF LoopSound, LoopTypeOK
  <2>4. CASE Files # {}
    <3>1. Dims(rs, rs)
      BY DEF Dims
    <3>2. Dims(rs, rs')
      BY <1>1, <2>1, <2>4, <3>1, EditsDim
    <3> QED BY <2>2, <3>2, FreshFrame
  <2> QED BY <2>3, <2>4
<1>7. CASE EditSucceeds
  BY <1>7, EditSucceedsFresh
<1>8. CASE EditFails
  <2> DEFINE f == StepFile[Head(calls).on]
  <2>1. f \in Files
    BY <1>8, FirstCall DEF EditFails, LoopSound, LoopTypeOK
  <2>2. rs' \in {ValidationFailed(EditApplied(rs, f)), ToolFailed(rs, TRUE)}
        /\ UNCHANGED <<anchors, seen>>
    BY <1>8 DEF EditFails
  <2> HIDE DEF f
  <2> QED BY <1>1, <2>1, <2>2, EditsDim, FreshFrame
<1>9. CASE DrainStep
  BY <1>9, DrainStepFresh
<1>10. CASE DrainFails
  <2>1. queue # <<>> /\ queue \in Seq(Steps)
    BY <1>10 DEF DrainFails, LoopSound, LoopTypeOK
  <2>2. Head(queue) \in Steps
    BY <2>1
  <2>3. StepFile[Head(queue)] \in Files
    BY <2>2
  <2>4. Dims(rs, ToolFailed(rs, TRUE)) /\ Dims(rs, rs)
    BY <1>1, <2>3, EditsDim DEF Dims
  <2> QED BY <1>10, <2>4, FreshFrame DEF DrainFails
<1>11. CASE EndCalls \/ EndDrain
  BY <1>11, FreshFrame DEF EndCalls, EndDrain, Dims
<1>12. CASE ObserveTools
  <2>1. Dims(rs, rs')
    BY <1>1, <1>12, ToolRoundObservedPlain DEF ObserveTools, Plain, Onwards, Dims
  <2> QED BY <1>12, <2>1, FreshFrame DEF ObserveTools
<1>13. CASE UNCHANGED vars
  BY <1>13, FreshFrame DEF vars, loopVars, Dims
<1> QED
  BY <1>2, <1>3, <1>4, <1>5, <1>6, <1>7, <1>8, <1>9, <1>10, <1>11, <1>12, <1>13
  DEF LoopNext, LoopStep, UserStep

-----------------------------------------------------------------------------
(* The theorems.                                                           *)

\* The inductive invariant.
LoopInv == LoopSound /\ StopInv /\ GroundInv /\ FreshInv

\* Every reachable state of the loop is sound: the run state is one the reducer
\* can explain, a stopped run stays stopped, an edit run is grounded before it
\* edits, and outdated code in context is STALE but for what an edit could not mark.
THEOREM LoopInvariant == LoopSpec => []LoopInv
<1>1. LoopInit => LoopInv
  <2> SUFFICES ASSUME LoopInit PROVE LoopInv
    OBVIOUS
  <2>1. LoopSound
    BY LoopInitSound
  <2>2. pc = "step" /\ round = NewRound /\ seen = NothingSeen
        /\ \A a \in Artifacts : anchors[a] = "none"
    BY DEF LoopInit
  <2>3. ~Marks(rs) /\ \A a \in Artifacts : rs.items[a] = "absent"
    BY StartedRunEffect DEF LoopInit
  <2> QED
    BY <2>1, <2>2, <2>3
    DEF LoopInv, StopInv, GroundInv, FreshInv, NewRound, NothingSeen
<1>2. LoopInv /\ [LoopNext]_vars => LoopInv'
  BY LoopSoundStep, StopInvStep, GroundInvStep, FreshInvStep DEF LoopInv
<1> QED BY <1>1, <1>2, PTL DEF LoopSpec

\* What holds of the reducer on its own holds in the loop, which also clears a
\* flag of the run state without an event: in particular an edit run succeeds
\* only on a validated edit.
THEOREM LoopKeepsReducer ==
  LoopSpec => [](RunEnds /\ EvidenceAnchored /\ SuccessMeansValidated)
<1>1. LoopInv => RunEnds /\ EvidenceAnchored /\ SuccessMeansValidated
  <2> SUFFICES ASSUME LoopInv
               PROVE  RunEnds /\ EvidenceAnchored /\ SuccessMeansValidated
    OBVIOUS
  <2>1. Sound(rs) /\ rs.failures \in Nat
    BY DEF LoopInv, LoopSound, Sound, Typed, RunStates
  <2> QED
    BY <2>1
    DEF Sound, EndSound, BudgetSound, LedgerSound, ResultSound, RunEnds,
        EvidenceAnchored, SuccessMeansValidated
<1> QED BY <1>1, LoopInvariant, PTL

\* The types of the loop, the limit on bad responses, and that a run that waits
\* is at the approval or has given the turn back.
THEOREM LoopTypeCorrect == LoopSpec => []LoopTypeOK
<1>1. LoopInv => LoopTypeOK
  BY DEF LoopInv, LoopSound
<1> QED BY <1>1, LoopInvariant, PTL

\* In every run of the loop no edit request changes a file before its evidence
\* sufficed once.
THEOREM EditsAreGrounded == LoopSpec => []FirstEditGrounded
<1>1. LoopInv => FirstEditGrounded
  BY DEF LoopInv, GroundInv, FirstEditGrounded, Marks
<1> QED BY <1>1, LoopInvariant, PTL

\* In every run of the loop nothing of a plan runs after a failed edit, and no
\* edit at all after one the user refused.
THEOREM StopsAreFinal == LoopSpec => []NothingAfterStop
<1>1. LoopInv => NothingAfterStop
  BY DEF LoopInv, StopInv, NothingAfterStop
<1> QED BY <1>1, LoopInvariant, PTL

\* In every run of the loop the manifest calls SATISFIED only what is in context
\* as current code, but for slices whose file was written under another name or by a
\* drained step before their first projection.
THEOREM ManifestIsFresh == LoopSpec => []FreshUnlessMissed
<1>1. LoopInv => FreshUnlessMissed
  BY DEF LoopInv, LoopSound, LoopTypeOK, FreshInv, FreshUnlessMissed
<1> QED BY <1>1, LoopInvariant, PTL
=============================================================================
