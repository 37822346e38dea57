----------------------------- MODULE AgentLoop -----------------------------
(***************************************************************************)
(* The agent loop of src/src/agent/state_assembled_loop.py: run, queryLoop, *)
(* _process_tool_calls and _drain_edit_queue, over the reducer (RunState)   *)
(* and the tool gate (ToolGate).  The loop is the only writer of the run    *)
(* state; it dispatches reducer events while it offers tools to the Core    *)
(* model, runs the tool calls of a response in order, and executes the      *)
(* steps of a frozen edit plan without asking the model again.              *)
(*                                                                          *)
(* A tool call is one action with the events the loop dispatches for it.    *)
(* A call waits in between only for the user's approval, which the REPL     *)
(* asks for and other readers of the events never give.  What the model     *)
(* answers, what a tool returns and what the user says are nondeterministic. *)
(*                                                                          *)
(* An edit changes every slice of the file it writes: the Edit model picks  *)
(* the file among those of the windows it is shown, and it need not be the  *)
(* file the call names, for which alone the loop does its book-keeping.  A  *)
(* slice keeps its identity across edits: the manifest finds an item again  *)
(* by file and symbol.  A grep hit is an artifact of its own, a fact that   *)
(* is never in context as verbatim code.                                    *)
(*                                                                          *)
(* Calls of one parallel batch read the state of their start and write it   *)
(* in order after the last has returned; retrieval calls only add, so the   *)
(* model lets each take effect at its place in the order.                   *)
(***************************************************************************)
EXTENDS ToolAdvice, SequencesExt

CONSTANTS
  Hits,                 \* artifacts that are grep hits
  Steps,                \* minor steps of edit plans
  StepFile,             \* the file a step names
  Windows,              \* the files whose code the Edit model is shown for it
  Turns,                \* the responses of the Core model
  MaxProtocolFailures   \* consecutive bad responses the loop tolerates, 3

\* A call names a retrieval tool and a slice, or decision_edit and a step.
Calls ==
  [tool : Grep, on : Hits] \cup [tool : View \cup Heavy, on : Artifacts \ Hits]
  \cup [tool : Edit, on : Steps]

\* checklist: what the response says of the checklist, if anything.
Responses ==
  [calls : Seq(Calls), plan : Seq(Steps),
   checklist : {"keep", "open", "complete"}]

ASSUME AgentLoopAssumption ==
  /\ Hits \subseteq Artifacts
  /\ StepFile \in [Steps -> Files]
  /\ Windows \in [Steps -> SUBSET Files]
  /\ MaxProtocolFailures \in Nat
  /\ Turns \subseteq Responses

VARIABLES
  pc,                \* where the loop is
  tools,             \* _current_step_tools
  calls,             \* tool calls of the response still to process
  queue,             \* edit_queue: the remaining steps of the frozen plan
  card,              \* status of edit_plan_view, the plan card of the Core
  checklist,
  anchors,           \* verbatim code in context, "outdated" when edited since
  round,             \* what _process_tool_calls collects over one response
  approval,          \* remembered decision of the user on decision_edit
  consumer,          \* who reads the events: the REPL, or a program that never
                     \* answers (run_turn, a script around run)
  protocolFailures,
  seen               \* history: what the properties say of the past

loopVars ==
  <<pc, tools, calls, queue, card, checklist, anchors, round, approval,
    consumer, protocolFailures, seen>>
vars == <<rs, loopVars>>

\* What the session remembers of an action that is asked for once.
Decisions == {"none", "approved", "denied"}

\* ok, halted: last_decision_edit_ok and edit_queue_halted.
NewRound ==
  [attempted |-> FALSE, views |-> {}, suggested |-> "none", edited |-> FALSE,
   ok |-> FALSE, halted |-> FALSE]

\* grounded: the evidence sufficed at some step of the run; refused: the user
\* refused an edit, or did not answer in time; missed: slices in context that an
\* edit made outdated and could not mark.
NothingSeen == [grounded |-> FALSE, refused |-> FALSE, missed |-> {}]

-----------------------------------------------------------------------------
(* One request.  A request starts with an empty context; what the user     *)
(* approved in the session is remembered.                                  *)

StartRequest(mode, req) ==
  /\ rs' = StartedRun(mode, req)
  /\ pc' = "step"
  /\ tools' = AllTools
  /\ calls' = <<>>
  /\ queue' = <<>>
  /\ card' = "empty"
  /\ checklist' = "none"
  /\ anchors' = [a \in Artifacts |-> "none"]
  /\ round' = NewRound
  /\ protocolFailures' = 0
  /\ seen' = NothingSeen

LoopInit ==
  /\ \E mode \in Modes, req \in SUBSET Slots : rs = StartedRun(mode, req)
  /\ pc = "step"
  /\ tools = AllTools
  /\ calls = <<>>
  /\ queue = <<>>
  /\ card = "empty"
  /\ checklist = "none"
  /\ anchors = [a \in Artifacts |-> "none"]
  /\ round = NewRound
  /\ approval \in Decisions
  /\ consumer \in {"repl", "headless"}
  /\ protocolFailures = 0
  /\ seen = NothingSeen

NextRequest ==
  /\ pc = "done"
  /\ \E mode \in Modes, req \in SUBSET Slots : StartRequest(mode, req)
  /\ UNCHANGED <<approval, consumer>>

-----------------------------------------------------------------------------
(* A step: make room, project the manifest, choose the tools, ask the Core. *)

HotFiles(s) ==
  ActiveFiles(s) \cup (IF card = "draining" THEN {StepFile[Head(queue)]} ELSE {})

\* Mutation of BeginStep: the manifest is projected before the room is made.
BeginStepProjectedFirst ==
  /\ pc = "step"
  /\ rs.step < MaxSteps
  /\ LET s == StepStarted(rs)
         t == ManifestProjected(s, {a \in Artifacts : anchors[a] # "none"})
         cold == {a \in Artifacts : FileOf[a] \notin HotFiles(s)}
     IN /\ \E demoted \in SUBSET {a \in cold : anchors[a] # "none"} :
             anchors' = [a \in Artifacts |->
                           IF a \in demoted THEN "none" ELSE anchors[a]]
        /\ rs' = t
        /\ tools' = AllowedTools(t, checklist)
        /\ seen' = [seen EXCEPT !.grounded = @ \/ Sufficient(t),
                                !.missed = {a \in @ : anchors'[a] # "none"}]
  /\ pc' = "llm"
  /\ UNCHANGED <<calls, queue, card, checklist, round, approval, consumer,
                 protocolFailures>>

\* Anchors of files that are not hot become locators, by age or to fit the
\* context budget: any of them may go.
BeginStep ==
  /\ pc = "step"
  /\ rs.step < MaxSteps
  /\ LET s == StepStarted(rs)
         cold == {a \in Artifacts : FileOf[a] \notin HotFiles(s)}
     IN \E demoted \in SUBSET {a \in cold : anchors[a] # "none"} :
          LET kept == [a \in Artifacts |->
                         IF a \in demoted THEN "none" ELSE anchors[a]]
              t == ManifestProjected(s, {a \in Artifacts : kept[a] # "none"})
          IN /\ anchors' = kept
             /\ rs' = t
             /\ tools' = AllowedTools(t, checklist)
             /\ seen' = [seen EXCEPT !.grounded = @ \/ Sufficient(t),
                                     !.missed = @ \ demoted]
  /\ pc' = "llm"
  /\ UNCHANGED <<calls, queue, card, checklist, round, approval, consumer,
                 protocolFailures>>

ReachMaxSteps ==
  /\ pc = "step"
  /\ rs.step >= MaxSteps
  /\ rs' = RunFailed(rs)
  /\ pc' = "done"
  /\ UNCHANGED <<tools, calls, queue, card, checklist, anchors, round,
                 approval, consumer, protocolFailures, seen>>

\* Mutation of LoseResponse: bad responses do not end the request.
LoseResponseAgain ==
  /\ pc = "llm"
  /\ protocolFailures' = protocolFailures + 1
  /\ pc' = "step"
  /\ UNCHANGED <<rs, tools, calls, queue, card, checklist, anchors, round,
                 approval, consumer, seen>>

\* An error, no response, or a tool call written as text.
LoseResponse ==
  /\ pc = "llm"
  /\ protocolFailures' = protocolFailures + 1
  /\ IF protocolFailures + 1 > MaxProtocolFailures
     THEN rs' = RunFailed(rs) /\ pc' = "done"
     ELSE UNCHANGED rs /\ pc' = "step"
  /\ UNCHANGED <<tools, calls, queue, card, checklist, anchors, round,
                 approval, consumer, seen>>

-----------------------------------------------------------------------------
(* The response.                                                           *)

IsRetrieval(c) == c.tool # "decision_edit"

\* Each in-turn decision_edit call takes its step out of the new plan.
Residual(plan, cs) ==
  LET left[n \in 0 .. Len(cs)] ==
        IF n = 0 THEN plan
        ELSE IF IsRetrieval(cs[n]) THEN left[n - 1]
        ELSE RemoveFirst(left[n - 1], cs[n].on)
  IN  left[Len(cs)]

\* sync_edit_queue_from_core_turn: a response without a plan keeps the
\* unfinished one as it is.
SyncedQueue(previous, t) ==
  IF t.plan = <<>> THEN previous ELSE Residual(t.plan, t.calls)

\* A halted card stays until a new plan.  A plan that was being drained is
\* complete or empty according to the completed steps its card lists.
SyncedCards(q) ==
  IF q # <<>> THEN {"draining"}
  ELSE IF card = "draining" THEN {"complete", "empty"}
  ELSE {card}

\* tool_requested changes nothing and its effect is not used.
TakeResponse ==
  /\ pc = "llm"
  /\ \E t \in Turns :
       /\ queue' = SyncedQueue(queue, t)
       /\ card' \in SyncedCards(queue')
       /\ checklist' = IF t.checklist = "keep" THEN checklist ELSE t.checklist
       /\ calls' = t.calls
       /\ pc' = IF t.calls # <<>> THEN "call"
                ELSE IF queue' # <<>> /\ "decision_edit" \in tools
                     THEN "drain_plan"
                ELSE "answer"
  /\ protocolFailures' = 0
  /\ round' = NewRound
  /\ UNCHANGED <<rs, tools, anchors, approval, consumer, seen>>

\* A response without tool calls ends the request, accepted or not; a
\* question to the user leaves the run waiting.
Answer ==
  /\ pc = "answer"
  /\ rs' \in {AnswerProposed(rs), UserAsked(rs)}
  /\ pc' = "done"
  /\ UNCHANGED <<tools, calls, queue, card, checklist, anchors, round,
                 approval, consumer, protocolFailures, seen>>

-----------------------------------------------------------------------------
(* Tool calls, in the order of the response.                               *)

\* _post_process_tool_result: a grep or view that succeeds clears the flag of
\* a failed patch in the run state itself, without an event.
Retrieved(s, c) ==
  IF c.tool \in Primary THEN [s EXCEPT !.patchFailed = FALSE] ELSE s

\* view: how the call counts in view_round_all_duplicate, if it does.
Attempted(c, view) ==
  [round EXCEPT
     !.attempted = @ \/ IsRetrieval(c),
     !.views = IF c.tool = "view_symbol_code" THEN @ \cup view ELSE @]

\* The tool is not offered in this step: the call is answered with an error,
\* which a parallel batch also counts as a result of the round.
SkipCall ==
  /\ pc = "call" /\ calls # <<>>
  /\ Head(calls).tool \notin tools
  /\ \E view \in {{}, {"other"}} : round' = Attempted(Head(calls), view)
  /\ calls' = Tail(calls)
  /\ UNCHANGED <<rs, pc, tools, queue, card, checklist, anchors, approval,
                 consumer, protocolFailures, seen>>

\* A retrieval call that brings nothing new: blocked by the fact lock or the
\* novelty check, an error, an empty result, or a replay of code already in
\* context.  A replay still stores an event, with candidates only.
RetrieveNothing ==
  /\ pc = "call" /\ calls # <<>>
  /\ IsRetrieval(Head(calls)) /\ Head(calls).tool \in tools
  /\ LET s == Retrieved(rs, Head(calls))
     IN rs' \in {rs, s, EvidenceStored(s, {}, {}, {})}
  /\ \E view \in {{}, {"duplicate"}, {"other"}} :
       round' = Attempted(Head(calls), view)
  /\ calls' = Tail(calls)
  /\ UNCHANGED <<pc, tools, queue, card, checklist, anchors, approval,
                 consumer, protocolFailures, seen>>

\* A view or a semantic retrieval loads the slice, unless the same version
\* is in context: then it is a replay.
LoadSlice ==
  /\ pc = "call" /\ calls # <<>>
  /\ LET c == Head(calls) IN
       /\ c.tool \in tools \cap (View \cup Heavy)
       /\ anchors[c.on] # "fresh"
       /\ \E ev \in SUBSET (Slots \X {c.on}) :
            rs' = EvidenceStored(Retrieved(rs, c), ev, {c.on}, {c.on})
       /\ anchors' = [anchors EXCEPT ![c.on] = "fresh"]
       /\ seen' = [seen EXCEPT !.missed = @ \ {c.on}]
       /\ round' = Attempted(c, {"other"})
  /\ calls' = Tail(calls)
  /\ UNCHANGED <<pc, tools, queue, card, checklist, approval, consumer,
                 protocolFailures>>

\* A grep stores the matching lines as facts: they may ground slots, and are
\* no observation.
LocateSlice ==
  /\ pc = "call" /\ calls # <<>>
  /\ LET c == Head(calls) IN
       /\ c.tool \in tools \cap Grep
       /\ \E ev \in SUBSET (Slots \X {c.on}) :
            rs' = EvidenceStored(Retrieved(rs, c), ev, {c.on}, {})
       /\ \E views \in {"trivial", "actionable"} :
            round' = [Attempted(c, {}) EXCEPT !.suggested =
                        IF @ = "actionable" THEN @ ELSE views]
  /\ calls' = Tail(calls)
  /\ UNCHANGED <<pc, tools, queue, card, checklist, anchors, approval, consumer,
                 protocolFailures, seen>>

-----------------------------------------------------------------------------
(* An edit call: preflight, permission, execution.                         *)

AtEdit ==
  /\ pc = "call" /\ calls # <<>>
  /\ ~IsRetrieval(Head(calls))
  /\ "decision_edit" \in tools

BlockEdit ==
  /\ AtEdit
  /\ rs' = PreflightBlocked(rs, TRUE)
  /\ calls' = Tail(calls)
  /\ UNCHANGED <<pc, tools, queue, card, checklist, anchors, round, approval,
                 consumer, protocolFailures, seen>>

PassPermission ==
  /\ AtEdit
  /\ approval = "approved"
  /\ pc' = "edit"
  /\ UNCHANGED <<rs, tools, calls, queue, card, checklist, anchors, round,
                 approval, consumer, protocolFailures, seen>>

\* Mutation of Refused: the run goes on with the next step.
RefusedResuming(s) ==
  /\ rs' = PermissionGranted(s)
  /\ calls' = <<>>
  /\ pc' = "call"
  /\ seen' = [seen EXCEPT !.refused = TRUE]

\* No approval: the run ends and the other calls of the response are dropped.
Refused(s) ==
  /\ rs' = PermissionDenied(s)
  /\ calls' = <<>>
  /\ pc' = "call"
  /\ seen' = [seen EXCEPT !.refused = TRUE]

RecallDenial ==
  /\ AtEdit
  /\ approval = "denied"
  /\ Refused(UserAsked(rs))
  /\ UNCHANGED <<tools, queue, card, checklist, anchors, round, approval,
                 consumer, protocolFailures>>

RequestApproval ==
  /\ AtEdit
  /\ approval = "none"
  /\ rs' = UserAsked(rs)
  /\ pc' = "approve"
  /\ UNCHANGED <<tools, calls, queue, card, checklist, anchors, round,
                 approval, consumer, protocolFailures, seen>>

\* The REPL asks between two events of the loop, which is suspended meanwhile:
\* resolve_approval has recorded the decision and completed the future when the
\* wait of 300 seconds begins.
Approve ==
  /\ pc = "approve" /\ consumer = "repl"
  /\ approval' = "approved"
  /\ rs' = PermissionGranted(rs)
  /\ pc' = "edit"
  /\ UNCHANGED <<tools, calls, queue, card, checklist, anchors, round,
                 consumer, protocolFailures, seen>>

Deny ==
  /\ pc = "approve" /\ consumer = "repl"
  /\ approval' = "denied"
  /\ Refused(rs)
  /\ UNCHANGED <<tools, queue, card, checklist, anchors, round, consumer,
                 protocolFailures>>

\* No answer within 300 seconds: a refusal that is not remembered.
ApprovalTimeout ==
  /\ pc = "approve" /\ consumer = "headless"
  /\ Refused(rs)
  /\ UNCHANGED <<tools, queue, card, checklist, anchors, round, approval,
                 consumer, protocolFailures>>

-----------------------------------------------------------------------------
(* Execution of an edit call.                                              *)

HeldOf(f) == {a \in Artifacts : FileOf[a] = f /\ anchors[a] # "none"}

\* What is held of the written file and is not marked STALE: the call names
\* another file, or the item of the slice waits for the next projection.
Unmarked(named, written) ==
  {a \in HeldOf(written) :
     named # written \/ rs.items[a] \notin {"satisfied", "stale"}}

\* The anchors of the file that is named leave the context before the edit is
\* recorded.  A successful edit writes a new card, from the plan when one is left.
EditSucceeds ==
  /\ pc = "edit"
  /\ LET named == StepFile[Head(calls).on]
     IN /\ rs' = ValidationPassed(
                   EditApplied(ArtifactsInvalidated(rs, HeldOf(named)), named))
        /\ \E written \in Windows[Head(calls).on] :
             /\ anchors' = [a \in Artifacts |->
                              IF FileOf[a] = named THEN "none"
                              ELSE IF a \in HeldOf(written) THEN "outdated"
                              ELSE anchors[a]]
             /\ seen' = [seen EXCEPT !.missed =
                            (@ \cup Unmarked(named, written)) \ HeldOf(named)]
        /\ \E changed \in BOOLEAN :
             round' = [round EXCEPT !.edited = @ \/ changed, !.ok = TRUE]
  /\ card' = IF queue # <<>> THEN "draining" ELSE "complete"
  /\ calls' = Tail(calls)
  /\ pc' = "call"
  /\ UNCHANGED <<tools, queue, checklist, approval, consumer, protocolFailures>>

\* Mutation of EditFails: the rest of the plan stays frozen.
EditFailsKeepingPlan ==
  /\ pc = "edit"
  /\ rs' = ToolFailed(rs, TRUE)
  /\ card' = "halted"
  /\ round' = [round EXCEPT !.ok = FALSE, !.halted = TRUE]
  /\ calls' = Tail(calls)
  /\ pc' = "call"
  /\ UNCHANGED <<tools, queue, checklist, anchors, approval, consumer,
                 protocolFailures, seen>>

\* A failed edit halts the plan: its steps go back to the Core.  The file was
\* rolled back, but a failed validation still counts it as edited.
EditFails ==
  /\ pc = "edit"
  /\ rs' \in {ValidationFailed(EditApplied(rs, StepFile[Head(calls).on])),
              ToolFailed(rs, TRUE)}
  /\ queue' = <<>>
  /\ card' = "halted"
  /\ round' = [round EXCEPT !.ok = FALSE, !.halted = TRUE]
  /\ calls' = Tail(calls)
  /\ pc' = "call"
  /\ UNCHANGED <<tools, checklist, anchors, approval, consumer,
                 protocolFailures, seen>>

\* The plan is drained only when the last edit of the response succeeded.
EndCalls ==
  /\ pc = "call" /\ calls = <<>>
  /\ pc' = IF round.ok /\ ~round.halted /\ queue # <<>>
           THEN "drain" ELSE "observe"
  /\ UNCHANGED <<rs, tools, calls, queue, card, checklist, anchors, round,
                 approval, consumer, protocolFailures, seen>>

-----------------------------------------------------------------------------
(* Draining the plan: decision_edit on each step, with no preflight and no *)
(* permission.                                                             *)

Draining == pc \in {"drain", "drain_plan"}

\* The code that is already in context stays there.
DrainStep ==
  /\ Draining /\ queue # <<>>
  /\ LET named == StepFile[Head(queue)] IN
       /\ rs' = ValidationPassed(EditApplied(rs, named))
       /\ \E written \in Windows[Head(queue)] :
            /\ anchors' = [a \in Artifacts |->
                             IF a \in HeldOf(written) THEN "outdated" ELSE anchors[a]]
            /\ seen' = [seen EXCEPT !.missed = @ \cup Unmarked(named, written)]
  /\ queue' = Tail(queue)
  /\ card' = IF Tail(queue) = <<>> THEN "complete" ELSE "draining"
  /\ UNCHANGED <<pc, tools, calls, checklist, round, approval, consumer,
                 protocolFailures>>

\* An invalid step, or a failure of the edit, whatever its cause.
DrainFails ==
  /\ Draining /\ queue # <<>>
  /\ rs' \in {rs, ToolFailed(rs, TRUE)}
  /\ queue' = <<>>
  /\ card' = "halted"
  /\ UNCHANGED <<pc, tools, calls, checklist, anchors, round, approval,
                 consumer, protocolFailures, seen>>

\* After a step the loop goes on unless the run is over.
Onward(s) == IF s.phase = "terminal" THEN "done" ELSE "step"

EndDrain ==
  /\ Draining /\ queue = <<>>
  /\ pc' = IF pc = "drain" THEN "observe" ELSE Onward(rs)
  /\ UNCHANGED <<rs, tools, calls, queue, card, checklist, anchors, round,
                 approval, consumer, protocolFailures, seen>>

ObserveTools ==
  /\ pc = "observe"
  /\ rs' = ToolRoundObserved(rs,
             [attempted |-> round.attempted,
              viewDup |-> round.views = {"duplicate"},
              suggested |-> round.suggested, edited |-> round.edited])
  /\ pc' = Onward(rs')
  /\ UNCHANGED <<tools, calls, queue, card, checklist, anchors, round,
                 approval, consumer, protocolFailures, seen>>

-----------------------------------------------------------------------------

\* The steps the event loop takes by itself, the 300 second timer included.
LoopStep ==
  \/ BeginStep
  \/ ReachMaxSteps
  \/ LoseResponse
  \/ TakeResponse
  \/ Answer
  \/ SkipCall
  \/ RetrieveNothing
  \/ LoadSlice
  \/ LocateSlice
  \/ BlockEdit
  \/ PassPermission
  \/ RecallDenial
  \/ RequestApproval
  \/ ApprovalTimeout
  \/ EditSucceeds
  \/ EditFails
  \/ EndCalls
  \/ DrainStep
  \/ DrainFails
  \/ EndDrain
  \/ ObserveTools

UserStep == Approve \/ Deny \/ NextRequest

LoopNext == LoopStep \/ UserStep

LoopSpec == LoopInit /\ [][LoopNext]_vars /\ WF_vars(LoopStep)

-----------------------------------------------------------------------------

(* Properties that hold.                                                   *)

\* Type invariant.  The consecutive bad responses stay within the limit, and a
\* run in the phase waiting_user really waits: the loop is at the approval or has
\* given the turn back to the user, and the phase to resume is one in which the
\* run can go on.
LoopTypeOK ==
  /\ rs \in RunStates
  /\ pc \in {"step", "llm", "call", "approve", "edit", "drain", "drain_plan",
             "observe", "answer", "done"}
  /\ tools \subseteq AllTools
  /\ calls \in Seq(Calls)
  /\ queue \in Seq(Steps)
  /\ card \in {"empty", "draining", "halted", "complete"}
  /\ checklist \in Checklists
  /\ anchors \in [Artifacts -> {"none", "fresh", "outdated"}]
  /\ approval \in Decisions
  /\ consumer \in {"repl", "headless"}
  /\ protocolFailures \in 0 .. MaxProtocolFailures + 1
  /\ rs.phase = "waiting_user" =>
       rs.waiting \notin {"none", "waiting_user", "terminal"} /\ pc \in {"approve", "done"}

\* The manifest and the context agree, through retrievals, edits, drained steps,
\* demotions and projections: an item the manifest calls SATISFIED has current
\* verbatim code in context - but for a slice that was in context when its file was
\* written by a call or a step that named another file, or by a drained step before
\* the item of the slice was first projected.
FreshUnlessMissed ==
  rs.phase # "terminal" =>
    \A a \in Artifacts \ seen.missed :
      rs.items[a] = "satisfied" => anchors[a] = "fresh"

\* No edit request changes a file before its evidence sufficed once: the gate
\* opens decision_edit without evidence only through recovery, and recovery
\* starts from an edit.
FirstEditGrounded == rs.mode = "edit" /\ rs.files # {} => seen.grounded

\* After a failed edit no step of the old plan runs: the plan went back to the
\* Core, even when a later edit of the same response succeeds.  After an edit the
\* user refused, or did not answer in time, the request runs no other edit: not
\* the next call of the response, not the plan.
NothingAfterStop ==
  /\ round.halted => queue = <<>> /\ pc # "drain"
  /\ seen.refused => pc \notin {"edit", "drain", "drain_plan"}

\* What execution_card is told in a step.  The request that states a finished
\* diagnosis has no card.
HasCard == pc = "llm" /\ ~(rs.mode = "diagnose" /\ rs.phase = "responding")

CardInput(open) ==
  [s |-> rs, tools |-> tools, checklist |-> checklist, plan |-> card,
   views |-> open.views, pending |-> open.pending, grepError |-> open.grepError,
   viewError |-> open.viewError, hints |-> rs.required # {}]

\* What the Core is told fits what it is offered, whatever the run state leaves
\* open of the card:
\*  - a tool the card tells it to use is offered, unless the views of the last
\*    round were all repetitions, or three rounds passed since an edit (then the
\*    card announces verification and only decision_edit is left);
\*  - while an edit that did not fail is verified and reading still brings
\*    something, the ranking starts with a reading, not with decision_edit;
\*  - a new plan is asked for only when no step of a plan is queued.
AdviceFits ==
  HasCard =>
    \A open \in [{"views", "pending", "grepError", "viewError"} -> BOOLEAN] :
      LET c == CardInput(open)
          k == ScoringContext(rs, checklist, open.pending)
      IN  /\ ~rs.viewDup /\ rs.sinceEdit < 3 =>
               \A line \in Card(c) : UrgedBy(line) \cap tools # {}
          /\ /\ k.verifying /\ ~k.failures /\ ~k.viewDup
             /\ rs.noGain < 2 /\ rs.sinceEdit < 3
             => Preferred(k, tools) \subseteq Primary
          /\ "plan_contract" \in Card(c) => queue = <<>>

\* Every step of a request leads to its end or to a question to the user of the
\* REPL, whatever the Core answers: steps and bad responses are bounded, and where
\* nobody answers the 300 seconds end the wait.
RequestEnds ==
  pc = "step" ~> \/ pc = "done"
                 \/ pc = "approve" /\ consumer = "repl"

=============================================================================
