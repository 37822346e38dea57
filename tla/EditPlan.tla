------------------------------ MODULE EditPlan ------------------------------
(***************************************************************************)
(* What becomes of the work the Core asks for: src/src/agent/edit_plan.py,  *)
(* the splitting of calls in edit_brief.py, and the places of               *)
(* state_assembled_loop.py that freeze, drain and halt the plan.            *)
(*                                                                          *)
(* A response asks for work in decision_edit calls and in an edit_plan.  A  *)
(* call that packs too much is split: its first step runs as the call, the  *)
(* others join the frozen plan.  The plan is drained after a successful     *)
(* edit; a failure empties it and leaves a card that tells the Core what    *)
(* did not run.                                                             *)
(*                                                                          *)
(* AgentLoop models when an edit may run; here only the contents of queue   *)
(* and card matter, so any call may be refused and any edit may fail.       *)
(***************************************************************************)
EXTENDS Naturals, FiniteSets, SequencesExt, Selections

CONSTANTS
  Work,        \* the single changes the Core asks for
  Keys,        \* _norm_step_key: target file and intent
  PartKey,     \* the file and intent of the step that a split makes of a change
  Turns,       \* the responses of the Core
  MaxTurns,    \* max_turns
  SplitAt,     \* 3 focus symbols are split into steps
  MaxFocus,    \* MAX_FOCUS_SYMBOLS_PER_STEP, 3
  SplitMax,    \* focus[:8], the symbols a call is split by
  FollowMax,   \* followons[:3], the clauses that follow the first
  CardMax      \* _MAX_REMAINING_IN_CARD, 6

\* A call, or an item of a plan.  With several focus symbols the work is one change
\* for each symbol, with one symbol it is the clauses of the intent.  heavy:
\* intent_needs_split; shown: it has a context_window; named: it has a target file
\* and an intent.
Steps ==
  {s \in [key : Keys, work : Seq(Work), symbols : Nat, heavy : BOOLEAN,
          shown : BOOLEAN, named : BOOLEAN] :
     /\ s.work # <<>>
     /\ s.symbols > 1 => Len(s.work) = s.symbols}

ASSUME EditPlanAssumption ==
  /\ {SplitAt, MaxFocus, SplitMax, FollowMax, CardMax, MaxTurns} \subseteq Nat
  /\ SplitAt > 1 /\ SplitMax > 0
  /\ PartKey \in [Work -> Keys]
  /\ Turns \subseteq [calls : Seq(Steps), plan : Seq(Steps)]

VARIABLES
  stage,       \* where the loop is
  turn,     \* responses taken
  calls,    \* calls of the response still to process
  queue,    \* EditPlanQueue: the steps and the cursor
  card,     \* EditPlanView: its status, the work it names, completed lines
  round,    \* last_decision_edit_ok, edit_queue_halted; the response had a plan
  open,     \* history: work asked for, not done nor reported as not done
  again,    \* history: work done that was not open
  causes    \* history: ways in which work was dropped or asked for twice

planVars == <<stage, turn, calls, queue, card, round, open, again, causes>>

WorkOf(steps) == UNION {ToSet(steps[i].work) : i \in DOMAIN steps}

-----------------------------------------------------------------------------
(* Splitting a call: expand_decision_edit_to_steps.                         *)

NeedsSplit(c) == c.heavy \/ c.symbols >= SplitAt

\* The intent of a step is the reason of its window, or made from the symbol and the
\* intent, or a clause of the intent.
Part(c, w) ==
  [c EXCEPT !.key = PartKey[w], !.work = <<w>>, !.symbols = IF @ > 1 THEN 1 ELSE @]
First(c, n)  == [i \in 1 .. (IF Len(c.work) < n THEN Len(c.work) ELSE n) |->
                   Part(c, c.work[i])]

\* Mutation of BySymbols: the first symbol is taken twice.
BySymbolsShifted(c) ==
  [i \in 1 .. Len(c.work) |-> Part(c, c.work[IF i = 1 THEN 1 ELSE i - 1])]

\* One step for each focus symbol.
BySymbols(c) == First(c, SplitMax)

\* One step for each clause of the intent.
ByClauses(c) == First(c, FollowMax + 1)

Expanded(c) ==
  CASE NeedsSplit(c) /\ c.symbols > 1                       -> BySymbols(c)
    [] NeedsSplit(c) /\ c.symbols <= 1 /\ Len(c.work) > 1   -> ByClauses(c)
    [] OTHER                                                -> <<c>>

\* The step that runs as the call, and derive_edit_queue_followons.
FirstStep(c) == Head(Expanded(c))
Followons(cs) == FlattenSeq([i \in DOMAIN cs |-> Tail(Expanded(cs[i]))])

-----------------------------------------------------------------------------
(* Freezing the plan: sync_edit_queue_from_core_turn.                       *)

Remaining(q) == SubSeq(q.steps, q.cursor + 1, Len(q.steps))
Drained(q) == q.cursor >= Len(q.steps)
Fresh(steps) == [steps |-> steps, cursor |-> 0]

\* An item is left out for a call with its file and intent, one item for each call.
LeftOut(plan, cs, i) ==
  Cardinality({j \in 1 .. i - 1 : plan[j].key = plan[i].key})
    < Cardinality({j \in DOMAIN cs : cs[j].key = plan[i].key})

\* What is kept of the plan.  An item without file or intent is not a step.
Residual(plan, cs) ==
  LET places == Only([i \in DOMAIN plan |-> i],
                     {i \in DOMAIN plan : plan[i].named /\ ~LeftOut(plan, cs, i)})
  IN  [n \in DOMAIN places |-> plan[places[n]]]

\* minors: the plan of the response, or the steps of its split calls.
Minors(t) == IF t.plan # <<>> THEN t.plan ELSE Followons(t.calls)

Frozen(previous, t) ==
  IF Minors(t) # <<>> THEN Fresh(Residual(Minors(t), t.calls))
  ELSE IF Drained(previous) THEN Fresh(<<>>) ELSE previous

-----------------------------------------------------------------------------
(* The card of the Core: edit_plan_view_from_queue, edit_plan_view_halt.    *)

FirstOf(steps, n) == SubSeq(steps, 1, IF Len(steps) < n THEN Len(steps) ELSE n)

NoCard == [status |-> "empty", names |-> {}, completed |-> FALSE]

\* The current step and those that come up.
QueueCard(q, completed) ==
  IF Drained(q)
  THEN [status |-> IF q.steps = <<>> THEN "empty" ELSE "complete",
        names |-> {}, completed |-> completed]
  ELSE [status |-> "draining",
        names |-> WorkOf(FirstOf(Remaining(q), CardMax + 1)),
        completed |-> completed]

\* Mutation of HaltCard: the steps left are not listed.
HaltCardBare(failed, rest) ==
  [status |-> "halted", names |-> ToSet(failed.work), completed |-> card.completed]

\* The failed step and the first of the steps left.
HaltCard(failed, rest) ==
  [status    |-> "halted",
   names     |-> ToSet(failed.work) \cup WorkOf(FirstOf(rest, CardMax)),
   completed |-> card.completed]

\* The card after a response, from the new queue and the previous card.
SyncedCard(q) ==
  CASE ~Drained(q) ->
         QueueCard(q, card.completed /\ card.status = "draining" /\ q.cursor > 0)
    [] Drained(q) /\ card.status = "halted" -> card
    [] OTHER -> [status |-> IF card.completed THEN "complete" ELSE "empty",
                 names |-> {}, completed |-> card.completed]

\* What the Core is told did not run.
Reported == IF card.status = "halted" THEN card.names ELSE {}

-----------------------------------------------------------------------------

PlanInit ==
  /\ stage = "core"
  /\ turn = 0
  /\ calls = <<>>
  /\ queue = Fresh(<<>>)
  /\ card = NoCard
  /\ round = [ok |-> FALSE, halted |-> FALSE, planned |-> FALSE]
  /\ open = {}
  /\ again = {}
  /\ causes = {}

\* Entries of a response: its calls, and the items of its plan.
Entries(t) == t.calls \o t.plan

\* A call of the response, or another entry, asks for work of this entry, and
\* not as one file and intent; or a call that is split lists one change twice.
NamedTwice(t) ==
  \/ \E call \in ToSet(t.calls) : NeedsSplit(call) /\ ~IsInjective(call.work)
  \/ \E i, j \in DOMAIN Entries(t) :
       /\ i < j
       /\ ToSet(Entries(t)[i].work) \cap ToSet(Entries(t)[j].work) # {}
       /\ \/ j <= Len(t.calls) \/ i > Len(t.calls)
          \/ Entries(t)[i].key # Entries(t)[j].key

\* What a response drops, or asks for a second time.
CausesOf(t) ==
     (IF \E c \in ToSet(t.calls) : WorkOf(Expanded(c)) # ToSet(c.work)
      THEN {"call_truncated"} ELSE {})
  \cup (IF t.plan # <<>> /\ Followons(t.calls) # <<>>
        THEN {"split_beside_plan"} ELSE {})
  \cup (IF t.plan = <<>> /\ Followons(t.calls) # <<>> /\ ~Drained(queue)
        THEN {"plan_displaced"} ELSE {})
  \cup (IF \E s \in ToSet(Minors(t)) : ~s.named THEN {"item_unnamed"} ELSE {})
  \cup (IF \E c \in ToSet(t.calls), s \in ToSet(t.plan) :
             c.key = s.key /\ c.work # s.work
        THEN {"same_intent"} ELSE {})
  \cup (IF t.plan = <<>> /\ \E c \in ToSet(t.calls), s \in ToSet(Followons(t.calls)) :
                               c.key = s.key /\ c.work # s.work
        THEN {"step_consumed"} ELSE {})
  \cup (IF \/ NamedTwice(t)
           \/ t.plan = <<>> /\ WorkOf(t.calls) \cap WorkOf(Remaining(queue)) # {}
        THEN {"asked_twice"} ELSE {})

\* A new plan withdraws the steps of the old one, and the Core has read the card.
\* offered: decision_edit is among the tools of the step.
TakeResponse ==
  /\ stage = "core"
  /\ turn < MaxTurns
  /\ turn' = turn + 1
  /\ \E t \in Turns, offered \in BOOLEAN :
       /\ queue' = Frozen(queue, t)
       /\ card' = SyncedCard(queue')
       /\ calls' = t.calls
       /\ open' = (open \ (Reported \cup (IF t.plan = <<>> THEN {}
                                          ELSE WorkOf(Remaining(queue)))))
                  \cup WorkOf(Entries(t))
       /\ stage' = IF t.calls # <<>> THEN "call"
                ELSE IF ~Drained(queue') /\ offered THEN "drain"
                ELSE "answered"
       /\ causes' = causes \cup CausesOf(t)
                    \cup (IF t.calls = <<>> /\ ~Drained(queue') /\ ~offered
                          THEN {"answered"} ELSE {})
       /\ round' = [ok |-> FALSE, halted |-> FALSE, planned |-> t.plan # <<>>]
  /\ UNCHANGED again

ReachMaxTurns ==
  /\ stage = "core"
  /\ turn = MaxTurns
  /\ stage' = "failed"
  /\ UNCHANGED <<turn, calls, queue, card, round, open, again, causes>>

-----------------------------------------------------------------------------
(* The calls of the response.                                               *)

\* The work of a step that has run.
Ran(s) ==
  /\ open' = open \ ToSet(s.work)
  /\ again' = again \cup (ToSet(s.work) \ open)

\* The card that a call replaces still tells of a halt in the same response.
LosesCard == IF card.status = "halted" /\ round.halted THEN {"card_replaced"} ELSE {}

\* The gate does not offer the tool, or the preflight refuses the call: the answer
\* to the call says so.
RefuseCall ==
  /\ stage = "call" /\ calls # <<>>
  /\ open' = open \ ToSet(FirstStep(Head(calls)).work)
  /\ calls' = Tail(calls)
  /\ UNCHANGED <<stage, turn, queue, card, round, again, causes>>

\* What the preflight asks of the prepared arguments.
Admissible(s) == s.symbols > 0 /\ s.symbols <= SplitMax /\ s.shown /\ s.named

CallSucceeds ==
  /\ stage = "call" /\ calls # <<>>
  /\ LET s == FirstStep(Head(calls)) IN Admissible(s) /\ Ran(s)
  /\ card' = IF Drained(queue)
             THEN [status |-> "complete", names |-> {}, completed |-> TRUE]
             ELSE QueueCard(queue, TRUE)
  /\ causes' = causes \cup LosesCard
  /\ round' = [round EXCEPT !.ok = TRUE]
  /\ calls' = Tail(calls)
  /\ UNCHANGED <<stage, turn, queue>>

\* The whole queue is still to run, for the call is not one of its steps.
CallFails ==
  /\ stage = "call" /\ calls # <<>>
  /\ LET s == FirstStep(Head(calls)) IN
       /\ Admissible(s)
       /\ open' = open \ ToSet(s.work)
       /\ card' = HaltCard(s, Remaining(queue))
  /\ causes' = causes \cup LosesCard
       \cup (IF Len(Remaining(queue)) > CardMax THEN {"card_full"} ELSE {})
  /\ queue' = Fresh(<<>>)
  /\ round' = [round EXCEPT !.ok = FALSE, !.halted = TRUE]
  /\ calls' = Tail(calls)
  /\ UNCHANGED <<stage, turn, again>>

\* A plan the calls left alone waits for the next response.
EndCalls ==
  /\ stage = "call" /\ calls = <<>>
  /\ stage' = IF round.ok /\ ~round.halted /\ ~Drained(queue) THEN "drain" ELSE "core"
  /\ UNCHANGED <<turn, calls, queue, card, round, open, again, causes>>

-----------------------------------------------------------------------------
(* Draining: _drain_edit_queue.                                             *)

Current == queue.steps[queue.cursor + 1]

\* validate_minor_step.
Valid(s) ==
  /\ s.symbols > 0 /\ s.symbols <= MaxFocus
  /\ s.shown
  /\ ~(s.heavy /\ s.symbols >= SplitAt)

DrainStep ==
  /\ stage = "drain" /\ ~Drained(queue)
  /\ Valid(Current)
  /\ Ran(Current)
  /\ queue' = [queue EXCEPT !.cursor = @ + 1]
  /\ card' = QueueCard(queue', TRUE)
  /\ UNCHANGED <<stage, turn, calls, round, causes>>

\* An invalid step, or an edit that failed.
DrainFails ==
  /\ stage = "drain" /\ ~Drained(queue)
  /\ card' = HaltCard(Current, Tail(Remaining(queue)))
  /\ causes' = causes
       \cup (IF Len(Remaining(queue)) > CardMax + 1 THEN {"card_full"} ELSE {})
  /\ queue' = Fresh(<<>>)
  /\ stage' = "core"
  /\ UNCHANGED <<turn, calls, round, open, again>>

\* Mutation of EndDrain: the cursor advances once more.
EndDrainAdvancing ==
  /\ stage = "drain" /\ Drained(queue)
  /\ queue' = [queue EXCEPT !.cursor = @ + 1]
  /\ stage' = "core"
  /\ UNCHANGED <<turn, calls, card, round, open, again, causes>>

EndDrain ==
  /\ stage = "drain" /\ Drained(queue)
  /\ stage' = "core"
  /\ UNCHANGED <<turn, calls, queue, card, round, open, again, causes>>

\* A failed edit may end the run, when it was the last the budget allows.
EndRun ==
  /\ stage = "core"
  /\ card.status = "halted"
  /\ stage' = "failed"
  /\ UNCHANGED <<turn, calls, queue, card, round, open, again, causes>>

PlanNext ==
  \/ TakeResponse
  \/ ReachMaxTurns
  \/ RefuseCall
  \/ CallSucceeds
  \/ CallFails
  \/ EndCalls
  \/ DrainStep
  \/ DrainFails
  \/ EndDrain
  \/ EndRun

PlanSpec == PlanInit /\ [][PlanNext]_planVars

-----------------------------------------------------------------------------
(* Properties that hold.                                                    *)

\* Type invariant.  The cursor stays within the plan.
EditPlanTypeOK ==
  /\ stage \in {"core", "call", "drain", "answered", "failed"}
  /\ turn \in 0 .. MaxTurns
  /\ queue.cursor \in 0 .. Len(queue.steps)
  /\ card.status \in {"empty", "draining", "halted", "complete"}
  /\ open \subseteq Work /\ again \subseteq Work
  /\ card.names \subseteq Work

\* Work the Core asked for is done, or in the frozen plan, or the card tells the
\* Core that it was not done - through splitting, freezing, refusals, failures and
\* halts.  The exceptions are the nine of causes, and no other.
WorkKept ==
  /\ stage = "core" /\ causes \subseteq {"asked_twice"}
       => open \subseteq WorkOf(Remaining(queue)) \cup Reported
  /\ stage = "answered" /\ causes \subseteq {"asked_twice"} => open \subseteq Reported

\* No change is made twice for one request of the Core: a step a call has run is
\* not drained, and a split call does not meet its own steps again.
NothingDoneAgain == causes \cap {"asked_twice", "same_intent"} = {} => again = {}

=============================================================================
