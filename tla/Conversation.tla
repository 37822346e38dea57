---------------------------- MODULE Conversation ----------------------------
(***************************************************************************)
(* What the model is told about its own run: the history of messages of     *)
(* src/src/agent/state_assembled_loop.py, its folding into turn summaries   *)
(* (ConversationShaper, turn_summary.py), and the part of it that each      *)
(* request carries.  The loop appends an assistant message with its calls,  *)
(* then one result for each call, in batches; a step of a frozen plan adds a *)
(* result that no message called.  What the tools do, and when the run is   *)
(* terminal, is the matter of other modules and left open here.             *)
(***************************************************************************)
EXTENDS TextCalls

CONSTANTS
  Retrieval,     \* PARALLEL_RETRIEVAL_TOOLS
  Responses,     \* pairs of the tools a response calls through the interface, and its text
  Offers,        \* sets of tools that a step offers
  MaxPlan,       \* bound: steps of a plan
  MaxMishaps,    \* bound: results that say blocked or failed, and messages that quote a boundary
  MaxSteps,      \* max_steps
  ProtocolLimit  \* consecutive bad responses that are borne: 3

Edit == "decision_edit"

ASSUME ConversationAssumption ==
  /\ Tools = Retrieval \cup {Edit}
  /\ Offers \subseteq SUBSET Tools
  /\ Responses \subseteq Seq(Tools) \X Texts
  /\ MaxPlan \in Nat /\ MaxMishaps \in Nat /\ MaxSteps \in Nat /\ ProtocolLimit \in Nat

VARIABLES
  pc,         \* "ask", "respond", "calls", "drain", "done"
  step,       \* run_state.step
  failures,   \* protocol_failures
  history,    \* messages_history
  sent,       \* the messages after the last boundary, as the last request carried them
  shown,      \* the summaries in the system prompt of that request
  offered,    \* _current_step_tools
  left,       \* calls of the response that still have no result
  plan,       \* steps left in edit_queue
  cursor,     \* steps of it that were drained
  editOk,     \* last_decision_edit_ok
  answer,     \* the text that became the final answer
  mishaps,    \* results so far that count for MaxMishaps
  truth       \* history variable: each call of the run with what its result says

vars == <<pc, step, failures, history, sent, shown, offered, left, plan, cursor,
          editOk, answer, mishaps, truth>>

Msg(kind) == [kind |-> kind]
ProseMsg(quotes) == [kind |-> "prose", quotes |-> quotes]
CallsMsg(calls, quotes) == [kind |-> "calls", calls |-> calls, quotes |-> quotes]
ResultMsg(id, said, quotes) == [kind |-> "result", of |-> id, said |-> said, quotes |-> quotes]

\* The ids of calls written as text start again with every response; the id of a
\* plan step is made from the cursor and is the id of no call.
TextId(n) == <<0, n>>
PlanId(n) == <<-1, n>>

\* The calls of a response: native ones, then those of its text.
CallsOf(native, t) ==
  LET tools == native \o TextCallsOf(t, offered)
  IN  [i \in DOMAIN tools |->
        [turn |-> step, n |-> i, tool |-> tools[i],
         id |-> IF i <= Len(native) THEN <<step, i>> ELSE TextId(i - Len(native))]]

----------------------------------------------------------------------------
(* The turn summary. *)

Nothing == [pending |-> <<>>, named |-> {}, outcomes |-> {}]

\* _format_retrieval_outcome: blocks are told of every tool, failures of retrieval.  The
\* text of the result is searched for the words of either, whatever came of the call.
Outcomes(call, said) ==
  IF said = "blocked" \/ (said = "failed" /\ call.tool \in Retrieval)
  THEN {[call |-> call, said |-> said]} ELSE {}

\* Mutation of Reading: a call leaves the queue only when it has an outcome to tell.
ReadingLazily(told, msg) ==
  CASE msg.kind = "calls" ->
         [told EXCEPT !.pending = msg.calls,
                      !.named = @ \cup {c \in Range(msg.calls) : c.tool \in Retrieval \cup {Edit}}]
    [] msg.kind = "result" /\ told.pending # <<>> ->
         LET found == Outcomes(Head(told.pending), msg.said)
         IN  [told EXCEPT !.pending = IF found = {} THEN @ ELSE Tail(@),
                          !.outcomes = @ \cup found]
    [] OTHER -> told

\* build_turn_summary, one message: results are taken for those of the pending calls,
\* in order and without a look at their ids.
Reading(told, msg) ==
  CASE msg.kind = "calls" ->
         [told EXCEPT !.pending = msg.calls,
                      !.named = @ \cup {c \in Range(msg.calls) : c.tool \in Retrieval \cup {Edit}}]
    [] msg.kind = "result" /\ told.pending # <<>> ->
         [told EXCEPT !.pending = Tail(@),
                      !.outcomes = @ \cup Outcomes(Head(told.pending), msg.said)]
    [] OTHER -> told

Summary(messages) ==
  LET told[n \in 0 .. Len(messages)] ==
        IF n = 0 THEN Nothing ELSE Reading(told[n - 1], messages[n])
      all == told[Len(messages)]
  IN  [kind |-> "summary", named |-> all.named, outcomes |-> all.outcomes]

----------------------------------------------------------------------------
(* Folding and slicing. *)

\* The text of the message holds the mark, and keeps it when it is compacted: source or
\* documentation of this program, shown by a tool or repeated by the model.
Quotes(m) == m.kind \in {"prose", "calls", "result"} /\ m.quotes

\* A message that holds the mark "[COMPACT_BOUNDARY]", be it as a quotation.  A summary
\* may quote it too, but has the boundary behind it.
Marked(m) == m.kind = "boundary" \/ Quotes(m)

LastMark(h) ==
  LET marks == {0} \cup {i \in DOMAIN h : Marked(h[i])}
  IN  CHOOSE i \in marks : \A j \in marks : j <= i

\* getMessagesAfterCompactBoundary
AfterBoundary(h) == SubSeq(h, LastMark(h) + 1, Len(h))

Keep == 4

\* Mutation of Shaped: the kept messages are counted from the last mark.
ShapedFromMark(h) ==
  IF Len(h) <= 8 \/ Len(h) - LastMark(h) < 6 THEN h
  ELSE SubSeq(h, 1, LastMark(h))
       \o <<Summary(SubSeq(h, LastMark(h) + 1, LastMark(h) + Keep)), Msg("boundary")>>
       \o SubSeq(h, Len(h) - Keep + 1, Len(h))

\* ConversationShaper.shape: a long history is folded up to its last four messages,
\* wherever that cuts; what was folded before stays, before the boundary.
Shaped(h) ==
  IF Len(h) <= 8 \/ Len(h) - LastMark(h) < 6 THEN h
  ELSE SubSeq(h, 1, LastMark(h))
       \o <<Summary(SubSeq(h, LastMark(h) + 1, Len(h) - Keep)), Msg("boundary")>>
       \o SubSeq(h, Len(h) - Keep + 1, Len(h))

\* SystemLayerShaper: the four newest summaries
Shown(h) ==
  LET all == Only(h, {m \in ToSet(h) : m.kind = "summary"})
  IN  IF Len(all) <= 4 THEN all ELSE SubSeq(all, Len(all) - 3, Len(all))

----------------------------------------------------------------------------
(* The loop. *)

Init ==
  /\ pc = "ask" /\ step = 0 /\ failures = 0
  /\ history = <<>> /\ sent = <<>> /\ shown = <<>> /\ offered = {}
  /\ left = <<>> /\ plan = 0 /\ cursor = 0 /\ editOk = FALSE
  /\ answer = <<>> /\ mishaps = 0 /\ truth = {}

Ask ==
  /\ pc = "ask" /\ step < MaxSteps
  /\ step' = step + 1
  /\ history' = Shaped(history)
  /\ sent' = AfterBoundary(history') /\ shown' = Shown(history')
  /\ offered' \in Offers
  /\ pc' = "respond"
  /\ UNCHANGED <<failures, left, plan, cursor, editOk, answer, mishaps, truth>>

OutOfSteps ==
  /\ pc = "ask" /\ step = MaxSteps
  /\ pc' = "done"
  /\ UNCHANGED <<step, failures, history, sent, shown, offered, left, plan, cursor,
                 editOk, answer, mishaps, truth>>

Mishap(bad) ==
  IF bad THEN mishaps < MaxMishaps /\ mishaps' = mishaps + 1 ELSE mishaps' = mishaps

\* One more bad response, with the messages it leaves: the step is spent, the request
\* is made again, and the run ends when it happens too often in a row.
BadResponse(notices) ==
  /\ pc = "respond"
  /\ \E quotes \in BOOLEAN :
       /\ Mishap(quotes)
       /\ history' = Append(history, ProseMsg(quotes)) \o notices
  /\ failures' = failures + 1
  /\ pc' = IF failures' > ProtocolLimit THEN "done" ELSE "ask"
  /\ UNCHANGED <<step, sent, shown, offered, left, plan, cursor, editOk, answer, truth>>

StreamFails == BadResponse(<<>>)

Malformed(native, t) ==
  /\ CallsOf(native, t) = <<>>
  /\ HasMarkup(Cleaned(t, offered), offered)
  /\ BadResponse(<<Msg("notice")>>)

\* sync_edit_queue_from_core_turn: a plan of the response may replace what is left of
\* the last one.  The cursor starts again with a new plan.
SyncPlan ==
  \/ UNCHANGED <<plan, cursor>>
  \/ plan' \in 0 .. MaxPlan /\ cursor' = 0

CallTools(native, t) ==
  /\ pc = "respond" /\ CallsOf(native, t) # <<>>
  /\ failures' = 0
  /\ SyncPlan
  /\ \E quotes \in BOOLEAN :
       /\ Mishap(quotes)
       /\ history' = Append(history, CallsMsg(CallsOf(native, t), quotes))
  /\ left' = CallsOf(native, t)
  /\ editOk' = FALSE
  /\ pc' = "calls"
  /\ UNCHANGED <<step, sent, shown, offered, answer, truth>>

\* The response calls nothing and has no markup left: it drains the plan or answers.
Speak(native, t) ==
  /\ pc = "respond"
  /\ CallsOf(native, t) = <<>> /\ ~HasMarkup(Cleaned(t, offered), offered)
  /\ failures' = 0
  /\ SyncPlan
  /\ IF plan' > 0 /\ Edit \in offered
     THEN pc' = "drain" /\ UNCHANGED <<history, answer>>
     ELSE /\ history' = Append(history, ProseMsg(FALSE))
          /\ answer' = t
          /\ pc' = "done"
  /\ UNCHANGED <<step, sent, shown, offered, left, editOk, mishaps, truth>>

\* Retrieval calls that follow each other make a batch.
BatchLength ==
  LET others == {i \in DOMAIN left : left[i].tool \notin Retrieval}
  IN  IF others = {} THEN Len(left) ELSE (CHOOSE i \in others : \A j \in others : i <= j) - 1

\* Mutation of Results: the results of a batch in the order the calls ended.
ResultsReversed(calls, said, quoting) ==
  [i \in DOMAIN calls |->
    LET k == Len(calls) + 1 - i IN ResultMsg(calls[k].id, said[k], k \in quoting)]

Results(calls, said, quoting) ==
  [i \in DOMAIN calls |-> ResultMsg(calls[i].id, said[i], i \in quoting)]

\* The calls run together; the results are added when all of them are there.
RunBatch ==
  /\ pc = "calls" /\ BatchLength > 1
  /\ LET calls == SubSeq(left, 1, BatchLength)
     IN  \E said \in [DOMAIN calls -> {"ok", "blocked", "failed"}], quoting \in SUBSET DOMAIN calls :
           /\ mishaps' = mishaps + Cardinality({i \in DOMAIN calls : said[i] # "ok"})
                                + Cardinality(quoting)
           /\ mishaps' <= MaxMishaps
           /\ history' = history \o Results(calls, said, quoting)
           /\ truth' = truth \cup {[call |-> calls[i], said |-> said[i]] : i \in DOMAIN calls}
           /\ left' = SubSeq(left, BatchLength + 1, Len(left))
  /\ UNCHANGED <<pc, step, failures, sent, shown, offered, plan, cursor, editOk, answer>>

\* What may have come of the edit that a call asked for, when its result says so.  One
\* that was made, or that failed, may show code that holds the words of a block.
EditCame(call, said) ==
  CASE call.tool # Edit \/ said = "refused" -> {"unrun"}
    [] call.tool = Edit /\ said = "ok" -> {"made"}
    [] call.tool = Edit /\ said = "failed" -> {"failed"}
    [] call.tool = Edit /\ said = "blocked" -> {"unrun", "made", "failed"}

EditLeaves(came) ==
  \/ came = "unrun" /\ UNCHANGED <<editOk, plan>>
  \/ came = "made" /\ editOk' = TRUE /\ plan' = plan
  \/ came = "failed" /\ editOk' = FALSE /\ plan' = 0

\* One call on its own: its tool may not be offered, the preflight may block it, it may
\* fail or succeed.  A failed edit takes the plan out of the queue.
RunCall ==
  /\ pc = "calls" /\ left # <<>> /\ BatchLength <= 1
  /\ \E said \in {"ok", "refused", "blocked", "failed"}, quotes \in BOOLEAN :
       LET call == Head(left)
       IN  /\ said = "refused" <=> call.tool \notin offered
           /\ said = "refused" => ~quotes
           /\ Mishap(quotes \/ said \in {"blocked", "failed"})
           /\ history' = Append(history, ResultMsg(call.id, said, quotes))
           /\ truth' = truth \cup {[call |-> call, said |-> said]}
           /\ \E came \in EditCame(call, said) : EditLeaves(came)
  /\ left' = Tail(left)
  /\ UNCHANGED <<pc, step, failures, sent, shown, offered, cursor, answer>>

Drains == editOk /\ plan > 0

\* The user refuses a call: the calls after it get no result, and the run is terminal.
Deny ==
  /\ pc = "calls" /\ left # <<>> /\ BatchLength <= 1
  /\ Head(left).tool \in offered
  /\ history' = Append(history, ResultMsg(Head(left).id, "denied", FALSE))
  /\ truth' = truth \cup {[call |-> Head(left), said |-> "denied"]}
  /\ left' = <<>>
  /\ pc' = "done"
  /\ UNCHANGED <<step, failures, sent, shown, offered, plan, cursor, editOk, answer, mishaps>>

\* The last call has its result.  Whether the run is terminal is the reducer's matter.
EndCalls ==
  /\ pc = "calls" /\ left = <<>>
  /\ pc' \in IF Drains THEN {"drain"} ELSE {"ask", "done"}
  /\ UNCHANGED <<step, failures, history, sent, shown, offered, left, plan, cursor,
                 editOk, answer, mishaps, truth>>

\* _drain_edit_queue: one step of the plan, or its failure, which ends the plan.  A step
\* that is no valid call ends it too, with a message of its own.
DrainStep ==
  /\ pc = "drain" /\ plan > 0
  /\ \E said \in {"ok", "failed"}, quotes \in BOOLEAN :
       /\ Mishap(quotes \/ said = "failed")
       /\ history' = Append(history, ResultMsg(PlanId(cursor), said, quotes))
       /\ plan' = IF said = "ok" THEN plan - 1 ELSE 0
       /\ cursor' = cursor + 1
  /\ UNCHANGED <<pc, step, failures, sent, shown, offered, left, editOk, answer, truth>>

EndDrain ==
  /\ pc = "drain" /\ plan = 0
  /\ pc' \in {"ask", "done"}
  /\ UNCHANGED <<step, failures, history, sent, shown, offered, left, plan, cursor,
                 editOk, answer, mishaps, truth>>

Next ==
  \/ Ask \/ OutOfSteps \/ StreamFails
  \/ \E r \in Responses : Malformed(r[1], r[2]) \/ CallTools(r[1], r[2]) \/ Speak(r[1], r[2])
  \/ RunBatch \/ RunCall \/ Deny \/ EndCalls
  \/ DrainStep \/ EndDrain

Spec == Init /\ [][Next]_vars

----------------------------------------------------------------------------
(* Properties. *)

Requested == pc = "respond"

IsResult(i) == i \in DOMAIN sent /\ sent[i].kind = "result"

Answered(i) ==
  \A k \in DOMAIN sent[i].calls :
    IsResult(i + k) /\ sent[i + k].of = sent[i].calls[k].id

PlanResult(i) == sent[i].of[1] = -1

\* The result at i belongs to a call of the request, with only results in between.
Called(i) ==
  \E j \in 1 .. i - 1 :
    sent[j].kind = "calls" /\ i <= j + Len(sent[j].calls)

\* The result at i belongs to a call before the last mark: nothing but results before it.
FoldedCall(i) == history # sent /\ \A j \in 1 .. i : IsResult(j)

\* Whatever the rounds, the batches and the place where a fold cuts, a request carries
\* at most eight messages; each assistant message in it is followed by exactly the
\* results of its calls, in order; and a result without its call is that of a plan step
\* or of a call that a fold or a quoted mark cut off.
SentWellFormed ==
  Requested =>
    /\ Len(sent) <= 8
    /\ \A i \in DOMAIN sent :
         /\ sent[i].kind = "calls" => Answered(i)
         /\ sent[i].kind = "result" => PlanResult(i) \/ Called(i) \/ FoldedCall(i)

Quoted == \E i \in DOMAIN history : Quotes(history[i])

Calls(messages) ==
  UNION {Range(messages[i].calls) : i \in {j \in DOMAIN messages : messages[j].kind = "calls"}}

\* A summary tells of a call what the result of that call says, although results are
\* matched to calls by their place and text calls share their ids; and each call of the
\* run is in the request or named by a summary, unless a message of the run, a result or
\* the model's own text, quoted the mark of a boundary.
SummariesTrue ==
  /\ \A i \in DOMAIN history : history[i].kind = "summary" => history[i].outcomes \subseteq truth
  /\ Requested /\ ~Quoted =>
       \A known \in truth :
         known.call.tool \in Tools =>
           \/ known.call \in Calls(sent)
           \/ \E i \in DOMAIN history : history[i].kind = "summary" /\ known.call \in history[i].named

\* A text that calls a tool is never shown to the user as the answer of the run, also
\* when the step does not offer that tool.  A DSML call that was cut off is left out:
\* its tags are stripped before anyone looks for them.
AnswerIsProse ==
  \A i \in DOMAIN answer : answer[i].form \in {"prose", "dsml_cut"}

\* types.py: messages follow the convention that a tool message answers a call of the
\* assistant message before it.
ResultsFollowCalls ==
  Requested => \A i \in DOMAIN sent : sent[i].kind = "result" => Called(i)
=============================================================================
