---------------------------- MODULE ModelStream ----------------------------
(***************************************************************************)
(* The answer of the Edit model as LLMClient.chat_stream receives it.  Two  *)
(* clocks run: one since the request, which bounds the wait for the first   *)
(* content, and one since the last event.  Reasoning keeps the stream alive *)
(* under a longer bound; content lifts the bound.                           *)
(***************************************************************************)
EXTENDS Naturals

CONSTANTS
  ConnectTimeout,  \* timeout of the call
  ReasonTimeout,   \* stream_reasoning_timeout
  IdleTimeout,     \* stream_idle_timeout
  MaxEvents        \* bound: the provider's stream is finite

ASSUME ModelStreamAssumption ==
  /\ {ConnectTimeout, ReasonTimeout, IdleTimeout} \subseteq Nat \ {0}
  /\ MaxEvents \in Nat

VARIABLE stream

Reading == {"first", "reason", "content"}
Open == {"connect"} \cup Reading
StreamEnded == {"done", "timeout", "broken"}

ReasonLimit == IF ConnectTimeout >= ReasonTimeout THEN ConnectTimeout ELSE ReasonTimeout

Streams ==
  [stage : {"off"} \cup Open \cup StreamEnded,
   elapsed : Nat, idle : Nat, events : 0 .. MaxEvents, said : BOOLEAN]

NoStream ==
  [stage |-> "off", elapsed |-> 0, idle |-> 0,
   events |-> 0, said |-> FALSE]
NewStream == [NoStream EXCEPT !.stage = "connect"]

\* Mutation of Expired: reasoning lifts the bound on the first content.
ExpiredIdle ==
  CASE stream.stage \in {"connect", "first"} -> stream.elapsed >= ConnectTimeout
    [] stream.stage \in {"reason", "content"} -> stream.idle >= IdleTimeout
    [] OTHER -> FALSE

\* The wait for the connection, or for the next event, is over.
Expired ==
  CASE stream.stage \in {"connect", "first"} -> stream.elapsed >= ConnectTimeout
    [] stream.stage = "reason" ->
         stream.elapsed >= ReasonLimit \/ stream.idle >= IdleTimeout
    [] stream.stage = "content" -> stream.idle >= IdleTimeout
    [] OTHER -> FALSE

\* Time passes; what has expired is noticed before more of it does.
Tick ==
  /\ stream.stage \in Open
  /\ ~Expired
  /\ stream' = IF stream.stage = "content" THEN [stream EXCEPT !.idle = @ + 1]
               ELSE [stream EXCEPT !.elapsed = @ + 1, !.idle = @ + 1]

Connected ==
  /\ stream.stage = "connect"
  /\ ~Expired
  /\ stream' = [stream EXCEPT !.stage = "first", !.idle = 0]

\* An event reached the client.
Event(s) ==
  /\ stream.stage \in Reading
  /\ ~Expired
  /\ stream.events < MaxEvents
  /\ stream' = [s EXCEPT !.events = @ + 1, !.idle = 0]

\* An event without text, a role or a usage report.
EmptyEvent == Event(stream)

\* A reasoning delta; it is dropped, and counts for nothing after content.
Reason ==
  Event(IF stream.stage = "content" THEN stream ELSE [stream EXCEPT !.stage = "reason"])

\* A delta of the answer.
Content == Event([stream EXCEPT !.stage = "content", !.said = TRUE])

\* A delta of a tool call ends the wait for content and says nothing.
ToolDelta == Event([stream EXCEPT !.stage = "content"])

EndOfStream ==
  /\ stream.stage \in Reading
  /\ ~Expired
  /\ stream' = [NoStream EXCEPT !.stage = "done", !.said = stream.said]

\* TimeoutError; what was streamed is lost.
TimeOut ==
  /\ Expired
  /\ stream' = [NoStream EXCEPT !.stage = "timeout"]

\* Any other exception of the client's library.
Break ==
  /\ stream.stage \in Open
  /\ stream' = [NoStream EXCEPT !.stage = "broken"]
-----------------------------------------------------------------------------

\* What is left of a stream: stages it may enter, and time until its next event.
StageRank ==
  CASE stream.stage = "connect" -> 4
    [] stream.stage = "first" -> 3
    [] stream.stage = "reason" -> 2
    [] stream.stage = "content" -> 1
    [] OTHER -> 0

TimeLeft ==
  CASE stream.stage \in {"connect", "first", "reason"} -> ReasonLimit - stream.elapsed
    [] stream.stage = "content" -> IdleTimeout - stream.idle
    [] OTHER -> 0
=============================================================================
