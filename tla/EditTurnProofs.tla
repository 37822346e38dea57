-------------------------- MODULE EditTurnProofs --------------------------
(***************************************************************************)
(* Proofs about EditTurn, for all files, answers and bounds: every step     *)
(* leaves less of a call, every attempt starts from the files as they were  *)
(* and shows the model what the call names of them, and a commit can be     *)
(* parsed and keeps the definitions outside of its SITE.                    *)
(***************************************************************************)
EXTENDS EditTurn, FiniteInduction, SequenceTheorems

-----------------------------------------------------------------------------
(* The stream.                                                             *)

\* The stream while it is read: neither clock has passed its bound.
StreamInv ==
  /\ stream \in Streams
  /\ FirstContentDeadline
  /\ stream.stage = "content" => stream.idle <= IdleTimeout

\* What the assumption says of the timeouts, one by one.
LEMMA Timeouts ==
  /\ ConnectTimeout \in Nat \ {0} /\ ReasonTimeout \in Nat \ {0}
  /\ IdleTimeout \in Nat \ {0} /\ MaxEvents \in Nat
  /\ ReasonLimit \in Nat /\ ConnectTimeout <= ReasonLimit
BY ModelStreamAssumption DEF ReasonLimit

\* What is left of a stream is a number.
StreamLeft == StageRank \in 0 .. 4 /\ MaxEvents - stream.events \in Nat /\ TimeLeft \in Nat

\* As long as the clocks keep to their bounds.
LEMMA StreamLeftNat ==
  ASSUME StreamInv
  PROVE  StreamLeft
<1>1. StageRank \in 0 .. 4 /\ MaxEvents - stream.events \in Nat
  BY Timeouts DEF StreamInv, Streams, StageRank
<1>2. TimeLeft \in Nat
  <2>1. stream.elapsed \in Nat /\ stream.idle \in Nat
    BY DEF StreamInv, Streams
  <2>2. CASE stream.stage \in {"connect", "first", "reason"}
    <3>1. stream.elapsed <= ReasonLimit
      BY <2>1, <2>2, Timeouts DEF StreamInv, FirstContentDeadline
    <3>2. TimeLeft = ReasonLimit - stream.elapsed
      BY <2>2 DEF TimeLeft
    <3> QED BY <2>1, <3>1, <3>2, Timeouts
  <2>3. CASE stream.stage = "content"
    <3>1. TimeLeft = IdleTimeout - stream.idle
      BY <2>3 DEF TimeLeft
    <3> QED BY <2>1, <2>3, <3>1, Timeouts DEF StreamInv
  <2>4. CASE stream.stage \notin {"connect", "first", "reason", "content"}
    BY <2>4 DEF TimeLeft
  <2> QED BY <2>2, <2>3, <2>4
<1> QED BY <1>1, <1>2 DEF StreamLeft

\* Less of the stream: a later stage, or an event more, or less time.
StreamAdvances ==
  \/ StageRank' < StageRank
  \/ StageRank' = StageRank /\ MaxEvents - stream'.events < MaxEvents - stream.events
  \/ /\ StageRank' = StageRank /\ MaxEvents - stream'.events = MaxEvents - stream.events
     /\ TimeLeft' < TimeLeft

Stages == {"off"} \cup Open \cup StreamEnded

\* A stream is made of its fields.
LEMMA StreamOf ==
  ASSUME NEW stage \in Stages, NEW elapsed \in Nat, NEW idle \in Nat,
         NEW events \in 0 .. MaxEvents, NEW said \in BOOLEAN
  PROVE  [stage |-> stage, elapsed |-> elapsed, idle |-> idle, events |-> events,
          said |-> said] \in Streams
BY DEF Streams, Stages

\* Its fields are typed.
LEMMA StreamParts ==
  ASSUME NEW s \in Streams
  PROVE  /\ s.stage \in Stages /\ s.elapsed \in Nat /\ s.idle \in Nat
         /\ s.events \in 0 .. MaxEvents /\ s.said \in BOOLEAN
         /\ s = [stage |-> s.stage, elapsed |-> s.elapsed, idle |-> s.idle,
                 events |-> s.events, said |-> s.said]
BY DEF Streams, Stages

\* A stream that begins or has ended.
LEMMA FreshStream ==
  ASSUME NEW stage \in {"off", "connect"} \cup StreamEnded, NEW said \in BOOLEAN,
         stream' = [stage |-> stage, elapsed |-> 0, idle |-> 0, events |-> 0, said |-> said]
  PROVE  StreamInv' /\ stream'.stage = stage
<1>1. stream' \in Streams
  BY StreamOf, Timeouts DEF Stages, Open
<1> QED BY <1>1, Timeouts DEF StreamInv, FirstContentDeadline, StreamEnded

\* A stream that is begun or put away keeps to its bounds.
LEMMA NewStreamInv ==
  ASSUME stream' = NewStream \/ stream' = NoStream
  PROVE  StreamInv' /\ (stream' = NewStream => stream'.stage # "off")
<1>1. CASE stream' = NewStream
  <2>1. stream' = [stage |-> "connect", elapsed |-> 0, idle |-> 0, events |-> 0,
                   said |-> FALSE]
    BY <1>1 DEF NewStream, NoStream
  <2> QED BY <2>1, FreshStream
<1>2. CASE stream' = NoStream
  BY <1>2, FreshStream DEF NewStream, NoStream
<1> QED BY <1>1, <1>2

\* Time that passes leaves less of it, and the clocks within their bounds.
LEMMA TickAdvances ==
  ASSUME StreamInv, Tick
  PROVE  StreamInv' /\ StreamAdvances /\ stream'.stage # "off"
<1>1. stream \in Streams /\ stream.elapsed \in Nat /\ stream.idle \in Nat
  BY DEF StreamInv, Streams
<1>2. CASE stream.stage = "content"
  <2>1. stream.idle < IdleTimeout
    BY <1>1, <1>2, Timeouts DEF Tick, Expired
  <2>2. stream' = [stream EXCEPT !.idle = @ + 1]
    BY <1>2 DEF Tick
  <2>3. /\ stream' \in Streams /\ stream'.stage = "content" /\ stream'.idle = stream.idle + 1
        /\ stream'.events = stream.events
    BY <1>1, <1>2, <2>2 DEF Streams
  <2>4. TimeLeft' = IdleTimeout - stream'.idle /\ TimeLeft = IdleTimeout - stream.idle
    BY <1>2, <2>3 DEF TimeLeft
  <2>5. StageRank' = 1 /\ StageRank = 1
    BY <1>2, <2>3 DEF StageRank
  <2>6. TimeLeft' < TimeLeft
    BY <1>1, <2>3, <2>4, Timeouts
  <2> QED BY <1>1, <2>1, <2>3, <2>5, <2>6, Timeouts
          DEF StreamInv, FirstContentDeadline, StreamAdvances
<1>3. CASE stream.stage \in {"connect", "first", "reason"}
  <2>1. /\ stream.stage \in {"connect", "first"} => stream.elapsed < ConnectTimeout
        /\ stream.stage = "reason" => stream.elapsed < ReasonLimit
    BY <1>1, <1>3, Timeouts DEF Tick, Expired
  <2>2. stream' = [stream EXCEPT !.elapsed = @ + 1, !.idle = @ + 1]
    BY <1>3 DEF Tick
  <2>3. /\ stream' \in Streams /\ stream'.stage = stream.stage
        /\ stream'.elapsed = stream.elapsed + 1 /\ stream'.events = stream.events
    <3>1. /\ stream'.stage = stream.stage /\ stream'.elapsed = stream.elapsed + 1
          /\ stream'.idle = stream.idle + 1 /\ stream'.events = stream.events
          /\ stream'.said = stream.said
      BY <1>1, <2>2 DEF Streams
    <3>2. stream' = [stage |-> stream'.stage, elapsed |-> stream'.elapsed,
                     idle |-> stream'.idle, events |-> stream'.events,
                     said |-> stream'.said]
      BY <1>1, <2>2 DEF Streams
    <3>3. stream' = [stage |-> stream.stage, elapsed |-> stream.elapsed + 1,
                     idle |-> stream.idle + 1, events |-> stream.events,
                     said |-> stream.said]
      BY <3>1, <3>2
    <3> QED BY <1>1, <3>1, <3>3, StreamParts, StreamOf
  <2>4. TimeLeft' = ReasonLimit - stream'.elapsed /\ TimeLeft = ReasonLimit - stream.elapsed
    BY <1>3, <2>3 DEF TimeLeft
  <2>5. StageRank' = StageRank
    BY <2>3 DEF StageRank
  <2>6. TimeLeft' < TimeLeft
    BY <1>1, <2>3, <2>4, Timeouts
  <2> QED BY <1>1, <1>3, <2>1, <2>3, <2>5, <2>6, Timeouts
          DEF StreamInv, FirstContentDeadline, StreamAdvances
<1> QED BY <1>2, <1>3 DEF Tick, Open, Reading

\* A connection enters the next stage.
LEMMA ConnectedAdvances ==
  ASSUME StreamInv, Connected
  PROVE  StreamInv' /\ StreamAdvances /\ stream'.stage # "off"
<1>1. stream' \in Streams /\ stream'.stage = "first" /\ stream'.elapsed = stream.elapsed
  BY DEF StreamInv, Streams, Connected, Open, Reading
<1>2. StageRank' = 3 /\ StageRank = 4
  BY <1>1 DEF StageRank, Connected
<1> QED BY <1>1, <1>2 DEF StreamInv, FirstContentDeadline, StreamAdvances, Connected

\* An event that does not go back to an earlier stage.
LEMMA EventAdvances ==
  ASSUME StreamInv, NEW s \in Streams, Event(s),
         s.elapsed = stream.elapsed, s.events = stream.events,
         \/ s.stage = stream.stage
         \/ s.stage = "reason" /\ stream.stage = "first"
         \/ s.stage = "content"
  PROVE  StreamInv' /\ StreamAdvances /\ stream'.stage # "off"
<1>1. /\ stream \in Streams /\ stream.elapsed \in Nat /\ stream.events \in 0 .. MaxEvents
      /\ stream.stage \in Reading
  BY DEF StreamInv, Streams, Event
<1>2. stream'.stage = s.stage /\ stream'.elapsed = stream.elapsed /\ stream'.idle = 0
      /\ stream'.events = stream.events + 1 /\ stream' \in Streams
  <2>1. /\ stream'.stage = s.stage /\ stream'.elapsed = s.elapsed /\ stream'.idle = 0
        /\ stream'.events = s.events + 1 /\ stream'.said = s.said
    BY DEF Event, Streams
  <2>2. stream' = [stage |-> stream'.stage, elapsed |-> stream'.elapsed,
                   idle |-> stream'.idle, events |-> stream'.events,
                   said |-> stream'.said]
    BY DEF Event, Streams
  <2>3. stream' = [stage |-> s.stage, elapsed |-> s.elapsed, idle |-> 0,
                   events |-> s.events + 1, said |-> s.said]
    BY <2>1, <2>2
  <2>4. s.events + 1 \in 0 .. MaxEvents
    BY <1>1, Timeouts DEF Event
  <2> QED BY <2>1, <2>3, <2>4, StreamParts, StreamOf
<1>3. /\ s.stage = "first" => stream.elapsed <= ConnectTimeout
      /\ s.stage = "reason" => stream.elapsed <= ReasonLimit
  BY <1>1, Timeouts DEF StreamInv, FirstContentDeadline
<1>4. s.stage \in Reading
  BY <1>1 DEF Reading
<1>5. StreamInv'
  BY <1>2, <1>3, <1>4, Timeouts DEF StreamInv, FirstContentDeadline, Reading
<1>6. StageRank' < StageRank \/ StageRank' = StageRank
  BY <1>1, <1>2, <1>4 DEF StageRank, Reading
<1>7. MaxEvents - stream'.events < MaxEvents - stream.events
  BY <1>1, <1>2, Timeouts
<1> QED BY <1>2, <1>4, <1>5, <1>6, <1>7 DEF StreamAdvances, Reading

\* Whatever arrives, a stage ends or an event is spent.
LEMMA ReceiveAdvances ==
  ASSUME StreamInv,
         Connected \/ EmptyEvent \/ Reason \/ Content \/ ToolDelta \/ EndOfStream
  PROVE  StreamInv' /\ StreamAdvances /\ stream'.stage # "off"
<1>1. stream \in Streams
  BY DEF StreamInv
<1>2. CASE Connected
  BY <1>2, ConnectedAdvances
<1>3. CASE EmptyEvent
  BY <1>1, <1>3, EventAdvances DEF EmptyEvent
<1>4. CASE Reason
  <2> DEFINE s == IF stream.stage = "content" THEN stream
                  ELSE [stream EXCEPT !.stage = "reason"]
  <2>1. Event(s)
    BY <1>4 DEF Reason
  <2>2. /\ s \in Streams /\ s.elapsed = stream.elapsed /\ s.events = stream.events
        /\ \/ s.stage = stream.stage
           \/ s.stage = "reason" /\ stream.stage = "first"
    <3>1. CASE stream.stage = "content"
      BY <1>1, <3>1
    <3>2. CASE stream.stage # "content"
      <4>1. s = [stage |-> "reason", elapsed |-> stream.elapsed, idle |-> stream.idle,
                 events |-> stream.events, said |-> stream.said]
        BY <1>1, <3>2, StreamParts
      <4>2. stream.stage \in {"first", "reason"}
        BY <2>1, <3>2 DEF Event, Reading
      <4> QED BY <1>1, <4>1, <4>2, StreamParts, StreamOf DEF Stages, Open, Reading
    <3> QED BY <3>1, <3>2
  <2> HIDE DEF s
  <2> QED BY <2>1, <2>2, EventAdvances
<1>5. CASE Content
  <2> DEFINE s == [stream EXCEPT !.stage = "content", !.said = TRUE]
  <2>1. Event(s)
    BY <1>5 DEF Content
  <2>2. /\ s \in Streams /\ s.elapsed = stream.elapsed /\ s.events = stream.events
        /\ s.stage = "content"
    BY <1>1 DEF Streams, Reading, Open
  <2> HIDE DEF s
  <2> QED BY <2>1, <2>2, EventAdvances
<1>6. CASE ToolDelta
  <2> DEFINE s == [stream EXCEPT !.stage = "content"]
  <2>1. Event(s)
    BY <1>6 DEF ToolDelta
  <2>2. /\ s \in Streams /\ s.elapsed = stream.elapsed /\ s.events = stream.events
        /\ s.stage = "content"
    BY <1>1 DEF Streams, Reading, Open
  <2> HIDE DEF s
  <2> QED BY <2>1, <2>2, EventAdvances
<1>7. CASE EndOfStream
  <2>1. StreamInv' /\ stream'.stage = "done"
    <3>1. stream' = [stage |-> "done", elapsed |-> 0, idle |-> 0, events |-> 0,
                     said |-> stream.said]
      BY <1>7 DEF EndOfStream, NoStream
    <3> QED BY <1>1, <3>1, StreamParts, FreshStream DEF StreamEnded
  <2>2. StageRank' = 0 /\ StageRank \in 1 .. 4
    BY <1>7, <2>1 DEF StageRank, EndOfStream, Reading
  <2> QED BY <2>1, <2>2 DEF StreamAdvances
<1> QED BY <1>2, <1>3, <1>4, <1>5, <1>6, <1>7

\* A timeout or an exception ends every stage.
LEMMA FailureAdvances ==
  ASSUME StreamInv, TimeOut \/ Break
  PROVE  StreamInv' /\ StreamAdvances /\ stream'.stage # "off"
<1>1. StreamInv' /\ stream'.stage \in {"timeout", "broken"}
  <2>1. PICK stage \in {"timeout", "broken"} :
          stream' = [stage |-> stage, elapsed |-> 0, idle |-> 0, events |-> 0,
                     said |-> FALSE]
    BY DEF TimeOut, Break, NoStream
  <2> QED BY <2>1, FreshStream DEF StreamEnded
<1>2. stream.stage \in Open
  BY DEF TimeOut, Break, Expired, Open, Reading
<1>3. StageRank' = 0 /\ StageRank \in 1 .. 4
  BY <1>1, <1>2 DEF StageRank, Open, Reading
<1> QED BY <1>1, <1>3 DEF StreamAdvances

-----------------------------------------------------------------------------
(* Spans, in order and merged.                                             *)

LineSpans == (Nat \ {0}) \X Nat

\* What the assumption says of the sizes, one by one.
LEMMA ContextBounds ==
  /\ Gap \in Nat /\ MinFocus \in Nat /\ Pad \in Nat /\ Lead \in Nat
  /\ MaxWindows \in Nat \ {0} /\ WindowLines \in Nat \ {0} /\ TotalLines \in Nat \ {0}
  /\ MinRoom \in Nat \ {0} /\ FocusLines \in Nat \ {0}
BY EditContextAssumption

\* A set of spans has one that comes before the others.
LEMMA FirstSpan ==
  ASSUME NEW S \in SUBSET LineSpans, S # {}
  PROVE  \E m \in S : \A s \in S : s # m => Before(m, s)
<1> DEFINE A == {s[1] : s \in S}
<1>1. A \in SUBSET Nat /\ A # {}
  BY DEF LineSpans
<1>2. PICK a \in A : \A x \in A : a <= x
  <2> HIDE DEF A
  <2> QED BY <1>1, LeastNumber
<1> DEFINE B == {s[2] : s \in {t \in S : t[1] = a}}
<1>3. B \in SUBSET Nat /\ B # {}
  BY <1>2 DEF LineSpans
<1>4. PICK b \in B : \A x \in B : b <= x
  <2> HIDE DEF A, B
  <2> QED BY <1>3, LeastNumber
<1>5. PICK m \in S : m[1] = a /\ m[2] = b
  BY <1>4
<1>6. ASSUME NEW s \in S, s # m
      PROVE  Before(m, s)
  <2>1. s[1] \in A /\ (s[1] = a => s[2] \in B)
    OBVIOUS
  <2>2. a <= s[1] /\ (s[1] = a => b <= s[2])
    BY <1>2, <1>4, <2>1
  <2>3. s = <<s[1], s[2]>> /\ m = <<a, b>> /\ s[1] \in Nat /\ s[2] \in Nat /\ a \in Nat /\ b \in Nat
    BY <1>5 DEF LineSpans
  <2>4. s[1] # a \/ s[2] # b
    BY <1>6, <2>3
  <2> HIDE DEF A, B
  <2> QED BY <1>5, <2>2, <2>3, <2>4 DEF Before
<1> QED BY <1>5, <1>6

\* q lists the members of S in the order of the file.
Lists(q, S, n) ==
  /\ q \in [1 .. n -> S] /\ Range(q) = S
  /\ \A i, j \in DOMAIN q : i < j => Before(q[i], q[j])

\* A finite set of spans can be listed in the order of the file, by induction on
\* its size.
LEMMA SpansCanBeListed ==
  ASSUME NEW S \in SUBSET LineSpans, IsFiniteSet(S)
  PROVE  \E q : Lists(q, S, Cardinality(S))
<1> DEFINE N == Cardinality(S)
           P == {n \in 0 .. N :
                   \A T \in SUBSET S : Cardinality(T) = n => \E q : Lists(q, T, n)}
<1>1. N \in Nat
  BY FS_CardinalityType
<1>2. 0 \in P
  <2> SUFFICES ASSUME NEW T \in SUBSET S, Cardinality(T) = 0
               PROVE  \E q : Lists(q, T, 0)
    BY <1>1
  <2>1. IsFiniteSet(T)
    BY FS_Subset
  <2>2. T = {}
    BY <2>1, FS_EmptySet
  <2> DEFINE q == [i \in 1 .. 0 |-> 0]
  <2>3. Lists(q, T, 0)
    BY <2>2 DEF Lists, Range
  <2> HIDE DEF q
  <2> QED BY <2>3
<1>3. ASSUME NEW n \in 0 .. N - 1, n \in P
      PROVE  n + 1 \in P
  <2> SUFFICES ASSUME NEW T \in SUBSET S, Cardinality(T) = n + 1
               PROVE  \E q : Lists(q, T, n + 1)
    BY <1>1
  <2>1. IsFiniteSet(T)
    BY FS_Subset
  <2>2. T # {}
    BY <1>1, <2>1, FS_EmptySet
  <2>3. PICK m \in T : \A s \in T : s # m => Before(m, s)
    BY <2>2, FirstSpan
  <2> DEFINE R == T \ {m}
  <2>4. Cardinality(R) = n /\ R \in SUBSET S
    <3>1. Cardinality(T \ {m}) = Cardinality(T) - 1
      BY <2>1, FS_RemoveElement
    <3> QED BY <1>1, <3>1
  <2>5. PICK r : Lists(r, R, n)
    <3> HIDE DEF R, N
    <3> QED BY <1>3, <2>4
  <2> DEFINE q == [i \in 1 .. n + 1 |-> IF i = 1 THEN m ELSE r[i - 1]]
  <2>6. \A i \in 2 .. n + 1 : i - 1 \in 1 .. n /\ q[i] = r[i - 1] /\ r[i - 1] \in R
    BY <1>1, <2>5 DEF Lists
  <2>7. q[1] = m /\ 1 \in 1 .. n + 1 /\ DOMAIN q = 1 .. n + 1
    BY <1>1
  <2>8. \A i \in 1 .. n + 1 : i = 1 \/ i \in 2 .. n + 1
    BY <1>1
  <2>9. q \in [1 .. n + 1 -> T]
    BY <2>6, <2>7, <2>8
  <2>10. T \subseteq Range(q)
    <3> SUFFICES ASSUME NEW s \in T PROVE \E i \in 1 .. n + 1 : q[i] = s
      BY <2>7 DEF Range
    <3>1. CASE s = m
      BY <2>7, <3>1
    <3>2. CASE s # m
      <4>1. s \in Range(r) /\ DOMAIN r = 1 .. n
        BY <2>5, <3>2 DEF Lists
      <4>2. PICK i \in 1 .. n : r[i] = s
        BY <4>1 DEF Range
      <4>3. i + 1 \in 2 .. n + 1 /\ i + 1 - 1 = i /\ i + 1 \in 1 .. n + 1
        BY <1>1
      <4>4. q[i + 1] = s
        BY <2>6, <4>2, <4>3
      <4> QED BY <4>3, <4>4
    <3> QED BY <3>1, <3>2
  <2>11. ASSUME NEW i \in 1 .. n + 1, NEW j \in 1 .. n + 1, i < j
         PROVE  Before(q[i], q[j])
    <3>1. j \in 2 .. n + 1
      BY <1>1, <2>11
    <3>2. q[j] \in R /\ q[j] = r[j - 1] /\ j - 1 \in 1 .. n
      BY <2>6, <3>1
    <3>3. CASE i = 1
      BY <2>3, <2>7, <3>2, <3>3
    <3>4. CASE i # 1
      <4>1. q[i] = r[i - 1] /\ i - 1 \in 1 .. n /\ i - 1 < j - 1
        BY <1>1, <2>6, <2>8, <2>11, <3>4
      <4>2. DOMAIN r = 1 .. n
        BY <2>5 DEF Lists
      <4> HIDE DEF q
      <4> QED BY <2>5, <3>2, <4>1, <4>2 DEF Lists
    <3> QED BY <3>3, <3>4
  <2>12. Range(q) = T
    BY <2>9, <2>10 DEF Range
  <2> HIDE DEF q
  <2>13. Lists(q, T, n + 1)
    BY <2>7, <2>9, <2>11, <2>12 DEF Lists
  <2> QED BY <2>13
<1> HIDE DEF P
<1>4. 0 .. N \subseteq P
  BY <1>1, <1>2, <1>3, PrefixInduction
<1>5. N \in P
  BY <1>1, <1>4
<1> QED BY <1>5 DEF P

\* Ordered chooses such a list.
LEMMA OrderedSpans ==
  ASSUME NEW S \in SUBSET LineSpans, IsFiniteSet(S)
  PROVE  Lists(Ordered(S, Before), S, Cardinality(S))
<1>1. PICK q : Lists(q, S, Cardinality(S))
  BY SpansCanBeListed
<1>2. \E p \in [1 .. Cardinality(S) -> S] :
        Range(p) = S /\ \A i, j \in DOMAIN p : i < j => Before(p[i], p[j])
  BY <1>1 DEF Lists
<1> QED BY <1>2 DEF Lists, Ordered

\* One step of the merge.
Joined(runs, s) ==
  IF runs # <<>> /\ s[1] <= Last(runs)[2] + Gap + 1
  THEN Append(Front(runs), <<Last(runs)[1], Larger(Last(runs)[2], s[2])>>)
  ELSE Append(runs, s)

\* A run stands for the span.
Covered(runs, s) == \E i \in DOMAIN runs : runs[i][1] <= s[1] /\ s[2] <= runs[i][2]

\* A part of a sequence, line by line.
LEMMA Cut ==
  ASSUME NEW T, NEW s \in Seq(T), NEW m \in Int, NEW n \in Int, 1 <= m, n <= Len(s)
  PROVE  /\ SubSeq(s, m, n) \in Seq(T)
         /\ Len(SubSeq(s, m, n)) = IF m <= n THEN n - m + 1 ELSE 0
         /\ \A i \in 1 .. n - m + 1 : SubSeq(s, m, n)[i] = s[m + i - 1]
<1>1. \A i \in m .. n : s[i] \in T
  <2>1. Len(s) \in Nat /\ \A i \in 1 .. Len(s) : s[i] \in T
    OBVIOUS
  <2> QED BY <2>1
<1> QED BY <1>1, SubSeqProperties

\* A sequence whose last element is exchanged.
LEMMA ReplaceLast ==
  ASSUME NEW T, NEW q \in Seq(T), q # <<>>, NEW x \in T
  PROVE  LET r == Append(Front(q), x)
         IN  /\ r \in Seq(T) /\ Len(r) = Len(q) /\ r[Len(q)] = x
             /\ \A i \in 1 .. Len(q) - 1 : r[i] = q[i]
<1>1. Len(q) \in Nat \ {0}
  BY EmptySeq
<1>2. Front(q) \in Seq(T) /\ Len(Front(q)) = Len(q) - 1
      /\ \A i \in 1 .. Len(q) - 1 : Front(q)[i] = q[i]
  <2> DEFINE n == Len(q) - 1
             f == SubSeq(q, 1, n)
  <2>1. n \in Nat /\ n <= Len(q)
    BY <1>1
  <2>2. /\ f \in Seq(T) /\ Len(f) = IF 1 <= n THEN n - 1 + 1 ELSE 0
        /\ \A i \in 1 .. n - 1 + 1 : f[i] = q[1 + i - 1]
    <3> HIDE DEF n, f
    <3> QED BY <2>1, Cut DEF f
  <2> HIDE DEF f
  <2>3. Len(f) = n /\ \A i \in 1 .. n : f[i] = q[i]
    <3> HIDE DEF n
    <3> QED BY <2>1, <2>2
  <2> QED BY <2>2, <2>3 DEF Front, f
<1> QED BY <1>1, <1>2

\* Joining a span to the runs covers it and whatever they covered.
LEMMA JoinedRuns ==
  ASSUME NEW q \in Seq(LineSpans), NEW s \in LineSpans
  PROVE  /\ Joined(q, s) \in Seq(LineSpans) /\ Joined(q, s) # <<>>
         /\ (q # <<>> => Last(q)[1] <= s[1]) =>
              /\ Last(Joined(q, s))[1] <= s[1]
              /\ Covered(Joined(q, s), s)
         /\ \A t \in LineSpans : Covered(q, t) => Covered(Joined(q, s), t)
<1>1. s[1] \in Nat \ {0} /\ s[2] \in Nat /\ s = <<s[1], s[2]>>
  BY DEF LineSpans
<1>2. CASE q # <<>> /\ s[1] <= Last(q)[2] + Gap + 1
  <2> DEFINE n == Len(q)
             x == <<q[n][1], Larger(q[n][2], s[2])>>
             r == Append(Front(q), x)
  <2>1. n \in Nat \ {0} /\ DOMAIN q = 1 .. n /\ Last(q) = q[n]
    BY <1>2, EmptySeq DEF Last
  <2>2. q[n] \in LineSpans /\ q[n][1] \in Nat \ {0} /\ q[n][2] \in Nat
    BY <2>1 DEF LineSpans
  <2>3. x \in LineSpans /\ x[1] = q[n][1] /\ q[n][2] <= x[2] /\ s[2] <= x[2]
    BY <1>1, <2>2 DEF LineSpans, Larger
  <2>4. Joined(q, s) = r
    BY <1>2, <2>1 DEF Joined
  <2> HIDE DEF x
  <2>5. r \in Seq(LineSpans) /\ Len(r) = n /\ r[n] = x
        /\ \A i \in 1 .. n - 1 : r[i] = q[i]
    BY <1>2, <2>3, ReplaceLast
  <2> HIDE DEF r, n
  <2>6. r # <<>> /\ DOMAIN r = 1 .. n /\ Last(r) = x
    BY <2>1, <2>5 DEF Last
  <2>7. Last(q)[1] <= s[1] => Last(r)[1] <= s[1] /\ Covered(r, s)
    BY <2>1, <2>3, <2>5, <2>6 DEF Covered
  <2>8. ASSUME NEW t \in LineSpans, Covered(q, t)
        PROVE  Covered(r, t)
    <3>1. PICK i \in 1 .. n : q[i][1] <= t[1] /\ t[2] <= q[i][2]
      BY <2>1, <2>8 DEF Covered
    <3>2. CASE i = n
      <4>1. t[2] \in Nat /\ x[2] \in Nat
        BY <2>3 DEF LineSpans
      <4> QED BY <2>1, <2>2, <2>3, <2>5, <2>6, <3>1, <3>2, <4>1 DEF Covered
    <3>3. CASE i # n
      <4>1. i \in 1 .. n - 1
        BY <2>1, <3>3
      <4> QED BY <2>5, <2>6, <3>1, <4>1 DEF Covered
    <3> QED BY <3>2, <3>3
  <2> QED BY <1>2, <2>4, <2>5, <2>6, <2>7, <2>8
<1>3. CASE ~(q # <<>> /\ s[1] <= Last(q)[2] + Gap + 1)
  <2> DEFINE r == Append(q, s)
             n == Len(q)
  <2>1. Joined(q, s) = r
    BY <1>3 DEF Joined
  <2>2. /\ n \in Nat /\ DOMAIN q = 1 .. n
        /\ r \in Seq(LineSpans) /\ DOMAIN r = 1 .. n + 1 /\ r[n + 1] = s
        /\ Len(r) = n + 1 /\ \A i \in 1 .. n : r[i] = q[i]
    OBVIOUS
  <2> HIDE DEF r, n
  <2>3. r # <<>> /\ Last(r) = s
    BY <2>2 DEF Last
  <2>4. Covered(r, s) /\ Last(r)[1] <= s[1]
    BY <1>1, <2>2, <2>3 DEF Covered
  <2>5. \A t \in LineSpans : Covered(q, t) => Covered(r, t)
    BY <2>2 DEF Covered
  <2> QED BY <2>1, <2>2, <2>3, <2>4, <2>5
<1> QED BY <1>2, <1>3

\* The merge of a listed set, step by step.
LEMMA MergeUnfolds ==
  ASSUME NEW S \in SUBSET LineSpans, IsFiniteSet(S)
  PROVE  LET q == Ordered(S, Before)
             N == Cardinality(S)
         IN  \E g : /\ Unfolds(g, N, Seq(LineSpans), <<>>,
                              [p \in (1 .. N) \X Seq(LineSpans) |-> Joined(p[2], q[p[1]])])
                    /\ MergeSpans(S) = g[N]
<1> DEFINE q == Ordered(S, Before)
           N == Cardinality(S)
           Q == Seq(LineSpans)
           F == [p \in (1 .. N) \X Q |-> Joined(p[2], q[p[1]])]
           Body(h) == [n \in 0 .. Len(q) |->
                         IF n = 0 THEN <<>>
                         ELSE IF h[n - 1] # <<>> /\ q[n][1] <= Last(h[n - 1])[2] + Gap + 1
                              THEN Append(Front(h[n - 1]),
                                          <<Last(h[n - 1])[1],
                                            Larger(Last(h[n - 1])[2], q[n][2])>>)
                              ELSE Append(h[n - 1], q[n])]
           merged == CHOOSE h : h = Body(h)
<1>1. N \in Nat /\ Lists(q, S, N)
  BY FS_CardinalityType, OrderedSpans
<1>2. Len(q) = N /\ \A n \in 1 .. N : q[n] \in LineSpans
  BY <1>1 DEF Lists
<1>3. MergeSpans(S) = merged[Len(q)]
  BY DEF MergeSpans
<1>4. \A h : Body(h) = [n \in 0 .. N |-> IF n = 0 THEN <<>> ELSE Joined(h[n - 1], q[n])]
  <2> HIDE DEF q, N
  <2> QED BY <1>2 DEF Joined
<1> HIDE DEF q, N, Body
<1>5. <<>> \in Q /\ F \in [(1 .. N) \X Q -> Q]
  BY <1>2, JoinedRuns
<1>6. \E g : Unfolds(g, N, Q, <<>>, F)
  <2> HIDE DEF F, Q
  <2> QED BY <1>1, <1>5, RecursionExists
<1>7. PICK g : Unfolds(g, N, Q, <<>>, F)
  BY <1>6
<1>8. g = Body(g)
  <2>1. g \in [0 .. N -> Q] /\ g[0] = <<>>
    BY <1>7 DEF Unfolds
  <2>2. ASSUME NEW n \in 1 .. N
        PROVE  g[n] = Joined(g[n - 1], q[n])
    <3>1. g[n] = F[<<n, g[n - 1]>>]
      BY <1>7 DEF Unfolds
    <3>2. n - 1 \in 0 .. N
      BY <1>1
    <3>3. <<n, g[n - 1]>> \in (1 .. N) \X Q
      BY <2>1, <3>2
    <3> QED BY <3>1, <3>3
  <2>3. \A n \in 0 .. N : n = 0 \/ n \in 1 .. N
    BY <1>1
  <2>4. g = [n \in 0 .. N |-> IF n = 0 THEN <<>> ELSE Joined(g[n - 1], q[n])]
    BY <2>1, <2>2, <2>3
  <2> QED BY <1>4, <2>4
<1>9. merged = Body(merged)
  BY <1>8
<1> HIDE DEF merged
<1>10. Unfolds(merged, N, Q, <<>>, F)
  <2>1. merged = [n \in 0 .. N |-> IF n = 0 THEN <<>> ELSE Joined(merged[n - 1], q[n])]
    BY <1>4, <1>9
  <2>2. merged = [n \in 0 .. N |-> merged[n]] /\ merged[0] = <<>>
    BY <1>1, <2>1
  <2>3. ASSUME NEW n \in 1 .. N, merged[n - 1] \in Q
        PROVE  merged[n] = F[<<n, merged[n - 1]>>]
    <3>1. merged[n] = Joined(merged[n - 1], q[n])
      BY <1>1, <2>1
    <3> QED BY <2>3, <3>1
  <2> HIDE DEF F, Q
  <2> QED BY <1>1, <1>5, <2>2, <2>3, RecursionUnfolds
<1> QED BY <1>2, <1>3, <1>10 DEF q, N

\* Every span of a merge is covered by one of its runs.
LEMMA MergedSpans ==
  ASSUME NEW S \in SUBSET LineSpans, IsFiniteSet(S)
  PROVE  /\ MergeSpans(S) \in Seq(LineSpans)
         /\ S # {} => MergeSpans(S) # <<>>
         /\ \A s \in S : Covered(MergeSpans(S), s)
<1> DEFINE q == Ordered(S, Before)
           N == Cardinality(S)
           F == [p \in (1 .. N) \X Seq(LineSpans) |-> Joined(p[2], q[p[1]])]
<1>1. N \in Nat /\ Lists(q, S, N)
  BY FS_CardinalityType, OrderedSpans
<1>2. PICK g : Unfolds(g, N, Seq(LineSpans), <<>>, F) /\ MergeSpans(S) = g[N]
  BY MergeUnfolds
<1> HIDE DEF q, N
<1>3. q \in [1 .. N -> LineSpans] /\ DOMAIN q = 1 .. N
  BY <1>1 DEF Lists
<1>4. g \in [0 .. N -> Seq(LineSpans)] /\ g[0] = <<>>
  BY <1>2 DEF Unfolds
<1>5. ASSUME NEW n \in 1 .. N
      PROVE  g[n] = Joined(g[n - 1], q[n])
  <2>1. g[n] = F[<<n, g[n - 1]>>]
    BY <1>2 DEF Unfolds
  <2>2. n - 1 \in 0 .. N
    BY <1>1
  <2>3. <<n, g[n - 1]>> \in (1 .. N) \X Seq(LineSpans)
    BY <1>4, <2>2
  <2> QED BY <2>1, <2>3
<1> DEFINE P == {n \in 0 .. N :
                   /\ n > 0 => g[n] # <<>> /\ Last(g[n])[1] <= q[n][1]
                   /\ \A i \in 1 .. n : Covered(g[n], q[i])}
<1>6. 0 \in P
  BY <1>1
<1>7. ASSUME NEW n \in 0 .. N - 1, n \in P
      PROVE  n + 1 \in P
  <2>1. PICK m \in 1 .. N : m = n + 1 /\ m - 1 = n /\ m \in 0 .. N
    BY <1>1
  <2>2. g[m] = Joined(g[n], q[m]) /\ g[n] \in Seq(LineSpans) /\ q[m] \in LineSpans
    <3>1. g[m] = Joined(g[m - 1], q[m]) /\ q[m] \in LineSpans
      BY <1>3, <1>5, <2>1
    <3>2. g[n] \in Seq(LineSpans)
      BY <1>1, <1>4
    <3> QED BY <2>1, <3>1, <3>2
  <2>3. g[n] # <<>> => Last(g[n])[1] <= q[m][1]
    <3>1. SUFFICES ASSUME g[n] # <<>> PROVE Last(g[n])[1] <= q[m][1]
      OBVIOUS
    <3>2. n # 0 /\ n \in 1 .. N /\ n < m
      BY <1>1, <1>4, <2>1, <3>1
    <3>3. Last(g[n])[1] <= q[n][1]
      BY <1>7, <3>2
    <3>4. Before(q[n], q[m])
      BY <1>1, <1>3, <3>2 DEF Lists
    <3>5. q[n][1] <= q[m][1] /\ q[n][1] \in Nat /\ q[m][1] \in Nat
      BY <1>3, <3>2, <3>4 DEF Before, LineSpans
    <3>6. Last(g[n]) \in LineSpans
      <4>1. Len(g[n]) \in 1 .. Len(g[n])
        BY <2>2, <3>1, EmptySeq
      <4> QED BY <2>2, <4>1 DEF Last
    <3>7. Last(g[n])[1] \in Nat
      BY <3>6 DEF LineSpans
    <3> QED BY <3>3, <3>5, <3>7
  <2>4. g[m] # <<>> /\ Last(g[m])[1] <= q[m][1] /\ Covered(g[m], q[m])
    BY <2>2, <2>3, JoinedRuns
  <2>5. ASSUME NEW i \in 1 .. m
        PROVE  Covered(g[m], q[i])
    <3>1. CASE i = m
      BY <2>4, <3>1
    <3>2. CASE i # m
      <4>1. i \in 1 .. n /\ i \in 1 .. N
        BY <1>1, <2>1, <3>2
      <4>2. Covered(g[n], q[i]) /\ q[i] \in LineSpans
        BY <1>3, <1>7, <4>1
      <4> QED BY <2>2, <4>2, JoinedRuns
    <3> QED BY <3>1, <3>2
  <2> QED BY <2>1, <2>4, <2>5
<1> HIDE DEF P
<1>8. 0 .. N \subseteq P
  BY <1>1, <1>6, <1>7, PrefixInduction
<1>9. /\ N > 0 => g[N] # <<>>
      /\ \A i \in 1 .. N : Covered(g[N], q[i])
  BY <1>1, <1>8 DEF P
<1>10. \A s \in S : \E i \in 1 .. N : q[i] = s
  BY <1>1, <1>3 DEF Lists, Range
<1>11. S # {} => N > 0
  BY <1>1, <1>10
<1>12. g[N] \in Seq(LineSpans)
  BY <1>1, <1>4
<1>13. \A s \in S : Covered(g[N], s)
  BY <1>9, <1>10
<1> QED BY <1>2, <1>9, <1>11, <1>12, <1>13

\* The image of a finite domain is finite.
LEMMA ImageFinite ==
  ASSUME NEW f, IsFiniteSet(DOMAIN f)
  PROVE  IsFiniteSet(Range(f))
<1> DEFINE g == [x \in DOMAIN f |-> f[x]]
<1>1. g \in Surjection(DOMAIN f, Range(f))
  BY DEF Surjection, Range
<1> HIDE DEF g
<1> QED BY <1>1, FS_Surjection

\* So are the members of a sequence.
LEMMA MembersFinite ==
  ASSUME NEW T, NEW q \in Seq(T)
  PROVE  IsFiniteSet(Range(q)) /\ Range(q) \subseteq T
<1>1. DOMAIN q = 1 .. Len(q) /\ Len(q) \in Nat /\ \A i \in DOMAIN q : q[i] \in T
  OBVIOUS
<1>2. IsFiniteSet(DOMAIN q)
  BY <1>1, FS_Interval
<1>3. IsFiniteSet(Range(q))
  BY <1>2, ImageFinite
<1>4. Range(q) \subseteq T
  BY <1>1 DEF Range
<1> QED BY <1>3, <1>4

\* Min of a set of naturals is its least element.
LEMMA MinOfNats ==
  ASSUME NEW S \in SUBSET Nat, S # {}
  PROVE  Min(S) \in S /\ \A n \in S : Min(S) <= n
<1>1. \E m \in S : \A n \in S : m <= n
  BY LeastNumber
<1> QED BY <1>1 DEF Min

\* Where a symbol is: in the file, its first line first.
LEMMA SymbolLines ==
  ASSUME NEW text \in Seq(Lines), NEW symbol
  PROVE  \/ LocateSymbol(text, symbol) = NoSpan
         \/ LocateSymbol(text, symbol) \in (1 .. Len(text)) \X (1 .. Len(text))
<1> DEFINE found == {i \in DOMAIN text : Defines[text[i]] = symbol}
           depths == {Depth[text[i]] : i \in found}
           outer == IF WellFormed(text)
                    THEN {i \in found : \A j \in found : Depth[text[i]] <= Depth[text[j]]}
                    ELSE found
<1>1. SUFFICES ASSUME symbol # NoSymbol, found # {}
               PROVE  <<Min(outer), BlockEnd(text, Min(outer))>>
                        \in (1 .. Len(text)) \X (1 .. Len(text))
  BY DEF LocateSymbol
<1>2. /\ DOMAIN text = 1 .. Len(text) /\ Len(text) \in Nat
      /\ \A i \in DOMAIN text : text[i] \in Lines
  OBVIOUS
<1>3. depths \in SUBSET Nat /\ depths # {}
  <2>1. \A i \in found : Depth[text[i]] \in Nat
    BY <1>2, SourceTextAssumption
  <2> HIDE DEF found
  <2> QED BY <1>1, <2>1
<1>4. outer # {}
  <2>1. PICK d \in depths : \A e \in depths : d <= e
    <3> HIDE DEF depths
    <3> QED BY <1>3, LeastNumber
  <2> QED BY <1>1, <2>1
<1>5. outer \subseteq 1 .. Len(text)
  BY <1>2
<1>6. Min(outer) \in 1 .. Len(text)
  <2> HIDE DEF outer
  <2>1. outer \in SUBSET Nat
    BY <1>5
  <2> QED BY <1>4, <1>5, <2>1, MinOfNats
<1> HIDE DEF outer
<1>7. ASSUME NEW i \in 1 .. Len(text)
      PROVE  BlockEnd(text, i) \in 1 .. Len(text)
  <2> DEFINE ends == {j - 1 : j \in {k \in i + 1 .. Len(text) :
                                       Depth[text[k]] <= Depth[text[i]]}}
                     \cup {Len(text)}
  <2>1. ends \subseteq 1 .. Len(text) /\ ends # {} /\ ends \in SUBSET Nat
    BY <1>2
  <2>2. BlockEnd(text, i) = Min(ends)
    BY DEF BlockEnd
  <2> HIDE DEF ends
  <2> QED BY <2>1, <2>2, MinOfNats
<1> QED BY <1>6, <1>7

\* The windows of the focus symbols are spans of lines.
LEMMA FocusSpansType ==
  ASSUME NEW text \in Seq(Lines), NEW focus
  PROVE  FocusSpans(text, focus) \in Seq(LineSpans)
<1> DEFINE Around(at) ==
             <<Larger(1, at[1] - Lead),
               Smaller(Len(text), Larger(at[1] + FocusLines - 1, at[2] + Pad))>>
           located == {LocateSymbol(text, focus[i]) : i \in DOMAIN focus \cap 1 .. 3}
           S == {Around(at) : at \in located \ {NoSpan}}
           L == Len(text)
           Box == (1 .. L + 1) \X (0 .. L)
<1>1. L \in Nat
  OBVIOUS
<1>2. ASSUME NEW at \in (1 .. L) \X (1 .. L)
      PROVE  Around(at) \in Box
  <2>1. at[1] \in 1 .. L /\ at[2] \in 1 .. L
    OBVIOUS
  <2>2. Larger(1, at[1] - Lead) \in 1 .. L + 1
    BY <1>1, <2>1, ContextBounds DEF Larger
  <2>3. Smaller(L, Larger(at[1] + FocusLines - 1, at[2] + Pad)) \in 0 .. L
    BY <1>1, <2>1, ContextBounds DEF Larger, Smaller
  <2> QED BY <2>2, <2>3
<1>3. located \ {NoSpan} \subseteq (1 .. L) \X (1 .. L)
  BY SymbolLines
<1>4. S \subseteq Box
  <2> HIDE DEF Around, Box
  <2> QED BY <1>2, <1>3
<1>5. IsFiniteSet(Box) /\ Box \subseteq LineSpans
  <2>1. IsFiniteSet(1 .. L + 1) /\ IsFiniteSet(0 .. L)
    BY <1>1, FS_Interval
  <2>2. IsFiniteSet(Box)
    BY <2>1, FS_Product
  <2>3. 1 .. L + 1 \subseteq Nat \ {0} /\ 0 .. L \subseteq Nat
    BY <1>1
  <2> QED BY <2>2, <2>3 DEF LineSpans
<1>6. IsFiniteSet(S) /\ S \in SUBSET LineSpans
  <2> HIDE DEF S, Box
  <2> QED BY <1>4, <1>5, FS_Subset
<1>7. FocusSpans(text, focus) = MergeSpans(S)
  BY DEF FocusSpans
<1> HIDE DEF S
<1> QED BY <1>6, <1>7, MergedSpans

\* A run stands for the lines of the span that are in the file.
Reached(runs, text, s) ==
  \E i \in DOMAIN runs : runs[i][1] <= s[1] /\ Smaller(s[2], Len(text)) <= runs[i][2]

\* The last line of a span that is widened and kept within the file.
LEMMA LastLine ==
  ASSUME NEW x \in Nat, NEW y \in Nat, NEW pad \in Nat, NEW end \in Nat
  PROVE  /\ Smaller(end, Larger(x, y + pad)) \in Nat
         /\ Smaller(x, end) <= Smaller(end, Larger(x, y + pad))
BY DEF Smaller, Larger

\* A widened span covers the one it was.
LEMMA WidenedSpan ==
  ASSUME NEW text \in Seq(Lines), NEW c \in LineSpans,
         NEW around \in Seq(LineSpans), around # <<>>
  PROVE  /\ Widened(text, c, around) \in LineSpans
         /\ Widened(text, c, around)[1] <= c[1]
         /\ Smaller(c[2], Len(text)) <= Widened(text, c, around)[2]
<1> DEFINE met == {i \in DOMAIN around : Meets(c, around[i])}
           k == IF met = {} THEN 1 ELSE Min(met)
           best == around[k]
<1>1. Len(text) \in Nat /\ Len(around) \in Nat /\ DOMAIN around = 1 .. Len(around)
      /\ Len(around) # 0
  BY EmptySeq
<1>2. k \in DOMAIN around
  <2>1. met \in SUBSET Nat /\ met \subseteq DOMAIN around
    BY <1>1
  <2>2. met # {} => Min(met) \in met
    <3> HIDE DEF met
    <3> QED BY <2>1, MinOfNats
  <2>3. CASE met = {}
    <3>1. k = 1
      BY <2>3
    <3> QED BY <1>1, <3>1
  <2>4. CASE met # {}
    <3>1. k = Min(met)
      BY <2>4
    <3> HIDE DEF met, k
    <3> QED BY <2>1, <2>2, <2>4, <3>1
  <2> QED BY <2>3, <2>4
<1> HIDE DEF k
<1>3. best[1] \in Nat \ {0} /\ best[2] \in Nat
  <2>1. best \in LineSpans
    BY <1>2
  <2> QED BY <2>1 DEF LineSpans
<1>4. c[1] \in Nat \ {0} /\ c[2] \in Nat /\ c = <<c[1], c[2]>>
  BY DEF LineSpans
<1>5. Widened(text, c, around) =
        IF c[2] - c[1] + 1 >= MinFocus THEN c
        ELSE <<Smaller(c[1], best[1]), Smaller(Len(text), Larger(c[2], best[2] + Pad))>>
  BY DEF Widened, k
<1> HIDE DEF best
<1>6. CASE c[2] - c[1] + 1 >= MinFocus
  BY <1>1, <1>4, <1>5, <1>6 DEF Smaller
<1>7. CASE ~(c[2] - c[1] + 1 >= MinFocus)
  <2> DEFINE a == Smaller(c[1], best[1])
             b == Smaller(Len(text), Larger(c[2], best[2] + Pad))
  <2>1. a \in Nat \ {0} /\ a <= c[1]
    BY <1>3, <1>4 DEF Smaller
  <2>2. b \in Nat /\ Smaller(c[2], Len(text)) <= b
    BY <1>1, <1>3, <1>4, ContextBounds, LastLine
  <2>3. Widened(text, c, around) = <<a, b>>
    BY <1>5, <1>7
  <2> HIDE DEF a, b
  <2> QED BY <2>1, <2>2, <2>3 DEF LineSpans
<1> QED BY <1>6, <1>7

\* The spans of the target cover those of the call, up to the end of the file.
LEMMA TargetSpansReach ==
  ASSUME NEW text \in Seq(Lines), NEW spans \in Seq(LineSpans), NEW focus,
         NEW cached \in Seq(LineSpans)
  PROVE  /\ TargetSpans(text, spans, focus, cached) \in Seq(LineSpans)
         /\ \A s \in Range(spans) :
              Reached(TargetSpans(text, spans, focus, cached), text, s)
<1> DEFINE around == FocusSpans(text, focus)
           called == MergeSpans(Range(spans))
           W == {Widened(text, s, around) : s \in Range(called)}
           T == TargetSpans(text, spans, focus, cached)
<1>1. around \in Seq(LineSpans)
  BY FocusSpansType
<1>2. IsFiniteSet(Range(spans)) /\ Range(spans) \in SUBSET LineSpans
  BY MembersFinite
<1>3. /\ called \in Seq(LineSpans)
      /\ Range(spans) # {} => called # <<>>
      /\ \A s \in Range(spans) : Covered(called, s)
  BY <1>2, MergedSpans
<1>4. MergeSpans(Range(cached)) \in Seq(LineSpans)
  BY MembersFinite, MergedSpans
<1>5. Len(text) \in Nat
  OBVIOUS
<1>6. CASE called = <<>>
  <2>1. T \in Seq(LineSpans)
    BY <1>1, <1>4, <1>6 DEF TargetSpans
  <2> QED BY <1>3, <1>6, <2>1
<1>7. CASE called # <<>> /\ around = <<>>
  <2>1. T = called
    BY <1>7 DEF TargetSpans
  <2> HIDE DEF T, called
  <2>2. ASSUME NEW s \in Range(spans)
        PROVE  Reached(T, text, s)
    <3>1. PICK i \in DOMAIN called : called[i][1] <= s[1] /\ s[2] <= called[i][2]
      BY <1>3 DEF Covered
    <3>2. s[2] \in Nat /\ called[i][2] \in Nat
      BY <1>2, <1>3 DEF LineSpans
    <3> QED BY <1>5, <2>1, <3>1, <3>2 DEF Reached, Smaller
  <2> QED BY <1>3, <2>1, <2>2 DEF T
<1>8. CASE called # <<>> /\ around # <<>>
  <2>1. T = MergeSpans(W)
    BY <1>8 DEF TargetSpans
  <2> HIDE DEF T, around, called
  <2>2. IsFiniteSet(Range(called)) /\ Range(called) \in SUBSET LineSpans
    BY <1>3, MembersFinite
  <2> DEFINE w == [s \in Range(called) |-> Widened(text, s, around)]
  <2>3. W = Range(w) /\ DOMAIN w = Range(called)
    BY DEF Range
  <2>4. IsFiniteSet(W)
    <3> HIDE DEF W, w
    <3> QED BY <2>2, <2>3, ImageFinite
  <2>5. W \in SUBSET LineSpans
    BY <1>1, <1>8, <2>2, WidenedSpan
  <2>6. MergeSpans(W) \in Seq(LineSpans) /\ \A c \in W : Covered(MergeSpans(W), c)
    <3> HIDE DEF W
    <3> QED BY <2>4, <2>5, MergedSpans
  <2>7. ASSUME NEW s \in Range(spans)
        PROVE  Reached(T, text, s)
    <3>1. PICK i \in DOMAIN called : called[i][1] <= s[1] /\ s[2] <= called[i][2]
      BY <1>3 DEF Covered
    <3> DEFINE c == called[i]
               v == Widened(text, c, around)
    <3>2. c \in LineSpans /\ c \in Range(called)
      BY <1>3, <3>1 DEF Range
    <3>3. v \in W /\ v \in LineSpans /\ v[1] <= c[1] /\ Smaller(c[2], Len(text)) <= v[2]
      BY <1>1, <1>8, <3>2, WidenedSpan
    <3>4. Covered(T, v)
      BY <2>1, <2>6, <3>3
    <3> HIDE DEF v
    <3>5. PICK j \in DOMAIN T : T[j][1] <= v[1] /\ v[2] <= T[j][2]
      BY <3>4 DEF Covered
    <3>6. T[j] \in LineSpans
      BY <2>1, <2>6, <3>5
    <3>7. /\ s[1] \in Nat /\ s[2] \in Nat /\ c[1] \in Nat /\ c[2] \in Nat
          /\ v[1] \in Nat /\ v[2] \in Nat /\ T[j][1] \in Nat /\ T[j][2] \in Nat
      BY <1>2, <3>2, <3>3, <3>6 DEF LineSpans
    <3>8. T[j][1] <= s[1] /\ Smaller(s[2], Len(text)) <= T[j][2]
      <4>1. T[j][1] <= s[1]
        BY <3>1, <3>3, <3>5, <3>7
      <4>2. Smaller(s[2], Len(text)) <= Smaller(c[2], Len(text))
        BY <1>5, <3>1, <3>7 DEF Smaller
      <4>3. Smaller(s[2], Len(text)) \in Nat /\ Smaller(c[2], Len(text)) \in Nat
        BY <1>5, <3>7 DEF Smaller
      <4> QED BY <3>3, <3>5, <3>7, <4>1, <4>2, <4>3
    <3> QED BY <3>5, <3>8 DEF Reached
  <2> QED BY <2>1, <2>6, <2>7 DEF T
<1> QED BY <1>6, <1>7, <1>8

-----------------------------------------------------------------------------
(* Windows.                                                                *)

Windowed == [file : Files, from : Nat \ {0}, shown : Seq(Lines \cup {Marker})]

\* The lines shown so far are counted by a natural number.
LEMMA ShownUnfolds ==
  ASSUME NEW held \in Seq(Windowed)
  PROVE  Shown(held) \in Nat
<1> DEFINE N == Len(held)
           F == [p \in (1 .. N) \X Nat |-> p[2] + Len(held[p[1]].shown)]
           Body(h) == [n \in 0 .. Len(held) |->
                         IF n = 0 THEN 0 ELSE h[n - 1] + Len(held[n].shown)]
           lines == CHOOSE h : h = Body(h)
<1>1. N \in Nat
  OBVIOUS
<1>2. ASSUME NEW n \in 1 .. N
      PROVE  Len(held[n].shown) \in Nat
  <2>1. held[n] \in Windowed
    OBVIOUS
  <2>2. held[n].shown \in Seq(Lines \cup {Marker})
    BY <2>1 DEF Windowed
  <2> QED BY <2>2
<1>3. F \in [(1 .. N) \X Nat -> Nat]
  BY <1>2
<1>4. Shown(held) = lines[N]
  BY DEF Shown
<1>5. PICK g : Unfolds(g, N, Nat, 0, F)
  <2> HIDE DEF F, N
  <2> QED BY <1>1, <1>3, RecursionExists
<1>6. g = Body(g)
  <2>1. g \in [0 .. N -> Nat] /\ g[0] = 0
    BY <1>5 DEF Unfolds
  <2>2. ASSUME NEW n \in 1 .. N
        PROVE  g[n] = g[n - 1] + Len(held[n].shown)
    <3>1. g[n] = F[<<n, g[n - 1]>>]
      BY <1>5 DEF Unfolds
    <3>2. n - 1 \in 0 .. N
      BY <1>1
    <3>3. <<n, g[n - 1]>> \in (1 .. N) \X Nat
      BY <2>1, <3>2
    <3> QED BY <3>1, <3>3
  <2>3. \A n \in 0 .. N : n = 0 \/ n \in 1 .. N
    BY <1>1
  <2> QED BY <2>1, <2>2, <2>3
<1>7. lines = Body(lines)
  BY <1>6
<1> HIDE DEF lines
<1>8. Unfolds(lines, N, Nat, 0, F)
  <2>1. lines = [n \in 0 .. N |-> lines[n]] /\ lines[0] = 0
    BY <1>1, <1>7
  <2>2. ASSUME NEW n \in 1 .. N, lines[n - 1] \in Nat
        PROVE  lines[n] = F[<<n, lines[n - 1]>>]
    <3>1. lines[n] = lines[n - 1] + Len(held[n].shown)
      BY <1>1, <1>7
    <3> QED BY <2>2, <3>1
  <2> HIDE DEF F, N
  <2> QED BY <1>1, <1>3, <2>1, <2>2, RecursionUnfolds
<1> QED BY <1>1, <1>4, <1>8 DEF Unfolds

\* A pack that has grown by true windows of a file.
Grown(held, p, file, text) ==
  /\ p \in Seq(Windowed)
  /\ \A w \in Range(p) : w \in Range(held) \/ (w.file = file /\ Truthful(w, text))
  /\ Range(held) \subseteq Range(p)
  /\ ~HasRoom(held) => p = held

\* The lines of the span are in the pack, or it tells what it leaves out.
Shows(p, file, text, s) ==
  \A n \in s[1] .. Smaller(s[2], Len(text)) :
    \/ \E w \in Range(p) :
         /\ w.file = file
         /\ (w.from <= n /\ n < w.from + Len(w.shown)) \/ Marker \in Range(w.shown)
    \/ ~HasRoom(p)

\* Append adds one element.
LEMMA AppendRange ==
  ASSUME NEW T, NEW q \in Seq(T), NEW x \in T
  PROVE  /\ Append(q, x) \in Seq(T)
         /\ Range(Append(q, x)) = Range(q) \cup {x}
<1> DEFINE r == Append(q, x)
           n == Len(q)
<1>1. /\ n \in Nat /\ r \in Seq(T) /\ DOMAIN q = 1 .. n /\ DOMAIN r = 1 .. n + 1
      /\ r[n + 1] = x /\ \A i \in 1 .. n : r[i] = q[i]
  OBVIOUS
<1> HIDE DEF r, n
<1>2. \A i \in 1 .. n + 1 : i \in 1 .. n \/ i = n + 1
  BY <1>1
<1>3. n + 1 \in 1 .. n + 1 /\ 1 .. n \subseteq 1 .. n + 1
  BY <1>1
<1> QED BY <1>1, <1>2, <1>3 DEF Range, r

\* One window.
LEMMA AppendedWindow ==
  ASSUME NEW held \in Seq(Windowed), NEW file \in Files, NEW text \in Seq(Lines),
         NEW span \in LineSpans
  PROVE  LET p == Appended(held, file, text, span)
         IN  Grown(held, p, file, text) /\ Shows(p, file, text, span)
<1> DEFINE a == span[1]
           b == Smaller(Len(text), span[2])
           lines == Segment(text, <<a, b>>)
           room == Room(held)
           shown == IF Len(lines) <= room THEN lines
                    ELSE Append(SubSeq(lines, 1, room), Marker)
           w == Window(file, a, shown)
           p == Appended(held, file, text, span)
<1>1. /\ a \in Nat \ {0} /\ span[2] \in Nat /\ Len(text) \in Nat /\ b \in Nat
      /\ b <= Len(text) /\ b = Smaller(span[2], Len(text))
  BY DEF LineSpans, Smaller
<1>2. CASE ~HasRoom(held)
  <2>1. p = held
    BY <1>2 DEF Appended
  <2> HIDE DEF p
  <2> QED BY <1>2, <2>1 DEF Grown, Shows, p
<1>3. CASE HasRoom(held)
  <2>1. p = Append(held, w)
    BY <1>3 DEF Appended
  <2>2. room \in Nat
    BY <1>3, ShownUnfolds, ContextBounds DEF HasRoom, Room, Smaller
  <2>3. /\ lines \in Seq(Lines)
        /\ Len(lines) = IF a <= b THEN b - a + 1 ELSE 0
        /\ \A i \in 1 .. b - a + 1 : lines[i] = text[a + i - 1]
    <3>1. lines = SubSeq(text, a, b)
      BY DEF Segment
    <3> HIDE DEF a, b, lines
    <3> QED BY <1>1, <3>1, Cut
  <2> HIDE DEF room, lines, p, b, a
  <2>4. CASE Len(lines) <= room
    <3>1. shown = lines /\ w = [file |-> file, from |-> a, shown |-> lines]
      BY <2>4 DEF Window
    <3>2. lines \in Seq(Lines \cup {Marker})
      BY <2>3
    <3>3. w \in Windowed
      BY <1>1, <3>1, <3>2 DEF Windowed
    <3>4. Truthful(w, text)
      <4>1. SUFFICES ASSUME NEW i \in DOMAIN lines
                     PROVE  a + i - 1 \in DOMAIN text /\ text[a + i - 1] = lines[i]
        BY <3>1 DEF Truthful
      <4>2. DOMAIN lines = 1 .. Len(lines) /\ DOMAIN text = 1 .. Len(text)
        BY <2>3
      <4>3. i \in 1 .. b - a + 1 /\ a <= b
        BY <1>1, <2>3, <4>2
      <4>4. a + i - 1 \in 1 .. Len(text)
        BY <1>1, <4>3
      <4> QED BY <2>3, <4>2, <4>3, <4>4
    <3>5. \A n \in a .. b : w.from <= n /\ n < w.from + Len(w.shown)
      BY <1>1, <2>3, <3>1
    <3>6. w.file = file
      BY <3>1
    <3> HIDE DEF w
    <3>7. p \in Seq(Windowed) /\ Range(p) = Range(held) \cup {w}
      BY <2>1, <3>3, AppendRange
    <3>8. Grown(held, p, file, text)
      BY <1>3, <3>4, <3>6, <3>7 DEF Grown
    <3>9. Shows(p, file, text, span)
      BY <1>1, <3>5, <3>6, <3>7 DEF Shows, a
    <3> QED BY <3>8, <3>9 DEF p
  <2>5. CASE ~(Len(lines) <= room)
    <3> DEFINE cut == SubSeq(lines, 1, room)
               sh == Append(cut, Marker)
    <3>1. /\ cut \in Seq(Lines) /\ Len(cut) = IF 1 <= room THEN room - 1 + 1 ELSE 0
          /\ \A i \in 1 .. room - 1 + 1 : cut[i] = lines[1 + i - 1]
      <4>1. room <= Len(lines)
        BY <2>2, <2>3, <2>5
      <4> QED BY <2>2, <2>3, <4>1, Cut
    <3> HIDE DEF cut
    <3>2. /\ Len(cut) = room
          /\ \A i \in 1 .. room : cut[i] = lines[i]
      BY <2>2, <3>1
    <3>3. cut \in Seq(Lines \cup {Marker})
      BY <3>1
    <3>4. /\ sh \in Seq(Lines \cup {Marker}) /\ Range(sh) = Range(cut) \cup {Marker}
      BY <3>3, AppendRange
    <3>5. /\ DOMAIN sh = 1 .. room + 1 /\ sh[room + 1] = Marker
          /\ \A i \in 1 .. room : sh[i] = lines[i]
      BY <2>2, <3>2, <3>3
    <3>6. shown = sh /\ w = [file |-> file, from |-> a, shown |-> sh]
      BY <2>5 DEF Window, cut
    <3> HIDE DEF sh
    <3>7. w \in Windowed
      BY <1>1, <3>4, <3>6 DEF Windowed
    <3>8. Truthful(w, text)
      <4>1. SUFFICES ASSUME NEW i \in DOMAIN sh, sh[i] # Marker
                     PROVE  a + i - 1 \in DOMAIN text /\ text[a + i - 1] = sh[i]
        BY <3>6 DEF Truthful
      <4>2. i \in 1 .. room
        BY <2>2, <3>5, <4>1
      <4>3. i \in 1 .. b - a + 1 /\ a <= b
        BY <1>1, <2>2, <2>3, <2>5, <4>2
      <4>4. a + i - 1 \in 1 .. Len(text) /\ DOMAIN text = 1 .. Len(text)
        BY <1>1, <4>3
      <4> QED BY <2>3, <3>5, <4>2, <4>3, <4>4
    <3>9. w.file = file /\ Marker \in Range(w.shown)
      BY <3>4, <3>6
    <3> HIDE DEF w
    <3>10. p \in Seq(Windowed) /\ Range(p) = Range(held) \cup {w}
      BY <2>1, <3>7, AppendRange
    <3>11. Grown(held, p, file, text)
      BY <1>3, <3>8, <3>9, <3>10 DEF Grown
    <3>12. Shows(p, file, text, span)
      BY <3>9, <3>10 DEF Shows
    <3> QED BY <3>11, <3>12 DEF p
  <2> QED BY <2>4, <2>5
<1> QED BY <1>2, <1>3

\* A pack that grows twice has grown.
LEMMA GrownTwice ==
  ASSUME NEW held, NEW p, NEW r, NEW file, NEW text,
         Grown(held, p, file, text), Grown(p, r, file, text)
  PROVE  Grown(held, r, file, text)
BY DEF Grown

\* What is shown stays shown, or there was no room.
LEMMA ShownStays ==
  ASSUME NEW p, NEW r, NEW file, NEW text, NEW other, NEW otherText, NEW s,
         Shows(p, file, text, s), Grown(p, r, other, otherText)
  PROVE  Shows(r, file, text, s)
BY DEF Grown, Shows

\* Windows are appended one after the other.
LEMMA AppendedAllUnfolds ==
  ASSUME NEW held \in Seq(Windowed), NEW file \in Files, NEW text \in Seq(Lines),
         NEW spans \in Seq(LineSpans)
  PROVE  \E g : /\ g \in [0 .. Len(spans) -> Seq(Windowed)]
                /\ g[0] = held
                /\ \A n \in 1 .. Len(spans) :
                     g[n] = Appended(g[n - 1], file, text, spans[n])
                /\ AppendedAll(held, file, text, spans) = g[Len(spans)]
<1> DEFINE N == Len(spans)
           Q == Seq(Windowed)
           F == [p \in (1 .. N) \X Q |-> Appended(p[2], file, text, spans[p[1]])]
           Body(h) == [n \in 0 .. N |->
                         IF n = 0 THEN held
                         ELSE Appended(h[n - 1], file, text, spans[n])]
           filled == CHOOSE h : h = Body(h)
<1>1. N \in Nat /\ \A n \in 1 .. N : spans[n] \in LineSpans
  OBVIOUS
<1>2. \A n \in 1 .. N, q \in Q : Appended(q, file, text, spans[n]) \in Q
  BY <1>1, AppendedWindow DEF Grown
<1>3. F \in [(1 .. N) \X Q -> Q]
  <2> HIDE DEF Q, N
  <2> QED BY <1>2
<1>4. AppendedAll(held, file, text, spans) = filled[N]
  BY DEF AppendedAll
<1>5. PICK g : Unfolds(g, N, Q, held, F)
  <2> HIDE DEF F, N
  <2> QED BY <1>1, <1>3, RecursionExists
<1>6. ASSUME NEW h, Unfolds(h, N, Q, held, F)
      PROVE  /\ h \in [0 .. N -> Q] /\ h[0] = held
             /\ \A n \in 1 .. N : h[n] = Appended(h[n - 1], file, text, spans[n])
  <2>1. h \in [0 .. N -> Q] /\ h[0] = held
    BY <1>6 DEF Unfolds
  <2>2. ASSUME NEW n \in 1 .. N
        PROVE  h[n] = Appended(h[n - 1], file, text, spans[n])
    <3>1. h[n] = F[<<n, h[n - 1]>>]
      BY <1>6 DEF Unfolds
    <3>2. n - 1 \in 0 .. N
      BY <1>1
    <3>3. <<n, h[n - 1]>> \in (1 .. N) \X Q
      BY <2>1, <3>2
    <3> QED BY <3>1, <3>3
  <2> QED BY <2>1, <2>2
<1>7. g = Body(g)
  <2>1. \A n \in 0 .. N : n = 0 \/ n \in 1 .. N
    BY <1>1
  <2> HIDE DEF Q, F, N
  <2> QED BY <1>5, <1>6, <2>1
<1>8. filled = Body(filled)
  BY <1>7
<1> HIDE DEF filled
<1>9. Unfolds(filled, N, Q, held, F)
  <2>1. filled = [n \in 0 .. N |-> filled[n]] /\ filled[0] = held
    BY <1>1, <1>8
  <2>2. ASSUME NEW n \in 1 .. N, filled[n - 1] \in Q
        PROVE  filled[n] = F[<<n, filled[n - 1]>>]
    <3>1. filled[n] = Appended(filled[n - 1], file, text, spans[n])
      BY <1>1, <1>8
    <3> QED BY <2>2, <3>1
  <2> HIDE DEF F, N, Q, Body
  <2>3. held \in Q
    BY DEF Q
  <2> QED BY <1>1, <1>3, <2>1, <2>2, <2>3, RecursionUnfolds
<1>10. filled \in [0 .. N -> Q] /\ filled[0] = held
       /\ \A n \in 1 .. N : filled[n] = Appended(filled[n - 1], file, text, spans[n])
  <2> HIDE DEF F, N, Q
  <2> QED BY <1>6, <1>9
<1> QED BY <1>4, <1>10

\* All windows of a file.
LEMMA AppendedAllShows ==
  ASSUME NEW held \in Seq(Windowed), NEW file \in Files, NEW text \in Seq(Lines),
         NEW spans \in Seq(LineSpans)
  PROVE  LET p == AppendedAll(held, file, text, spans)
         IN  /\ Grown(held, p, file, text)
             /\ \A i \in DOMAIN spans : Shows(p, file, text, spans[i])
<1> DEFINE N == Len(spans)
<1>1. N \in Nat /\ DOMAIN spans = 1 .. N /\ \A n \in 1 .. N : spans[n] \in LineSpans
  OBVIOUS
<1>2. PICK g : /\ g \in [0 .. N -> Seq(Windowed)]
               /\ g[0] = held
               /\ \A n \in 1 .. N : g[n] = Appended(g[n - 1], file, text, spans[n])
               /\ AppendedAll(held, file, text, spans) = g[N]
  BY AppendedAllUnfolds
<1> HIDE DEF N
<1> DEFINE P == {n \in 0 .. N : /\ Grown(held, g[n], file, text)
                                /\ \A i \in 1 .. n : Shows(g[n], file, text, spans[i])}
<1>3. 0 \in P
  BY <1>1, <1>2 DEF Grown
<1>4. ASSUME NEW n \in 0 .. N - 1, n \in P
      PROVE  n + 1 \in P
  <2>1. PICK m \in 1 .. N : m = n + 1 /\ m - 1 = n /\ m \in 0 .. N
    BY <1>1
  <2>2. g[n] \in Seq(Windowed) /\ g[m] = Appended(g[n], file, text, spans[m])
    BY <1>1, <1>2, <2>1
  <2>3. Grown(g[n], g[m], file, text) /\ Shows(g[m], file, text, spans[m])
    BY <1>1, <2>2, AppendedWindow
  <2>4. Grown(held, g[m], file, text)
    BY <1>4, <2>3, GrownTwice
  <2>5. ASSUME NEW i \in 1 .. m
        PROVE  Shows(g[m], file, text, spans[i])
    <3>1. CASE i = m
      BY <2>3, <3>1
    <3>2. CASE i # m
      <4>1. i \in 1 .. n
        BY <1>1, <2>1, <3>2
      <4>2. Shows(g[n], file, text, spans[i])
        BY <1>4, <4>1
      <4> QED BY <2>3, <4>2, ShownStays
    <3> QED BY <3>1, <3>2
  <2> QED BY <2>1, <2>4, <2>5
<1> HIDE DEF P
<1>5. 0 .. N \subseteq P
  BY <1>1, <1>3, <1>4, PrefixInduction
<1>6. N \in P
  BY <1>1, <1>5
<1> QED BY <1>1, <1>2, <1>6 DEF P

\* The pack shows true lines, and of the target what the call names.
LEMMA PackShows ==
  ASSUME NEW target \in Files, NEW text \in Seq(Lines), NEW spans \in Seq(LineSpans),
         NEW focus, NEW cached \in Seq(LineSpans),
         NEW other \in Files, NEW otherText \in Seq(Lines),
         NEW otherSpans \in Seq(LineSpans)
  PROVE  LET p == ContextPack(target, text, spans, focus, cached, other, otherText,
                              otherSpans)
         IN  /\ \A w \in Range(p) : \/ w.file = target /\ Truthful(w, text)
                                    \/ w.file = other /\ Truthful(w, otherText)
             /\ \A s \in Range(spans) : Shows(p, target, text, s)
<1> DEFINE T == TargetSpans(text, spans, focus, cached)
           first == IF T # <<>> THEN AppendedAll(<<>>, target, text, T)
                    ELSE Appended(<<>>, target, text, <<1, WindowLines>>)
           O == MergeSpans(Range(otherSpans))
           p == ContextPack(target, text, spans, focus, cached, other, otherText,
                            otherSpans)
<1>1. T \in Seq(LineSpans) /\ \A s \in Range(spans) : Reached(T, text, s)
  BY TargetSpansReach
<1>2. O \in Seq(LineSpans)
  BY MembersFinite, MergedSpans
<1>3. p = AppendedAll(first, other, otherText, O)
  BY DEF ContextPack
<1>4. <<>> \in Seq(Windowed) /\ <<1, WindowLines>> \in LineSpans /\ Len(text) \in Nat
  BY ContextBounds DEF LineSpans
<1> HIDE DEF T, O, p
<1>5. /\ Grown(<<>>, first, target, text)
      /\ \A i \in DOMAIN T : Shows(first, target, text, T[i])
  <2>1. CASE T # <<>>
    BY <1>1, <1>4, <2>1, AppendedAllShows
  <2>2. CASE T = <<>>
    <3>1. Grown(<<>>, first, target, text)
      BY <1>4, <2>2, AppendedWindow
    <3>2. DOMAIN T = {}
      BY <2>2
    <3> HIDE DEF first
    <3> QED BY <3>1, <3>2
  <2> QED BY <2>1, <2>2
<1> HIDE DEF first
<1>6. first \in Seq(Windowed) /\ \A w \in Range(first) : w.file = target /\ Truthful(w, text)
  <2>1. Range(<<>>) = {}
    BY DEF Range
  <2> QED BY <1>5, <2>1 DEF Grown
<1>7. Grown(first, p, other, otherText)
  BY <1>2, <1>3, <1>6, AppendedAllShows
<1>8. ASSUME NEW s \in Range(spans)
      PROVE  Shows(p, target, text, s)
  <2>1. PICK i \in DOMAIN T : T[i][1] <= s[1] /\ Smaller(s[2], Len(text)) <= T[i][2]
    BY <1>1, <1>8 DEF Reached
  <2>2. Shows(p, target, text, T[i])
    BY <1>5, <1>7, <2>1, ShownStays
  <2>3. s \in LineSpans /\ T[i] \in LineSpans
    BY <1>1, <2>1, MembersFinite
  <2>4. s[1] \in Nat /\ s[2] \in Nat /\ T[i][1] \in Nat /\ T[i][2] \in Nat
    BY <2>3 DEF LineSpans
  <2>5. s[1] .. Smaller(s[2], Len(text)) \subseteq T[i][1] .. Smaller(T[i][2], Len(text))
    BY <1>4, <2>1, <2>4 DEF Smaller
  <2> QED BY <2>2, <2>5 DEF Shows
<1> QED BY <1>6, <1>7, <1>8 DEF Grown, p

-----------------------------------------------------------------------------
(* Blocks.                                                                 *)

\* A concatenation has the elements of both.
LEMMA ConcatRange ==
  ASSUME NEW T, NEW q \in Seq(T), NEW r \in Seq(T)
  PROVE  q \o r \in Seq(T) /\ Range(q \o r) = Range(q) \cup Range(r)
<1> DEFINE m == Len(q)
           n == Len(r)
           c == q \o r
<1>1. /\ m \in Nat /\ n \in Nat /\ DOMAIN q = 1 .. m /\ DOMAIN r = 1 .. n
      /\ c \in Seq(T) /\ DOMAIN c = 1 .. m + n
      /\ \A i \in 1 .. m : c[i] = q[i]
      /\ \A i \in 1 .. n : c[m + i] = r[i]
  OBVIOUS
<1> HIDE DEF m, n, c
<1>2. Range(c) \subseteq Range(q) \cup Range(r)
  <2> SUFFICES ASSUME NEW i \in 1 .. m + n PROVE c[i] \in Range(q) \cup Range(r)
    BY <1>1 DEF Range
  <2>1. CASE i <= m
    <3>1. i \in 1 .. m
      BY <1>1, <2>1
    <3> QED BY <1>1, <3>1 DEF Range
  <2>2. CASE ~(i <= m)
    <3>1. PICK j \in 1 .. n : i = m + j
      <4>1. i - m \in 1 .. n /\ i = m + (i - m)
        BY <1>1, <2>2
      <4> QED BY <4>1
    <3> QED BY <1>1, <3>1 DEF Range
  <2> QED BY <2>1, <2>2
<1>3. Range(q) \subseteq Range(c)
  <2>1. 1 .. m \subseteq 1 .. m + n
    BY <1>1
  <2> QED BY <1>1, <2>1 DEF Range
<1>4. Range(r) \subseteq Range(c)
  <2>1. \A i \in 1 .. n : m + i \in 1 .. m + n
    BY <1>1
  <2> QED BY <1>1, <2>1 DEF Range
<1> QED BY <1>1, <1>2, <1>3, <1>4 DEF c

\* Lines that stand in the file are found where they, or equal lines, stand.
LEMMA FirstMatch ==
  ASSUME NEW text \in Seq(Lines), NEW from \in DOMAIN text, NEW to \in DOMAIN text,
         from <= to
  PROVE  LET old == SubSeq(text, from, to)
             n == to - from + 1
             at == FindMatch(text, old)
         IN  /\ Len(old) = n /\ n \in Nat \ {0}
             /\ at \in 1 .. Len(text) - n + 1
             /\ \A k \in 1 .. n : text[at + k - 1] = text[from + k - 1]
<1> DEFINE old == SubSeq(text, from, to)
           n == to - from + 1
           L == Len(text)
           At == {i \in 1 .. L - Len(old) + 1 : Alike(text, old, i, Same)}
<1>1. /\ L \in Nat /\ DOMAIN text = 1 .. L /\ from \in 1 .. L /\ to \in 1 .. L
      /\ n \in Nat \ {0} /\ \A i \in 1 .. L : text[i] \in Lines
  OBVIOUS
<1>2. /\ old \in Seq(Lines) /\ Len(old) = n
      /\ \A k \in 1 .. n : old[k] = text[from + k - 1]
  <2>1. from \in Int /\ 1 <= from /\ to \in Int /\ to <= Len(text)
    BY <1>1
  <2> HIDE DEF At, L
  <2> QED BY <2>1, Cut
<1> HIDE DEF old
<1>3. DOMAIN old = 1 .. n /\ old # <<>>
  BY <1>1, <1>2
<1>4. \A k \in 1 .. n : from + k - 1 \in 1 .. L
  BY <1>1
<1>5. ASSUME NEW i \in 1 .. L - n + 1
      PROVE  Alike(text, old, i, Same) <=> \A k \in 1 .. n : text[i + k - 1] = old[k]
  <2>1. \A k \in 1 .. n : i + k - 1 \in 1 .. L
    BY <1>1
  <2>2. \A k \in 1 .. n : text[i + k - 1] \in Lines /\ old[k] \in Lines
    BY <1>1, <1>2, <1>4, <2>1
  <2> HIDE DEF n
  <2> QED BY <1>3, <2>2 DEF Alike, Same
<1>6. from \in At
  <2>1. from \in 1 .. L - n + 1
    BY <1>1
  <2> QED BY <1>2, <1>5, <2>1
<1>7. At \in SUBSET Nat
  BY <1>1, <1>2
<1>8. Min(At) \in At
  <2> HIDE DEF At
  <2> QED BY <1>6, <1>7, MinOfNats
<1>9. FindMatch(text, old) = Min(At)
  BY <1>3, <1>6 DEF FindMatch
<1>10. \A k \in 1 .. n : text[Min(At) + k - 1] = text[from + k - 1]
  <2>1. Min(At) \in 1 .. L - n + 1 /\ Alike(text, old, Min(At), Same)
    BY <1>2, <1>8
  <2> HIDE DEF At, n
  <2> QED BY <1>2, <1>5, <2>1
<1>11. Min(At) \in 1 .. L - n + 1
  BY <1>2, <1>8
<1> QED BY <1>1, <1>2, <1>9, <1>10, <1>11 DEF old

\* Replacing lines that stand in the file keeps what other lines define.
LEMMA SpliceKeeps ==
  ASSUME NEW text \in Seq(Lines), NEW from \in DOMAIN text, NEW to \in DOMAIN text,
         from <= to, NEW new \in Seq(Lines), NEW s \in ScannedSymbols(text),
         \A i \in from .. to : Defines[text[i]] # s
  PROVE  LET old == SubSeq(text, from, to)
         IN  s \in ScannedSymbols(Spliced(text, FindMatch(text, old), Len(old), new))
<1> DEFINE old == SubSeq(text, from, to)
           n == to - from + 1
           at == FindMatch(text, old)
           L == Len(text)
           A == SubSeq(text, 1, at - 1)
           B == SubSeq(text, at + n, L)
<1>1. L \in Nat /\ DOMAIN text = 1 .. L /\ from \in 1 .. L /\ to \in 1 .. L
  OBVIOUS
<1>2. /\ Len(old) = n /\ n \in Nat \ {0} /\ at \in 1 .. L - n + 1
      /\ \A k \in 1 .. n : text[at + k - 1] = text[from + k - 1]
  BY FirstMatch
<1>3. PICK l \in Range(text) : Defines[l] = s /\ s # NoSymbol
  BY DEF ScannedSymbols
<1>4. PICK j \in 1 .. L : text[j] = l
  BY <1>1, <1>3 DEF Range
<1> HIDE DEF at, L, old
<1>5. j < at \/ at + n <= j
  <2> SUFFICES ASSUME at <= j, j < at + n PROVE FALSE
    BY <1>1, <1>2
  <2>1. PICK k \in 1 .. n : k = j - at + 1
    BY <1>1, <1>2
  <2>2. at + k - 1 = j
    BY <1>1, <1>2, <2>1
  <2>3. text[j] = text[from + k - 1]
    BY <1>2, <2>2
  <2>4. from + k - 1 \in from .. to
    BY <1>1
  <2> QED BY <1>3, <1>4, <2>3, <2>4
<1>6. /\ A \in Seq(Lines) /\ Len(A) = IF 1 <= at - 1 THEN at - 1 - 1 + 1 ELSE 0
      /\ \A i \in 1 .. at - 1 - 1 + 1 : A[i] = text[1 + i - 1]
  <2>1. at - 1 \in Int /\ at - 1 <= Len(text)
    BY <1>1, <1>2 DEF L
  <2> QED BY <2>1, Cut
<1>7. /\ B \in Seq(Lines) /\ Len(B) = IF at + n <= L THEN L - (at + n) + 1 ELSE 0
      /\ \A i \in 1 .. L - (at + n) + 1 : B[i] = text[at + n + i - 1]
  <2>1. at + n \in Int /\ 1 <= at + n /\ L \in Int /\ L <= Len(text)
    BY <1>1, <1>2 DEF L
  <2> HIDE DEF n
  <2> QED BY <2>1, Cut
<1> HIDE DEF A, B
<1>8. l \in Range(A) \cup Range(B)
  <2>1. CASE j < at
    <3>1. j \in 1 .. Len(A) /\ A[j] = text[j]
      <4>1. j \in 1 .. at - 1 - 1 + 1 /\ 1 + j - 1 = j
        BY <1>1, <1>2, <2>1
      <4> QED BY <1>1, <1>2, <1>6, <4>1
    <3>2. DOMAIN A = 1 .. Len(A)
      BY <1>6
    <3> QED BY <1>4, <3>1, <3>2 DEF Range
  <2>2. CASE at + n <= j
    <3>1. PICK i \in 1 .. L - (at + n) + 1 : at + n + i - 1 = j
      <4>1. j - (at + n) + 1 \in 1 .. L - (at + n) + 1
            /\ at + n + (j - (at + n) + 1) - 1 = j
        <5> HIDE DEF n
        <5> QED BY <1>1, <1>2, <1>4, <2>2
      <4> QED BY <4>1
    <3>2. DOMAIN B = 1 .. Len(B) /\ Len(B) = L - (at + n) + 1
      <4>1. at + n <= L
        <5> HIDE DEF n
        <5> QED BY <1>1, <1>2, <1>4, <2>2
      <4> QED BY <1>7, <4>1
    <3> QED BY <1>4, <1>7, <3>1, <3>2 DEF Range
  <2> QED BY <1>5, <2>1, <2>2
<1>9. Spliced(text, at, Len(old), new) = A \o new \o B
  BY <1>2 DEF Spliced, A, B, L
<1>10. l \in Range(A \o new \o B)
  <2>1. A \o new \in Seq(Lines) /\ Range(A \o new) = Range(A) \cup Range(new)
    BY <1>6, ConcatRange
  <2> DEFINE C == A \o new
  <2>2. C \in Seq(Lines) /\ B \in Seq(Lines)
    BY <1>7, <2>1
  <2>3. Range(C \o B) = Range(C) \cup Range(B)
    <3> HIDE DEF C
    <3> QED BY <2>2, ConcatRange
  <2> QED BY <1>8, <2>1, <2>3
<1> QED BY <1>3, <1>9, <1>10 DEF ScannedSymbols, at, old

\* A block is read again as it was written, or its REPLACE holds a separator.
LEMMA ReparsedBlock ==
  ASSUME NEW b \in [old : Seq(Lines), new : Seq(Lines)]
  PROVE  \/ Reparsed(b) = b
         \/ Separator \in Range(Reparsed(b).new)
<1> DEFINE whole == b.old \o <<Separator>> \o b.new
           seps == {i \in DOMAIN whole : whole[i] = Separator}
           at == Min(seps)
           m == Len(b.old)
           n == Len(b.new)
           W == Len(whole)
<1>1. b.old \in Seq(Lines) /\ b.new \in Seq(Lines) /\ Separator \in Lines
  BY EditPatchAssumption
<1>2. m \in Nat /\ n \in Nat
  BY <1>1
<1>3. /\ whole \in Seq(Lines) /\ W = m + 1 + n /\ DOMAIN whole = 1 .. m + 1 + n
      /\ \A i \in 1 .. m : whole[i] = b.old[i]
      /\ whole[m + 1] = Separator
      /\ \A i \in 1 .. n : whole[m + 1 + i] = b.new[i]
  <2> DEFINE one == b.old \o <<Separator>>
  <2>1. /\ one \in Seq(Lines) /\ Len(one) = m + 1
        /\ \A i \in 1 .. m : one[i] = b.old[i]
        /\ one[m + 1] = Separator
    BY <1>1, <1>2
  <2>2. whole = one \o b.new
    OBVIOUS
  <2> HIDE DEF one
  <2>3. /\ whole \in Seq(Lines) /\ Len(whole) = m + 1 + n
        /\ \A i \in 1 .. m + 1 : whole[i] = one[i]
        /\ \A i \in 1 .. n : whole[m + 1 + i] = b.new[i]
    <3>1. \A i \in 1 .. Len(one) : (one \o b.new)[i] = one[i]
      BY <1>1, <2>1
    <3>2. \A i \in 1 .. n : (one \o b.new)[Len(one) + i] = b.new[i]
      BY <1>1, <2>1
    <3>3. one \o b.new \in Seq(Lines) /\ Len(one \o b.new) = Len(one) + n
      <4> HIDE DEF whole
      <4> QED BY <1>1, <2>1, ConcatProperties
    <3> HIDE DEF whole, n, m
    <3> QED BY <2>1, <2>2, <3>1, <3>2, <3>3
  <2> HIDE DEF whole, n, m
  <2>4. \A i \in 1 .. m : i \in 1 .. m + 1
    BY <1>2
  <2>5. m + 1 \in 1 .. m + 1
    BY <1>2
  <2>6. \A i \in 1 .. m : whole[i] = b.old[i]
    BY <2>1, <2>3, <2>4
  <2>7. whole[m + 1] = Separator
    BY <2>1, <2>3, <2>5
  <2>8. whole \in Seq(Lines) /\ Len(whole) = m + 1 + n /\ DOMAIN whole = 1 .. m + 1 + n
    BY <2>3
  <2> QED BY <2>3, <2>6, <2>7, <2>8
<1> HIDE DEF whole, m, n
<1>4. m + 1 \in seps /\ seps \in SUBSET Nat
  BY <1>2, <1>3
<1>5. at \in seps /\ at <= m + 1
  <2> HIDE DEF seps
  <2> QED BY <1>4, MinOfNats
<1>6. at \in 1 .. m + 1 + n /\ whole[at] = Separator
  BY <1>3, <1>5
<1>7. Reparsed(b) = [old |-> SubSeq(whole, 1, at - 1), new |-> SubSeq(whole, at + 1, W)]
  BY DEF Reparsed, Block, whole
<1> HIDE DEF at, seps, W
<1>8. CASE at = m + 1
  <2> DEFINE o == SubSeq(whole, 1, at - 1)
             r == SubSeq(whole, at + 1, W)
  <2>1. /\ o \in Seq(Lines) /\ Len(o) = IF 1 <= at - 1 THEN at - 1 - 1 + 1 ELSE 0
        /\ \A i \in 1 .. at - 1 - 1 + 1 : o[i] = whole[1 + i - 1]
    <3>1. at - 1 \in Int /\ at - 1 <= Len(whole)
      BY <1>2, <1>3, <1>8 DEF W
    <3> QED BY <1>3, <3>1, Cut
  <2>2. /\ r \in Seq(Lines) /\ Len(r) = IF at + 1 <= W THEN W - (at + 1) + 1 ELSE 0
        /\ \A i \in 1 .. W - (at + 1) + 1 : r[i] = whole[at + 1 + i - 1]
    <3>1. at + 1 \in Int /\ 1 <= at + 1 /\ W \in Int /\ W <= Len(whole)
      BY <1>2, <1>3, <1>8 DEF W
    <3> QED BY <1>3, <3>1, Cut
  <2> HIDE DEF o, r
  <2>3. Len(o) = m /\ \A i \in 1 .. m : o[i] = whole[i]
    <3>1. at - 1 - 1 + 1 = m /\ \A i \in 1 .. m : 1 + i - 1 = i
      BY <1>2, <1>8
    <3> QED BY <1>2, <1>8, <2>1, <3>1
  <2>4. Len(r) = n /\ \A i \in 1 .. n : r[i] = whole[m + 1 + i]
    <3>1. W - (at + 1) + 1 = n /\ \A i \in 1 .. n : at + 1 + i - 1 = m + 1 + i
      BY <1>2, <1>3, <1>8
    <3> QED BY <1>2, <1>3, <1>8, <2>2, <3>1
  <2>5. o = b.old
    BY <1>1, <1>3, <2>1, <2>3, SeqEqual DEF m
  <2>6. r = b.new
    BY <1>1, <1>3, <2>2, <2>4, SeqEqual DEF n
  <2>7. Reparsed(b) = [old |-> b.old, new |-> b.new]
    BY <1>7, <2>5, <2>6 DEF o, r
  <2> QED BY <2>7
<1>9. CASE at # m + 1
  <2> DEFINE r == SubSeq(whole, at + 1, W)
  <2>1. at + 1 \in 1 .. m + 1 /\ W = m + 1 + n /\ Len(whole) = W
    BY <1>2, <1>3, <1>5, <1>6, <1>9 DEF W
  <2>2. /\ r \in Seq(Lines) /\ Len(r) = IF at + 1 <= W THEN W - (at + 1) + 1 ELSE 0
        /\ \A i \in 1 .. W - (at + 1) + 1 : r[i] = whole[at + 1 + i - 1]
    <3>1. at + 1 \in Int /\ 1 <= at + 1 /\ W \in Int /\ W <= Len(whole)
      BY <1>2, <2>1
    <3> QED BY <1>3, <3>1, Cut
  <2> HIDE DEF r
  <2>3. PICK i \in 1 .. W - (at + 1) + 1 : at + 1 + i - 1 = m + 1
    <3>1. /\ m - at + 1 \in 1 .. W - (at + 1) + 1
          /\ at + 1 + (m - at + 1) - 1 = m + 1
      BY <1>2, <1>6, <2>1
    <3> QED BY <3>1
  <2>4. r[i] = Separator /\ i \in DOMAIN r
    <3>1. Len(r) = W - (at + 1) + 1 /\ DOMAIN r = 1 .. Len(r)
      BY <1>2, <2>1, <2>2
    <3> QED BY <1>3, <2>2, <2>3, <3>1
  <2>5. Separator \in Range(r)
    BY <2>4 DEF Range
  <2> QED BY <1>7, <2>5 DEF r
<1> QED BY <1>8, <1>9

\* Min of a set of one element is that element.
LEMMA OneOf ==
  ASSUME NEW S \in SUBSET Nat, Cardinality(S) = 1
  PROVE  Min(S) \in S
<1>1. S # {}
  BY FS_EmptySet
<1> QED BY <1>1, MinOfNats

\* A body without its old code is a sequence of lines.
LEMMA AfterEditType ==
  ASSUME NEW body \in Seq(Lines)
  PROVE  AfterEdit(body) \in Seq(Lines)
<1> DEFINE seps == {i \in DOMAIN body : body[i] = Separator}
<1>1. CASE Separator \in Range(body)
  <2>1. seps # {} /\ seps \in SUBSET Nat
    BY <1>1 DEF Range
  <2>2. Min(seps) \in Nat
    <3> HIDE DEF seps
    <3> QED BY <2>1, MinOfNats
  <2>3. AfterEdit(body) = SubSeq(body, Min(seps) + 1, Len(body))
    BY <1>1 DEF AfterEdit
  <2> HIDE DEF seps
  <2>4. Min(seps) + 1 \in Int /\ 1 <= Min(seps) + 1 /\ Len(body) \in Int
    BY <2>2
  <2> QED BY <2>3, <2>4, Cut
<1>2. CASE Separator \notin Range(body)
  BY <1>2 DEF AfterEdit
<1> QED BY <1>1, <1>2

\* A block that replaces a part of the code.
CutBlock(code, b) ==
  \E from, to \in DOMAIN code :
    from <= to /\ \E new \in Seq(Lines) : b = <<Block(SubSeq(code, from, to), new)>>

\* The SEARCH of an anchored SITE is the line of its anchor.
LEMMA DeltaBlockCut ==
  ASSUME NEW code \in Seq(Lines), NEW mode, NEW anchor, NEW body \in Seq(Lines)
  PROVE  LET d == DeltaBlock(code, mode, anchor, body)
         IN  d.error = "none" => CutBlock(code, d.blocks)
<1> DEFINE d == DeltaBlock(code, mode, anchor, body)
           at == AnchorLines(code, anchor)
           k == Min(at)
           line == SubSeq(code, k, k)
<1>1. SUFFICES ASSUME d.error = "none" PROVE CutBlock(code, d.blocks)
  OBVIOUS
<1>2. DOMAIN code = 1 .. Len(code) /\ Len(code) \in Nat
  OBVIOUS
<1>3. at \subseteq DOMAIN code
  BY DEF AnchorLines
<1>4. Cardinality(at) = 1
  BY <1>1 DEF DeltaBlock, Refused
<1>5. k \in DOMAIN code /\ k \in 1 .. Len(code)
  <2>1. at \in SUBSET Nat
    BY <1>2, <1>3
  <2> HIDE DEF at
  <2> QED BY <1>2, <1>3, <1>4, <2>1, OneOf
<1> HIDE DEF k, at
<1>6. line \in Seq(Lines)
  <2>1. k \in Int /\ 1 <= k /\ k <= Len(code)
    BY <1>2, <1>5
  <2> QED BY <2>1, Cut
<1>7. \E new \in Seq(Lines) : d.blocks = <<Block(line, new)>>
  <2>1. \/ d.blocks = <<Block(line, line \o body)>>
        \/ d.blocks = <<Block(line, body \o line)>>
        \/ d.blocks = <<Block(line, body)>>
    BY <1>1, <1>4 DEF DeltaBlock, Refused, Blocks, k, at
  <2>2. line \o body \in Seq(Lines) /\ body \o line \in Seq(Lines)
    BY <1>6
  <2> HIDE DEF d, line
  <2> QED BY <2>1, <2>2
<1> HIDE DEF d
<1> QED BY <1>5, <1>7 DEF CutBlock

\* The SEARCH of a SITE that is replaced is its code or a changed part of it.
LEMMA FullBlockCut ==
  ASSUME NEW code \in Seq(Lines), code # <<>>, NEW body \in Seq(Lines)
  PROVE  LET f == FullBlock(code, body)
         IN  f.error = "none" /\ (f.blocks # <<>> => CutBlock(code, f.blocks))
<1> DEFINE f == FullBlock(code, body)
           hunks == Hunks(code, body)
           n == Len(body)
           k == Min(hunks)
           L == Len(code)
<1>1. DOMAIN code = 1 .. L /\ L \in Nat \ {0} /\ n \in Nat
  BY EmptySeq
<1>2. hunks \subseteq 1 .. L - n + 1
  BY <1>1 DEF Hunks
<1>9. hunks # {} => n # 0 /\ n < L
  <2>1. SUFFICES ASSUME ~(n # 0 /\ n < L) PROVE hunks = {}
    OBVIOUS
  <2>2. n = 0 \/ n >= L
    BY <1>1, <2>1
  <2> QED BY <2>2 DEF Hunks
<1> HIDE DEF hunks, L, n
<1>3. CASE SameText(body, code)
  BY <1>3 DEF FullBlock, Blocks
<1>4. CASE ~SameText(body, code) /\ Cardinality(hunks) = 1
  <2>1. hunks \in SUBSET Nat
    BY <1>1, <1>2
  <2>2. k \in hunks
    BY <1>4, <2>1, OneOf
  <2>6. n \in Nat /\ n # 0 /\ n < L /\ L \in Nat /\ k \in 1 .. L - n + 1
    BY <1>1, <1>2, <1>9, <2>2
  <2>3. k \in 1 .. L /\ k + n - 1 \in 1 .. L /\ k <= k + n - 1
    <3> HIDE DEF k
    <3> QED BY <2>6
  <2>4. f = Blocks(<<Block(SubSeq(code, k, k + n - 1), body)>>)
    BY <1>4 DEF FullBlock, hunks, n
  <2> HIDE DEF f, k
  <2>5. CutBlock(code, <<Block(SubSeq(code, k, k + n - 1), body)>>)
    BY <1>1, <2>3 DEF CutBlock
  <2> QED BY <2>4, <2>5 DEF Blocks, f
<1>5. CASE ~SameText(body, code) /\ Cardinality(hunks) # 1
  <2>1. f = Blocks(<<Block(code, body)>>)
    BY <1>5 DEF FullBlock, hunks
  <2>2. code = SubSeq(code, 1, L) /\ 1 \in DOMAIN code /\ L \in DOMAIN code /\ 1 <= L
    BY <1>1, SubSeqFull DEF L
  <2> HIDE DEF f
  <2>3. CutBlock(code, <<Block(code, body)>>)
    BY <2>2 DEF CutBlock
  <2> QED BY <2>1, <2>3 DEF Blocks, f
<1> QED BY <1>3, <1>4, <1>5

\* How a SITE may be refused.
LEMMA SiteErrors ==
  ASSUME NEW text, NEW site, NEW i, NEW focus, NEW windows
  PROVE  SiteBlock(text, site, i, focus, windows).error \in {"none", "E1", "E2"}
BY DEF SiteBlock, DeltaBlock, FullBlock, Refused, Blocks

\* The span of a SITE is a pair of numbers.
LEMMA SpanType ==
  ASSUME NEW text \in Seq(Lines), NEW site \in SiteShape, NEW focus,
         NEW windows \in Seq(Int \X Int)
  PROVE  SiteSpan(text, site, 1, focus, windows)[1] \in Int
         /\ SiteSpan(text, site, 1, focus, windows)[2] \in Int
<1> DEFINE span == SiteSpan(text, site, 1, focus, windows)
<1>1. \/ span = site.span \/ span = NoSpan \/ \E s : span = LocateSymbol(text, s)
      \/ windows # <<>> /\ span = windows[1]
  BY DEF SiteSpan
<1>2. site.span \in Nat \X Nat
  BY DEF SiteShape
<1>3. \A s : LocateSymbol(text, s) = NoSpan
             \/ LocateSymbol(text, s) \in (1 .. Len(text)) \X (1 .. Len(text))
  BY SymbolLines
<1>4. windows # <<>> => windows[1] \in Int \X Int
  BY EmptySeq
<1>5. span \in Int \X Int
  <2> HIDE DEF span
  <2>1. CASE span = site.span
    BY <1>2, <2>1
  <2>2. CASE span = NoSpan
    BY <2>2 DEF NoSpan
  <2>3. ASSUME NEW s, span = LocateSymbol(text, s)
        PROVE  span \in Int \X Int
    <3>1. 1 .. Len(text) \subseteq Int
      OBVIOUS
    <3> QED BY <1>3, <2>3, <3>1 DEF NoSpan
  <2> QED BY <1>1, <1>4, <2>1, <2>2, <2>3
<1> HIDE DEF span
<1>6. span[1] \in Int /\ span[2] \in Int
  BY <1>5
<1> QED BY <1>6 DEF span

\* A part of a part is a part.
LEMMA CutOfCut ==
  ASSUME NEW text \in Seq(Lines), NEW a \in 1 .. Len(text), NEW b \in 1 .. Len(text),
         NEW i \in 1 .. b - a + 1, NEW j \in 1 .. b - a + 1
  PROVE  SubSeq(SubSeq(text, a, b), i, j) = SubSeq(text, a + i - 1, a + j - 1)
BY SubSeqOfSubSeq

\* The block of a SITE replaces lines of the SITE.
LEMMA SiteBlockCut ==
  ASSUME NEW text \in Seq(Lines), NEW site \in SiteShape, NEW focus,
         NEW windows \in Seq(Int \X Int),
         SiteBlock(text, site, 1, focus, windows).error = "none",
         SiteBlock(text, site, 1, focus, windows).blocks # <<>>
  PROVE  LET span == SiteSpan(text, site, 1, focus, windows)
         IN  \E from, to \in DOMAIN text :
               /\ span[1] <= from /\ from <= to /\ to <= span[2]
               /\ span[1] \in DOMAIN text /\ span[2] \in DOMAIN text
               /\ \E new \in Seq(Lines) :
                    SiteBlock(text, site, 1, focus, windows).blocks
                      = <<Block(SubSeq(text, from, to), new)>>
<1> DEFINE span == SiteSpan(text, site, 1, focus, windows)
           a == span[1]
           b == span[2]
           code == Segment(text, span)
           body == AfterEdit(site.body)
           s == SiteBlock(text, site, 1, focus, windows)
           L == Len(text)
<1>1. L \in Nat /\ DOMAIN text = 1 .. L
  OBVIOUS
<1>2. InFile(text, span)
  BY DEF SiteBlock, Refused
<1>3. a \in 1 .. L /\ b \in 1 .. L /\ a <= b
  <2>1. a \in Int /\ b \in Int
    BY SpanType
  <2> HIDE DEF span
  <2> QED BY <1>1, <1>2, <2>1 DEF InFile
<1>4. body \in Seq(Lines)
  BY AfterEditType DEF SiteShape
<1>5. code = SubSeq(text, a, b)
  BY DEF Segment
<1> HIDE DEF a, b, code, body, L
<1>6. code \in Seq(Lines) /\ Len(code) = b - a + 1
  <2>1. a \in Int /\ b \in Int /\ 1 <= a /\ b <= Len(text)
    BY <1>1, <1>3 DEF L
  <2> QED BY <1>3, <1>5, <2>1, Cut
<1>7. code # <<>> /\ DOMAIN code = 1 .. b - a + 1
  BY <1>1, <1>3, <1>6
<1>8. CutBlock(code, s.blocks)
  <2>1. \/ \E mode : s = DeltaBlock(code, mode, site.anchor, body)
        \/ s = FullBlock(code, body)
    BY <1>2 DEF SiteBlock, code, body
  <2> HIDE DEF s
  <2>2. s.error = "none" /\ s.blocks # <<>>
    BY DEF s
  <2> QED BY <1>4, <1>6, <1>7, <2>1, <2>2, DeltaBlockCut, FullBlockCut
<1> HIDE DEF s
<1>9. PICK i \in DOMAIN code, j \in DOMAIN code :
        i <= j /\ \E new \in Seq(Lines) : s.blocks = <<Block(SubSeq(code, i, j), new)>>
  BY <1>8 DEF CutBlock
<1>10. i \in 1 .. b - a + 1 /\ j \in 1 .. b - a + 1
  BY <1>7, <1>9
<1>11. SubSeq(code, i, j) = SubSeq(text, a + i - 1, a + j - 1)
  <2>1. a \in 1 .. Len(text) /\ b \in 1 .. Len(text)
    BY <1>3 DEF L
  <2> HIDE DEF span
  <2>2. SubSeq(SubSeq(text, a, b), i, j) = SubSeq(text, a + i - 1, a + j - 1)
    BY <1>10, <2>1, CutOfCut
  <2> QED BY <1>5, <2>2
<1>12. /\ a + i - 1 \in DOMAIN text /\ a + j - 1 \in DOMAIN text
       /\ a <= a + i - 1 /\ a + i - 1 <= a + j - 1 /\ a + j - 1 <= b
       /\ a \in DOMAIN text /\ b \in DOMAIN text
  BY <1>1, <1>3, <1>9, <1>10
<1> DEFINE from == a + i - 1
           to == a + j - 1
<1>13. \E new \in Seq(Lines) : s.blocks = <<Block(SubSeq(text, from, to), new)>>
  BY <1>9, <1>11
<1>14. /\ from \in DOMAIN text /\ to \in DOMAIN text
       /\ a <= from /\ from <= to /\ to <= b
  BY <1>12
<1> HIDE DEF from, to
<1> QED BY <1>12, <1>13, <1>14 DEF s, a, b

\* One sequence, flattened, is itself.
LEMMA FlattenOne ==
  ASSUME NEW x
  PROVE  FlattenSeq([i \in 1 .. 1 |-> x]) = x
<1> DEFINE q == [i \in 1 .. 1 |-> x]
           Body(h) == [i \in 1 .. Len(q) |-> IF i = 1 THEN q[i] ELSE h[i - 1] \o q[i]]
           flatten == CHOOSE h : h = Body(h)
<1>1. Len(q) = 1 /\ q[1] = x
  <2>1. q \in Seq({x})
    OBVIOUS
  <2> QED BY <2>1
<1>2. FlattenSeq(q) = flatten[Len(q)]
  BY <1>1 DEF FlattenSeq
<1> HIDE DEF q
<1>3. \A h : Body(h) = [i \in 1 .. 1 |-> x]
  BY <1>1
<1>4. \E h : h = Body(h)
  BY <1>3
<1> HIDE DEF Body
<1>5. flatten = Body(flatten)
  BY <1>4
<1>6. flatten = [i \in 1 .. 1 |-> x]
  BY <1>3, <1>5
<1> QED BY <1>1, <1>2, <1>6 DEF q

\* How an answer may be refused.
LEMMA MaterializedErrors ==
  ASSUME NEW text, NEW sites \in Seq(SiteShape), NEW focus, NEW windows
  PROVE  Materialized(text, sites, focus, windows).error \in {"none", "E1", "E2"}
<1> DEFINE block == [i \in DOMAIN sites |-> SiteBlock(text, sites[i], i, focus, windows)]
           failed == {i \in DOMAIN sites : block[i].error # "none"}
<1>1. \A i \in DOMAIN sites : block[i].error \in {"none", "E1", "E2"}
  BY SiteErrors
<1>2. failed # {} => Min(failed) \in DOMAIN sites
  <2>1. failed \in SUBSET Nat /\ failed \subseteq DOMAIN sites
    OBVIOUS
  <2> HIDE DEF failed
  <2> QED BY <2>1, MinOfNats
<1>3. \/ failed # {} /\ Materialized(text, sites, focus, windows) = block[Min(failed)]
      \/ Materialized(text, sites, focus, windows).error \in {"none", "E1"}
  BY DEF Materialized, Refused, Blocks
<1> HIDE DEF failed, block
<1> QED BY <1>1, <1>2, <1>3

\* An answer of one SITE is refused or becomes the block of that SITE.
LEMMA MaterializedOne ==
  ASSUME NEW text, NEW sites \in Seq(SiteShape), Len(sites) = 1, NEW focus, NEW windows,
         Materialized(text, sites, focus, windows).error = "none"
  PROVE  LET s == SiteBlock(text, sites[1], 1, focus, windows)
         IN  /\ s.error = "none" /\ s.blocks # <<>>
             /\ Materialized(text, sites, focus, windows).blocks = s.blocks
<1> DEFINE s == SiteBlock(text, sites[1], 1, focus, windows)
           block == [i \in DOMAIN sites |-> SiteBlock(text, sites[i], i, focus, windows)]
           failed == {i \in DOMAIN sites : block[i].error # "none"}
           blocks == FlattenSeq([i \in DOMAIN sites |-> block[i].blocks])
           all == Materialized(text, sites, focus, windows)
<1>1. DOMAIN sites = 1 .. 1
  OBVIOUS
<1>2. blocks = s.blocks
  <2>1. [i \in DOMAIN sites |-> block[i].blocks] = [i \in 1 .. 1 |-> s.blocks]
    BY <1>1
  <2> HIDE DEF s, block
  <2> QED BY <2>1, FlattenOne
<1>3. failed = {}
  <2>1. SUFFICES ASSUME failed # {} PROVE FALSE
    OBVIOUS
  <2>2. all = block[Min(failed)]
    BY <2>1 DEF Materialized
  <2>3. failed \in SUBSET Nat
    BY <1>1
  <2>4. Min(failed) \in failed
    <3> HIDE DEF failed
    <3> QED BY <2>1, <2>3, MinOfNats
  <2> HIDE DEF block
  <2> QED BY <2>2, <2>4
<1>4. s.error = "none"
  <2>1. 1 \in DOMAIN sites /\ block[1] = s
    BY <1>1
  <2> HIDE DEF s, block
  <2> QED BY <1>3, <2>1
<1>5. all = IF blocks = <<>> THEN Refused("E1") ELSE Blocks(blocks)
  BY <1>3 DEF Materialized
<1> HIDE DEF blocks, s
<1> QED BY <1>2, <1>4, <1>5 DEF Refused, Blocks, s

-----------------------------------------------------------------------------
(* A patch of one block.                                                   *)

\* The text with the one block of a patch replaced.
Replaced(text, b) == Spliced(text, FindMatch(text, b.old), Len(b.old), b.new)

\* The reverse plan of one block, located in the original text.
LEMMA OneBlockReverse ==
  ASSUME NEW text, NEW bs, DOMAIN bs = 1 .. 1, Len(bs) = 1
  PROVE  PlanReverse(text, bs) \in {NotApplied("E2"), Text(Replaced(text, bs[1]))}
<1> DEFINE start == [i \in DOMAIN bs |-> FindMatch(text, bs[i].old)]
           order == Ordered(DOMAIN bs, LAMBDA i, j :
                      start[i] > start[j] \/ (start[i] = start[j] /\ i < j))
           Body(h) == [n \in 0 .. Len(bs) |->
                         IF n = 0 THEN text
                         ELSE Spliced(h[n - 1], start[order[n]], Len(bs[order[n]].old),
                                      bs[order[n]].new)]
           done == CHOOSE h : h = Body(h)
           new == Replaced(text, bs[1])
<1>1. order[1] = 1
  <2> DEFINE Q == {q \in [1 .. Cardinality(DOMAIN bs) -> DOMAIN bs] :
                     /\ Range(q) = DOMAIN bs
                     /\ \A i, j \in DOMAIN q : i < j =>
                          (start[q[i]] > start[q[j]]
                           \/ (start[q[i]] = start[q[j]] /\ q[i] < q[j]))}
  <2>1. Cardinality(DOMAIN bs) = 1
    <3>1. 1 .. 1 = {1}
      OBVIOUS
    <3> QED BY <3>1, FS_Singleton
  <2>2. [i \in 1 .. 1 |-> 1] \in Q
    <3> HIDE DEF start
    <3>1. Range([i \in 1 .. 1 |-> 1]) = 1 .. 1
      BY DEF Range
    <3> QED BY <2>1, <3>1
  <2>3. order \in Q
    <3> HIDE DEF start
    <3> QED BY <2>2 DEF Ordered
  <2>4. order \in [1 .. 1 -> 1 .. 1]
    <3> HIDE DEF start, order
    <3> QED BY <2>1, <2>3
  <2> HIDE DEF order
  <2> QED BY <2>4
<1>2. start[1] = FindMatch(text, bs[1].old)
  OBVIOUS
<1> HIDE DEF start, order
<1>3. \A h : Body(h) = [n \in 0 .. 1 |-> IF n = 0 THEN text
                        ELSE Spliced(h[n - 1], start[order[n]], Len(bs[order[n]].old),
                                     bs[order[n]].new)]
  OBVIOUS
<1> DEFINE g == [n \in 0 .. 1 |-> IF n = 0 THEN text ELSE new]
<1>4. g = Body(g)
  <2>1. g[0] = text
    OBVIOUS
  <2>2. \A n \in 0 .. 1 : n = 0 \/ n = 1
    OBVIOUS
  <2>3. \A n \in 0 .. 1 : Body(g)[n] = g[n]
    BY <1>1, <1>2, <2>1, <2>2 DEF Replaced
  <2> QED BY <1>3, <2>3
<1>5. done = Body(done)
  BY <1>4
<1> HIDE DEF done
<1>6. done[0] = text /\ done[1] = new
  <2>1. done[0] = text
    BY <1>3, <1>5
  <2>2. done[1] = Spliced(done[0], start[order[1]], Len(bs[order[1]].old), bs[order[1]].new)
    BY <1>3, <1>5
  <2> QED BY <1>1, <1>2, <2>1, <2>2 DEF Replaced
<1>7. PlanReverse(text, bs) \in {NotApplied("E2"), Text(done[Len(bs)])}
  BY DEF PlanReverse, done, start, order
<1> QED BY <1>6, <1>7

\* The sequential plan of one block is the same.
LEMMA OneBlockSequential ==
  ASSUME NEW text, NEW bs, DOMAIN bs = 1 .. 1, Len(bs) = 1
  PROVE  PlanSequential(text, bs) \in {NotApplied("E2"), Text(Replaced(text, bs[1]))}
<1> DEFINE Body(h) == [n \in 0 .. Len(bs) |->
                         IF n = 0 THEN text
                         ELSE Spliced(h[n - 1], FindMatch(h[n - 1], bs[n].old),
                                      Len(bs[n].old), bs[n].new)]
           left == CHOOSE h : h = Body(h)
           new == Replaced(text, bs[1])
           g == [n \in 0 .. 1 |-> IF n = 0 THEN text ELSE new]
<1>1. g = Body(g)
  <2>1. g[0] = text
    OBVIOUS
  <2>2. \A n \in 0 .. 1 : n = 0 \/ n = 1
    OBVIOUS
  <2>3. \A n \in 0 .. 1 : Body(g)[n] = g[n]
    BY <2>1, <2>2 DEF Replaced
  <2> QED BY <2>3
<1>2. left = Body(left)
  BY <1>1
<1>3. PlanSequential(text, bs) \in {NotApplied("E2"), Text(left[Len(bs)])}
  BY DEF PlanSequential
<1> HIDE DEF left
<1>4. left[0] = text
  BY <1>2
<1>5. left[1] = Spliced(left[0], FindMatch(left[0], bs[1].old), Len(bs[1].old), bs[1].new)
  BY <1>2
<1> QED BY <1>3, <1>4, <1>5 DEF Replaced

\* How a patch may fail to apply.
LEMMA ApplyErrors ==
  ASSUME NEW text, NEW bs, NEW seq
  PROVE  ApplyPatch(text, bs, seq).error \in {"none", "E1", "E2"}
<1>1. \A parsed : PlanReverse(text, parsed).error \in {"none", "E2"}
  BY DEF PlanReverse, NotApplied, Text
<1>2. \A parsed : PlanSequential(text, parsed).error \in {"none", "E2"}
  BY DEF PlanSequential, NotApplied, Text
<1> QED BY <1>1, <1>2 DEF ApplyPatch, NotApplied

\* A patch of one block keeps every definition that is not in the lines it names.
LEMMA OneBlockKeeps ==
  ASSUME NEW text \in Seq(Lines), NEW from \in DOMAIN text, NEW to \in DOMAIN text,
         from <= to, NEW new \in Seq(Lines), NEW seq, NEW s \in ScannedSymbols(text),
         \A i \in from .. to : Defines[text[i]] # s,
         ApplyPatch(text, <<Block(SubSeq(text, from, to), new)>>, seq).error = "none"
  PROVE  s \in ScannedSymbols(
                 ApplyPatch(text, <<Block(SubSeq(text, from, to), new)>>, seq).text)
<1> DEFINE b == Block(SubSeq(text, from, to), new)
           bs == <<b>>
           parsed == [i \in DOMAIN bs |-> Reparsed(bs[i])]
           plan == IF seq THEN PlanSequential(text, parsed) ELSE PlanReverse(text, parsed)
           result == ApplyPatch(text, bs, seq)
<1>1. SubSeq(text, from, to) \in Seq(Lines) /\ b \in [old : Seq(Lines), new : Seq(Lines)]
  <2>1. SubSeq(text, from, to) \in Seq(Lines)
    <3>1. from \in Int /\ 1 <= from /\ to \in Int /\ to <= Len(text)
      OBVIOUS
    <3> QED BY <3>1, Cut
  <2> QED BY <2>1 DEF Block
<1>2. DOMAIN bs = 1 .. 1 /\ bs[1] = b
  OBVIOUS
<1> HIDE DEF b
<1>3. Separator \notin Range(Reparsed(b).new) /\ result = plan
  <2>1. 1 \in DOMAIN parsed /\ parsed[1] = Reparsed(b)
    BY <1>2
  <2>2. result.error = "none"
    BY DEF b
  <2>3. ~(\E i \in DOMAIN parsed : Separator \in Range(parsed[i].new))
    <3> HIDE DEF parsed
    <3> QED BY <2>2 DEF ApplyPatch, NotApplied, parsed
  <2>4. result = plan
    BY <2>2 DEF ApplyPatch, NotApplied
  <2> QED BY <2>1, <2>3, <2>4
<1>4. Reparsed(b) = b
  BY <1>1, <1>3, ReparsedBlock
<1>5. DOMAIN parsed = 1 .. 1 /\ Len(parsed) = 1 /\ parsed[1] = b
  <2>1. parsed = [i \in 1 .. 1 |-> b]
    BY <1>2, <1>4
  <2>2. [i \in 1 .. 1 |-> b] \in Seq({b})
    OBVIOUS
  <2> HIDE DEF parsed
  <2> QED BY <2>1, <2>2
<1> HIDE DEF parsed, bs
<1>6. plan \in {NotApplied("E2"), Text(Replaced(text, b))}
  BY <1>5, OneBlockReverse, OneBlockSequential
<1> HIDE DEF plan
<1>7. result.text = Replaced(text, b)
  <2>1. result.error = "none"
    BY DEF b, bs
  <2> HIDE DEF result
  <2> QED BY <1>3, <1>6, <2>1 DEF NotApplied, Text
<1>8. s \in ScannedSymbols(Replaced(text, b))
  BY SpliceKeeps DEF Replaced, Block, b
<1> QED BY <1>7, <1>8 DEF bs, b

-----------------------------------------------------------------------------
(* The invariant.                                                          *)

\* Phases in which there is a patch.
Editing == {"enter", "apply", "validate", "rollback", "committed"}

PatchFields == {"file", "blocks", "written", "sites", "outside", "meant", "plain"}

\* The typed part.
TypedInv ==
  /\ EditTurnTypeOK
  /\ StreamInv
  /\ disk = [f \in Files |-> disk[f]]
  /\ before \in [Files -> Seq(Lines)]
  /\ tries = 0 <=> phase = "idle"
  /\ phase \in Editing => DOMAIN patch = PatchFields /\ patch.file \in Files

\* What the call names, and what the model is shown.
ShownInv ==
  IF phase = "idle" THEN ~moved
  ELSE /\ call.file \in Files /\ call.other \in Files
       /\ call.spans \in Seq(Int \X Int) /\ call.otherSpans \in Seq(Int \X Int)
       /\ \A w \in Range(pack) : w.file \in Files /\ Truthful(w, before[w.file])
       /\ NothingHidden

\* As long as the user does not save, only the file of the patch differs from what
\* it was, its checkpoint is what it was, and what was written is there.
DiskInv ==
  ~moved =>
    /\ phase \in {"idle", "generate", "enter", "apply", "failed"} => disk = before
    /\ phase \in {"apply", "validate", "rollback"} => saved = before[patch.file]
    /\ phase \in Editing => \A f \in Files : f # patch.file => disk[f] = before[f]
    /\ phase \in {"validate", "committed"} => disk[patch.file] = patch.written

\* A patch of one block whose SEARCH is a part of the file, where no symbol
\* outside of the SITE is defined.
OneSitePatch(text, p) ==
  \E from, to \in DOMAIN text :
    /\ from <= to
    /\ \E new \in Seq(Lines) : p.blocks = <<Block(SubSeq(text, from, to), new)>>
    /\ \A i \in from .. to : Defines[text[i]] \notin p.outside

\* The definitions outside of the one SITE.
KeepInv ==
  ~moved =>
    /\ phase \in {"enter", "apply"} /\ patch.outside # {} =>
         /\ patch.outside \subseteq ScannedSymbols(before[patch.file])
         /\ OneSitePatch(before[patch.file], patch)
    /\ phase \in {"validate", "committed"} =>
         patch.outside \subseteq ScannedSymbols(patch.written)
    /\ phase = "committed" => WellFormed(patch.written)

TurnInv == TypedInv /\ ShownInv /\ DiskInv /\ KeepInv

\* It holds before the call.
LEMMA InitTurn ==
  ASSUME Init
  PROVE  TurnInv
<1>1. disk \in [Files -> Seq(Lines)] /\ before = disk /\ Attempts \in Nat
  BY EditTurnAssumption DEF Init
<1>2. /\ phase = "idle" /\ tries = 0 /\ patch = NoPatch /\ ~moved /\ error = "none"
      /\ tests = "SKIPPED" /\ sequential \in BOOLEAN /\ moved \in BOOLEAN
  BY DEF Init
<1>3. StreamInv /\ stream.stage = "off"
  <2>1. stream = NoStream
    BY DEF Init
  <2>2. stream = [stage |-> "off", elapsed |-> 0, idle |-> 0, events |-> 0, said |-> FALSE]
    BY <2>1 DEF NoStream
  <2>3. stream \in Streams
    BY <2>2, Timeouts DEF Streams
  <2> QED BY <2>2, <2>3, Timeouts DEF StreamInv, FirstContentDeadline
<1>4. EditTurnTypeOK
  BY <1>1, <1>2, <1>3 DEF EditTurnTypeOK, StreamInv, Errors, TestVerdicts
<1>5. TypedInv
  BY <1>1, <1>2, <1>3, <1>4 DEF TypedInv, Editing
<1>6. ShownInv
  BY <1>2 DEF ShownInv
<1>7. DiskInv /\ KeepInv
  BY <1>1, <1>2 DEF DiskInv, KeepInv, Editing
<1> QED BY <1>5, <1>6, <1>7 DEF TurnInv

\* Facts about the state, by name.
LEMMA TurnFacts ==
  ASSUME TypedInv
  PROVE  /\ Attempts \in Nat \ {0} /\ tries \in 0 .. Attempts
         /\ DOMAIN disk = Files
         /\ sequential \in BOOLEAN /\ moved \in BOOLEAN
         /\ error \in Errors /\ tests \in TestVerdicts
BY EditTurnAssumption DEF TypedInv, EditTurnTypeOK

\* The typed part, from what changes.
LEMMA TypedNext ==
  ASSUME TypedInv, StreamInv',
         disk' = [f \in Files |-> disk'[f]],
         UNCHANGED <<sequential, before>>,
         phase' \in {"generate", "enter", "apply", "validate", "rollback"} \cup Ended,
         tries' \in 1 .. Attempts,
         stream'.stage = "off" => phase' # "generate",
         error' \in Errors, tests' \in TestVerdicts, moved' \in BOOLEAN,
         IF phase' \in Editing THEN DOMAIN patch' = PatchFields /\ patch'.file \in Files
         ELSE patch' = NoPatch
  PROVE  TypedInv'
<1>1. Attempts \in Nat \ {0}
  BY EditTurnAssumption
<1>2. tries' \in 0 .. Attempts /\ tries' # 0 /\ phase' # "idle"
  BY <1>1 DEF Ended
<1>3. DOMAIN disk' = Files
  <2> DEFINE d == [f \in Files |-> disk'[f]]
  <2>1. DOMAIN d = Files /\ disk' = d
    OBVIOUS
  <2> HIDE DEF d
  <2> QED BY <2>1
<1>4. patch' = NoPatch <=> phase' \in {"idle", "generate", "failed"}
  <2>1. PatchFields # {} /\ DOMAIN NoPatch = {}
    BY DEF PatchFields, NoPatch
  <2>2. phase' \in Editing <=> phase' \notin {"idle", "generate", "failed"}
    BY DEF Editing, Ended
  <2> QED BY <2>1, <2>2
<1>5. EditTurnTypeOK'
  <2>1. sequential' \in BOOLEAN
    BY TurnFacts
  <2> QED BY <1>2, <1>3, <1>4, <2>1 DEF EditTurnTypeOK, StreamInv
<1> QED BY <1>2, <1>5 DEF TypedInv

\* Another attempt, or the end of the call.
LEMMA RetryStep ==
  ASSUME TypedInv, phase # "idle", NEW class \in Errors, Retry(class)
  PROVE  /\ phase' \in {"generate", "failed"} /\ patch' = NoPatch
         /\ tries' \in 1 .. Attempts
         /\ \/ tries' = tries + 1 /\ phase' = "generate"
            \/ tries' = tries /\ phase' = "failed"
         /\ StreamInv' /\ (stream'.stage = "off" => phase' # "generate")
         /\ error' \in Errors
<1>1. tries \in 1 .. Attempts /\ Attempts \in Nat \ {0}
  BY TurnFacts DEF TypedInv
<1>2. CASE class \in {"E1", "E2", "E3"} /\ tries < Attempts
  <2>1. phase' = "generate" /\ tries' = tries + 1 /\ stream' = NewStream
        /\ patch' = NoPatch /\ error' = class
    BY <1>2 DEF Retry
  <2>2. tries' \in 1 .. Attempts
    BY <1>1, <1>2, <2>1
  <2> QED BY <2>1, <2>2, NewStreamInv
<1>3. CASE ~(class \in {"E1", "E2", "E3"} /\ tries < Attempts)
  <2>1. phase' = "failed" /\ tries' = tries /\ stream' = NoStream
        /\ patch' = NoPatch /\ error' = class
    BY <1>3 DEF Retry
  <2> QED BY <1>1, <2>1, NewStreamInv
<1> QED BY <1>2, <1>3

-----------------------------------------------------------------------------
(* The call and the stream.                                                *)

\* Spans that are admitted are spans of lines.
LEMMA AdmittedSpans ==
  ASSUME NEW text, NEW spans \in Seq(Int \X Int), \A s \in Range(spans) : SpanAdmitted(text, s)
  PROVE  spans \in Seq(LineSpans)
<1>1. DOMAIN spans = 1 .. Len(spans) /\ Len(spans) \in Nat
      /\ spans = [i \in 1 .. Len(spans) |-> spans[i]]
  OBVIOUS
<1>2. \A i \in 1 .. Len(spans) : spans[i] \in LineSpans
  <2> TAKE i \in 1 .. Len(spans)
  <2>1. spans[i] \in Int \X Int /\ SpanAdmitted(text, spans[i])
    BY <1>1 DEF Range
  <2>2. /\ spans[i] = <<spans[i][1], spans[i][2]>>
        /\ spans[i][1] \in Int /\ spans[i][2] \in Int
    BY <2>1
  <2>3. 1 <= spans[i][1] /\ spans[i][1] <= spans[i][2]
    BY <2>1 DEF SpanAdmitted
  <2>4. spans[i][1] \in Nat \ {0} /\ spans[i][2] \in Nat
    BY <2>2, <2>3
  <2> QED BY <2>2, <2>4 DEF LineSpans
<1>3. [i \in 1 .. Len(spans) |-> spans[i]] \in Seq(LineSpans)
  BY <1>1, <1>2
<1> QED BY <1>1, <1>3

\* The call: what the pack shows is what the files hold.
LEMMA CallKeeps ==
  ASSUME TurnInv, NEW c \in Calls, Call(c)
  PROVE  TurnInv'
<1> DEFINE focus == SanitizedFocus(disk[c.file], c.focus)
           text == disk[c.file]
           otherText == disk[c.other]
           p == ContextPack(c.file, text, c.spans, focus, c.cached, c.other, otherText,
                            c.otherSpans)
<1>1. /\ phase = "idle" /\ ~moved /\ disk = before /\ disk \in [Files -> Seq(Lines)]
  BY DEF Call, TurnInv, TypedInv, ShownInv, DiskInv
<1>2. /\ c.file \in Files /\ c.other \in Files
      /\ c.spans \in Seq(Int \X Int) /\ c.otherSpans \in Seq(Int \X Int)
      /\ c.cached \in Seq(LineSpans) /\ DOMAIN c = DOMAIN [c EXCEPT !.focus = focus]
      /\ [c EXCEPT !.focus = focus].file = c.file
      /\ [c EXCEPT !.focus = focus].other = c.other
      /\ [c EXCEPT !.focus = focus].spans = c.spans
      /\ [c EXCEPT !.focus = focus].otherSpans = c.otherSpans
  <2>1. c \in CallShape
    BY EditTurnAssumption
  <2> HIDE DEF focus
  <2> QED BY <2>1 DEF CallShape, LineSpans
<1>3. /\ call' = [c EXCEPT !.focus = focus] /\ pack' = p
      /\ phase' = "generate" /\ tries' = 1 /\ stream' = NewStream /\ before' = disk
      /\ disk' = disk /\ UNCHANGED <<sequential, patch, saved, error, tests, moved>>
      /\ \A s \in Range(c.spans) : SpanAdmitted(text, s)
      /\ \A s \in Range(c.otherSpans) : SpanAdmitted(otherText, s)
  BY DEF Call, Admitted
<1>4. c.spans \in Seq(LineSpans) /\ c.otherSpans \in Seq(LineSpans)
  BY <1>2, <1>3, AdmittedSpans
<1>5. text \in Seq(Lines) /\ otherText \in Seq(Lines)
  BY <1>1, <1>2
<1>6. /\ \A w \in Range(p) : \/ w.file = c.file /\ Truthful(w, text)
                             \/ w.file = c.other /\ Truthful(w, otherText)
      /\ \A s \in Range(c.spans) : Shows(p, c.file, text, s)
  <2> HIDE DEF text, otherText, focus
  <2> QED BY <1>2, <1>4, <1>5, PackShows
<1> HIDE DEF focus, p
<1>7. TypedInv'
  <2>1. StreamInv' /\ stream'.stage # "off"
    BY <1>3, NewStreamInv
  <2>2. patch = NoPatch /\ patch' = patch
    BY <1>1, <1>3 DEF TurnInv, TypedInv, EditTurnTypeOK
  <2>3. tries' \in 1 .. Attempts
    BY <1>3, TurnFacts DEF TurnInv
  <2>4. disk' = [f \in Files |-> disk'[f]]
    BY <1>3 DEF TurnInv, TypedInv
  <2>5. before' = before
    BY <1>1, <1>3
  <2>6. phase' \notin Editing
    BY <1>3 DEF Editing
  <2> QED BY <1>3, <2>1, <2>2, <2>3, <2>4, <2>5, <2>6, TurnFacts, TypedNext DEF TurnInv
<1>8. ShownInv'
  <2>1. \A w \in Range(p) : w.file \in Files /\ Truthful(w, disk[w.file])
    BY <1>2, <1>6
  <2>2. call'.file = c.file /\ call'.other = c.other /\ call'.spans = c.spans
        /\ call'.otherSpans = c.otherSpans
    BY <1>2, <1>3
  <2>3. NothingHidden'
    BY <1>3, <1>6, <2>2 DEF NothingHidden, Shows
  <2> QED BY <1>2, <1>3, <2>1, <2>2, <2>3 DEF ShownInv
<1>9. DiskInv' /\ KeepInv'
  BY <1>3 DEF DiskInv, KeepInv, Editing
<1> QED BY <1>7, <1>8, <1>9 DEF TurnInv

\* Steps that change nothing the model was shown.
LEMMA ShownNext ==
  ASSUME ShownInv, UNCHANGED <<call, pack, before>>, phase # "idle", phase' # "idle"
  PROVE  ShownInv'
<1>1. call' = call /\ pack' = pack /\ before' = before
  OBVIOUS
<1>2. NothingHidden' = NothingHidden
  BY <1>1 DEF NothingHidden
<1> QED BY <1>1, <1>2 DEF ShownInv

\* Steps within an attempt without a patch, or from it to another one.
LEMMA GenerateKeeps ==
  ASSUME TurnInv, phase = "generate",
         UNCHANGED <<rest, disk, tests, moved>>, StreamInv',
         phase' \in {"generate", "failed"}, patch' = NoPatch, tries' \in 1 .. Attempts,
         stream'.stage = "off" => phase' # "generate", error' \in Errors,
         ~moved => disk = before
  PROVE  TurnInv'
<1>1. TypedInv'
  <2>1. disk' = [f \in Files |-> disk'[f]]
    BY DEF TurnInv, TypedInv
  <2>2. phase' \notin Editing
    BY DEF Editing
  <2>3. UNCHANGED <<sequential, before>> /\ tests' \in TestVerdicts /\ moved' \in BOOLEAN
    BY TurnFacts DEF TurnInv, rest
  <2> QED BY <2>1, <2>2, <2>3, TypedNext DEF TurnInv, Ended
<1>2. ShownInv'
  BY ShownNext DEF TurnInv, rest
<1>3. DiskInv' /\ KeepInv'
  BY DEF DiskInv, KeepInv, Editing, rest
<1> QED BY <1>1, <1>2, <1>3 DEF TurnInv

\* The stream, which also advances.
LEMMA StreamKeeps ==
  ASSUME TurnInv, Wait \/ Receive \/ StreamFails
  PROVE  TurnInv' /\ StreamAdvances
<1>1. /\ phase = "generate" /\ phase' = phase
      /\ UNCHANGED <<rest, disk, tries, patch, error, tests, moved>>
  BY DEF Wait, Receive, StreamFails
<1>2. StreamInv' /\ StreamAdvances /\ stream'.stage # "off"
  <2>1. StreamInv
    BY DEF TurnInv, TypedInv
  <2>2. \/ Tick
        \/ Connected \/ EmptyEvent \/ Reason \/ Content \/ ToolDelta \/ EndOfStream
        \/ TimeOut \/ Break
    BY DEF Wait, Receive, StreamFails
  <2> QED BY <2>1, <2>2, TickAdvances, ReceiveAdvances, FailureAdvances
<1>3. patch' = NoPatch /\ (~moved => disk = before)
  BY <1>1 DEF TurnInv, TypedInv, EditTurnTypeOK, DiskInv
<1>4. tries' \in 1 .. Attempts /\ error' \in Errors
  BY <1>1, TurnFacts DEF TurnInv, TypedInv
<1> QED BY <1>1, <1>2, <1>3, <1>4, GenerateKeeps

\* A timeout or an exception ends the call without an edit.
LEMMA GenerateFailsKeeps ==
  ASSUME TurnInv, GenerateFails
  PROVE  TurnInv'
<1>1. /\ phase = "generate" /\ phase' = "failed"
      /\ UNCHANGED <<rest, disk, tries, stream, patch, error, tests, moved>>
  BY DEF GenerateFails
<1>2. StreamInv'
  BY <1>1 DEF TurnInv, TypedInv, StreamInv, FirstContentDeadline
<1>3. patch' = NoPatch /\ (~moved => disk = before)
  BY <1>1 DEF TurnInv, TypedInv, EditTurnTypeOK, DiskInv
<1>4. tries' \in 1 .. Attempts /\ error' \in Errors
  BY <1>1, TurnFacts DEF TurnInv, TypedInv
<1> QED BY <1>1, <1>2, <1>3, <1>4, GenerateKeeps

\* An answer that is no edit.
LEMMA BadAnswerKeeps ==
  ASSUME TurnInv, BadAnswer
  PROVE  TurnInv'
<1>1. phase = "generate" /\ Retry("E1") /\ UNCHANGED <<rest, disk, tests, moved>>
  BY DEF BadAnswer
<1>2. TypedInv /\ (~moved => disk = before)
  BY <1>1 DEF TurnInv, DiskInv
<1>3. /\ phase' \in {"generate", "failed"} /\ patch' = NoPatch /\ tries' \in 1 .. Attempts
      /\ StreamInv' /\ (stream'.stage = "off" => phase' # "generate") /\ error' \in Errors
  <2>1. "E1" \in Errors /\ phase # "idle"
    BY <1>1 DEF Errors
  <2> QED BY <1>1, <1>2, <2>1, RetryStep
<1> QED BY <1>1, <1>2, <1>3, GenerateKeeps

-----------------------------------------------------------------------------
(* The answer.                                                             *)

\* The errors of an answer.
LEMMA PreparedErrors ==
  ASSUME NEW a \in Answers
  PROVE  Prepared(a).error \in {"none", "E1", "E2"}
<1>1. a.sites \in Seq(SiteShape)
  BY EditTurnAssumption DEF AnswerShape
<1> QED BY <1>1, MaterializedErrors DEF Prepared, Blocks

\* The patch of an answer with one SITE.
LEMMA OneSiteAnswer ==
  ASSUME TurnInv, ~moved, phase = "generate", NEW a \in Answers,
         Prepared(a).error = "none", NewPatch(a).outside # {}
  PROVE  /\ NewPatch(a).outside \subseteq ScannedSymbols(before[a.file])
         /\ OneSitePatch(before[a.file], NewPatch(a))
<1> DEFINE p == NewPatch(a)
           text == before[a.file]
           windows == Windows(a.file)
           site == a.sites[1]
           span == SiteSpan(text, site, 1, call.focus, windows)
           code == Segment(text, span)
           s == SiteBlock(text, site, 1, call.focus, windows)
<1>1. /\ a.file \in Files /\ a.sites \in Seq(SiteShape)
      /\ (a.sites = <<>> \/ a.blocks = <<>>)
  BY EditTurnAssumption DEF AnswerShape
<1>2. disk = before /\ text \in Seq(Lines) /\ disk[a.file] = text
  BY <1>1 DEF TurnInv, TypedInv, DiskInv
<1>3. Len(a.sites) = 1
  BY DEF NewPatch
<1>4. site \in SiteShape /\ a.sites # <<>> /\ a.blocks = <<>>
  BY <1>1, <1>3, EmptySeq
<1>5. windows \in Seq(Int \X Int)
  BY DEF TurnInv, ShownInv, Windows
<1>6. p.outside = ScannedSymbols(text) \ ScannedSymbols(code)
  BY <1>2, <1>3 DEF NewPatch
<1>7. Prepared(a) = Materialized(text, a.sites, call.focus, windows)
  BY <1>2, <1>4 DEF Prepared
<1>8. /\ s.error = "none" /\ s.blocks # <<>> /\ Prepared(a).blocks = s.blocks
  <2> HIDE DEF text, windows
  <2> QED BY <1>1, <1>3, <1>7, MaterializedOne
<1>9. p.blocks = s.blocks
  BY <1>8 DEF NewPatch
<1> HIDE DEF p, text, windows, site
<1>10. PICK from, to \in DOMAIN text :
         /\ span[1] <= from /\ from <= to /\ to <= span[2]
         /\ span[1] \in DOMAIN text /\ span[2] \in DOMAIN text
         /\ \E new \in Seq(Lines) : s.blocks = <<Block(SubSeq(text, from, to), new)>>
  BY <1>2, <1>4, <1>5, <1>8, SiteBlockCut
<1> HIDE DEF s, span
<1>11. ASSUME NEW i \in from .. to
       PROVE  Defines[text[i]] \notin p.outside
  <2>1. /\ DOMAIN text = 1 .. Len(text) /\ Len(text) \in Nat
        /\ from \in 1 .. Len(text) /\ to \in 1 .. Len(text)
        /\ span[1] \in 1 .. Len(text) /\ span[2] \in 1 .. Len(text)
    BY <1>2, <1>10
  <2>2. i \in Int /\ span[1] <= i /\ i <= span[2]
    BY <1>10, <2>1
  <2>3. /\ code \in Seq(Lines) /\ Len(code) = span[2] - span[1] + 1
        /\ \A k \in 1 .. span[2] - span[1] + 1 : code[k] = text[span[1] + k - 1]
    <3> DEFINE x == span[1]
               y == span[2]
    <3>1. code = SubSeq(text, x, y)
      BY DEF Segment
    <3> HIDE DEF x, y, code
    <3>2. x \in Int /\ 1 <= x /\ y \in Int /\ y <= Len(text) /\ x <= y
      BY <2>1, <2>2 DEF x, y
    <3>3. /\ code \in Seq(Lines) /\ Len(code) = y - x + 1
          /\ \A k \in 1 .. y - x + 1 : code[k] = text[x + k - 1]
      BY <1>2, <3>1, <3>2, Cut
    <3> QED BY <3>3 DEF x, y
  <2>4. PICK k \in 1 .. span[2] - span[1] + 1 : span[1] + k - 1 = i
    <3>1. i - span[1] + 1 \in 1 .. span[2] - span[1] + 1
          /\ span[1] + (i - span[1] + 1) - 1 = i
      BY <2>1, <2>2
    <3> QED BY <3>1
  <2>5. text[i] \in Range(code)
    <3>1. DOMAIN code = 1 .. span[2] - span[1] + 1
      BY <2>3
    <3> HIDE DEF code
    <3> QED BY <2>3, <2>4, <3>1 DEF Range
  <2> HIDE DEF code
  <2> QED BY <1>6, <2>5 DEF ScannedSymbols
<1>12. OneSitePatch(text, p)
  BY <1>9, <1>10, <1>11 DEF OneSitePatch
<1>13. p.outside \subseteq ScannedSymbols(text)
  BY <1>6
<1> QED BY <1>12, <1>13 DEF p, text

\* An answer that can be used, or is refused when the SITEs are read.
LEMMA AnswerKeeps ==
  ASSUME TurnInv, NEW a \in Answers, Answer(a)
  PROVE  TurnInv'
<1>1. /\ phase = "generate" /\ UNCHANGED <<rest, disk, saved, tests, moved>>
  BY DEF Answer
<1>2. TypedInv /\ (~moved => disk = before)
  BY <1>1 DEF TurnInv, DiskInv
<1>3. CASE Prepared(a).error # "none"
  <2>1. Retry(Prepared(a).error) /\ Prepared(a).error \in Errors
    BY <1>3, PreparedErrors DEF Answer, Errors
  <2>2. /\ phase' \in {"generate", "failed"} /\ patch' = NoPatch /\ tries' \in 1 .. Attempts
        /\ StreamInv' /\ (stream'.stage = "off" => phase' # "generate") /\ error' \in Errors
    <3>1. phase # "idle"
      BY <1>1
    <3> QED BY <1>2, <2>1, <3>1, RetryStep
  <2> QED BY <1>1, <1>2, <2>2, GenerateKeeps
<1>4. CASE Prepared(a).error = "none"
  <2>1. /\ phase' = "enter" /\ patch' = NewPatch(a) /\ stream' = NoStream
        /\ tries' = tries /\ error' = error
    BY <1>4 DEF Answer
  <2>2. a.file \in Files
    BY EditTurnAssumption DEF AnswerShape
  <2>3. DOMAIN patch' = PatchFields /\ patch'.file = a.file
    BY <2>1 DEF NewPatch, PatchFields
  <2>4. TypedInv'
    <3>1. StreamInv'
      BY <2>1, NewStreamInv
    <3>2. phase' \in Editing
      BY <2>1 DEF Editing
    <3>3. disk' = [f \in Files |-> disk'[f]]
      BY <1>1, <1>2 DEF TypedInv
    <3>4. tries' \in 1 .. Attempts
      BY <1>1, <2>1, TurnFacts DEF TurnInv, TypedInv
    <3> QED BY <1>1, <1>2, <2>1, <2>2, <2>3, <3>1, <3>2, <3>3, <3>4, TurnFacts, TypedNext
        DEF rest
  <2>5. ShownInv'
    BY <1>1, <2>1, ShownNext DEF TurnInv, rest
  <2>6. DiskInv'
    BY <1>1, <1>2, <2>1 DEF DiskInv, rest
  <2>7. KeepInv'
    <3>1. SUFFICES ASSUME ~moved, NewPatch(a).outside # {}
                   PROVE  /\ NewPatch(a).outside \subseteq ScannedSymbols(before[a.file])
                          /\ OneSitePatch(before[a.file], NewPatch(a))
      BY <1>1, <2>1, <2>3 DEF KeepInv, rest
    <3> QED BY <1>1, <1>4, <3>1, OneSiteAnswer
  <2> QED BY <2>4, <2>5, <2>6, <2>7 DEF TurnInv
<1> QED BY <1>3, <1>4

-----------------------------------------------------------------------------
(* The transaction and the user.                                           *)

\* The checkpoint is the file as the call found it.
LEMMA EnterKeeps ==
  ASSUME TurnInv, Enter
  PROVE  TurnInv'
<1>1. /\ phase = "enter" /\ phase' = "apply" /\ saved' = disk[patch.file]
      /\ UNCHANGED <<rest, disk, tries, stream, patch, error, tests, moved>>
  BY DEF Enter
<1>2. phase \in Editing /\ phase' \in Editing
  BY <1>1 DEF Editing
<1>3. TypedInv'
  <2>1. StreamInv'
    BY <1>1 DEF TurnInv, TypedInv, StreamInv, FirstContentDeadline
  <2>2. disk' = [f \in Files |-> disk'[f]]
    BY <1>1 DEF TurnInv, TypedInv
  <2>3. tries' \in 1 .. Attempts
    BY <1>1, TurnFacts DEF TurnInv, TypedInv
  <2>4. DOMAIN patch' = PatchFields /\ patch'.file \in Files
    BY <1>1, <1>2 DEF TurnInv, TypedInv
  <2> QED BY <1>1, <1>2, <2>1, <2>2, <2>3, <2>4, TurnFacts, TypedNext DEF TurnInv, rest
<1>4. ShownInv'
  BY <1>1, ShownNext DEF TurnInv, rest
<1>5. DiskInv' /\ KeepInv'
  BY <1>1 DEF TurnInv, DiskInv, KeepInv, rest
<1> QED BY <1>3, <1>4, <1>5 DEF TurnInv

\* The write: only the file of the patch changes, and what a single block does
\* not name is still defined there.
LEMMA ApplyKeeps ==
  ASSUME TurnInv, Apply
  PROVE  TurnInv'
<1> DEFINE new == ApplyPatch(disk[patch.file], patch.blocks, sequential)
           file == patch.file
<1>1. /\ phase = "apply"
      /\ UNCHANGED <<rest, tries, stream, saved, tests, moved>>
      /\ IF new.error # "none"
         THEN phase' = "rollback" /\ error' = new.error /\ UNCHANGED <<disk, patch>>
         ELSE /\ disk' = [disk EXCEPT ![file] = new.text]
              /\ patch' = [patch EXCEPT !.written = new.text]
              /\ phase' = "validate"
              /\ UNCHANGED error
  BY DEF Apply
<1>2. phase \in Editing /\ phase' \in Editing
  BY <1>1 DEF Editing
<1>3. /\ DOMAIN patch = PatchFields /\ file \in Files
      /\ disk = [f \in Files |-> disk[f]]
      /\ new.error \in {"none", "E1", "E2"}
  <2>1. new.error \in {"none", "E1", "E2"}
    BY ApplyErrors
  <2> HIDE DEF new
  <2> QED BY <1>2, <2>1 DEF TurnInv, TypedInv
<1> HIDE DEF new
<1>4. /\ DOMAIN patch' = PatchFields /\ patch'.file = file
      /\ patch'.outside = patch.outside /\ patch'.blocks = patch.blocks
      /\ (phase' = "validate" => patch'.written = new.text)
  BY <1>1, <1>3 DEF PatchFields
<1>5. disk' = [f \in Files |-> disk'[f]] /\ \A f \in Files : f # file => disk'[f] = disk[f]
  BY <1>1, <1>3
<1>6. TypedInv'
  <2>1. StreamInv'
    BY <1>1 DEF TurnInv, TypedInv, StreamInv, FirstContentDeadline
  <2>2. tries' \in 1 .. Attempts
    BY <1>1, TurnFacts DEF TurnInv, TypedInv
  <2>3. error' \in Errors
    BY <1>1, <1>3, TurnFacts DEF TurnInv, Errors
  <2>4. phase' \in {"validate", "rollback"}
    BY <1>1
  <2>5. patch'.file \in Files
    BY <1>3, <1>4
  <2> QED BY <1>1, <1>2, <1>4, <1>5, <2>1, <2>2, <2>3, <2>4, <2>5, TurnFacts, TypedNext
      DEF TurnInv, rest
<1>7. ShownInv'
  <2>1. phase # "idle" /\ phase' # "idle"
    BY <1>1
  <2> QED BY <1>1, <2>1, ShownNext DEF TurnInv, rest
<1>8. DiskInv'
  <2>1. SUFFICES ASSUME ~moved
                 PROVE  /\ phase' \in {"validate", "rollback"}
                        /\ saved' = before'[file]
                        /\ \A f \in Files : f # file => disk'[f] = before'[f]
                        /\ phase' = "validate" => disk'[file] = patch'.written
    BY <1>1, <1>4 DEF DiskInv, rest
  <2>2. disk = before /\ saved = before[file]
    BY <1>1, <2>1 DEF TurnInv, DiskInv
  <2>3. phase' = "validate" => disk'[file] = new.text
    BY <1>1, <1>3
  <2> QED BY <1>1, <1>4, <1>5, <2>2, <2>3 DEF rest
<1>9. KeepInv'
  <2>1. SUFFICES ASSUME ~moved, phase' = "validate", NEW s \in patch.outside
                 PROVE  s \in ScannedSymbols(new.text)
    BY <1>1, <1>4 DEF KeepInv, rest
  <2>2. before[file] \in Seq(Lines) /\ disk[file] = before[file]
    BY <1>1, <1>3, <2>1 DEF TurnInv, TypedInv, DiskInv
  <2>3. s \in ScannedSymbols(before[file]) /\ OneSitePatch(before[file], patch)
    BY <1>1, <2>1 DEF TurnInv, KeepInv
  <2>4. PICK from \in DOMAIN before[file], to \in DOMAIN before[file] :
          /\ from <= to
          /\ \E x \in Seq(Lines) : patch.blocks = <<Block(SubSeq(before[file], from, to), x)>>
          /\ \A i \in from .. to : Defines[before[file][i]] \notin patch.outside
    BY <2>3 DEF OneSitePatch
  <2>5. PICK x \in Seq(Lines) : patch.blocks = <<Block(SubSeq(before[file], from, to), x)>>
    BY <2>4
  <2>6. \A i \in from .. to : Defines[before[file][i]] # s
    BY <2>1, <2>4
  <2>7. new = ApplyPatch(before[file], <<Block(SubSeq(before[file], from, to), x)>>, sequential)
    BY <2>2, <2>5 DEF new
  <2>8. new.error = "none"
    BY <1>1, <2>1
  <2> HIDE DEF file
  <2> QED BY <2>2, <2>3, <2>4, <2>6, <2>7, <2>8, OneBlockKeeps
<1> QED BY <1>6, <1>7, <1>8, <1>9 DEF TurnInv

\* The verdict: what is committed can be parsed.
LEMMA ValidateKeeps ==
  ASSUME TurnInv, NEW schema \in BOOLEAN, NEW verdict \in TestVerdicts,
         Validate(schema, verdict)
  PROVE  TurnInv'
<1> DEFINE ast == AstPasses([i \in DOMAIN patch.blocks |-> Reparsed(patch.blocks[i])],
                            patch.written)
<1>1. /\ phase = "validate"
      /\ UNCHANGED <<rest, disk, tries, stream, patch, saved, moved>>
      /\ IF Commits(ast, schema, verdict)
         THEN phase' = "committed" /\ tests' = verdict /\ UNCHANGED error
         ELSE phase' = "rollback" /\ error' = RejectClass(ast) /\ UNCHANGED tests
  BY DEF Validate
<1>2. ast => WellFormed(patch.written)
  BY DEF AstPasses
<1> HIDE DEF ast
<1>3. /\ phase' \in {"committed", "rollback"} /\ phase \in Editing /\ phase' \in Editing
      /\ (phase' = "committed" => WellFormed(patch.written))
      /\ error' \in Errors /\ tests' \in TestVerdicts
  BY <1>1, <1>2, TurnFacts DEF Commits, RejectClass, Editing, Errors, TurnInv
<1>4. TypedInv'
  <2>1. StreamInv'
    BY <1>1 DEF TurnInv, TypedInv, StreamInv, FirstContentDeadline
  <2>2. disk' = [f \in Files |-> disk'[f]]
    BY <1>1 DEF TurnInv, TypedInv
  <2>3. tries' \in 1 .. Attempts
    BY <1>1, TurnFacts DEF TurnInv, TypedInv
  <2>4. DOMAIN patch' = PatchFields /\ patch'.file \in Files
    BY <1>1, <1>3 DEF TurnInv, TypedInv
  <2>5. phase' # "generate" /\ phase' \in {"rollback"} \cup Ended
    BY <1>3 DEF Ended
  <2> QED BY <1>1, <1>3, <2>1, <2>2, <2>3, <2>4, <2>5, TurnFacts, TypedNext DEF TurnInv, rest
<1>5. ShownInv'
  <2>1. phase # "idle" /\ phase' # "idle"
    BY <1>1, <1>3
  <2> QED BY <1>1, <2>1, ShownNext DEF TurnInv, rest
<1>6. DiskInv' /\ KeepInv'
  BY <1>1, <1>3 DEF TurnInv, DiskInv, KeepInv, rest
<1> QED BY <1>4, <1>5, <1>6 DEF TurnInv

\* The rollback leaves the files as the call found them.
LEMMA RollbackKeeps ==
  ASSUME TurnInv, Rollback
  PROVE  TurnInv'
<1>1. /\ phase = "rollback" /\ Retry(error) /\ disk' = [disk EXCEPT ![patch.file] = saved]
      /\ UNCHANGED <<rest, saved, tests, moved>>
  BY DEF Rollback
<1>2. phase \in Editing /\ patch.file \in Files /\ disk = [f \in Files |-> disk[f]]
  BY <1>1 DEF TurnInv, TypedInv, Editing
<1>3. /\ phase' \in {"generate", "failed"} /\ patch' = NoPatch /\ tries' \in 1 .. Attempts
      /\ StreamInv' /\ (stream'.stage = "off" => phase' # "generate") /\ error' \in Errors
  <2>1. phase # "idle" /\ error \in Errors
    BY <1>1, TurnFacts DEF TurnInv
  <2> QED BY <1>1, <2>1, RetryStep DEF TurnInv
<1>4. TypedInv'
  <2>1. phase' \notin Editing /\ phase' \in {"generate"} \cup Ended
    BY <1>3 DEF Editing, Ended
  <2>2. disk' = [f \in Files |-> disk'[f]]
    BY <1>1, <1>2
  <2> QED BY <1>1, <1>3, <2>1, <2>2, TurnFacts, TypedNext DEF TurnInv, rest
<1>5. ShownInv'
  <2>1. phase # "idle" /\ phase' # "idle"
    BY <1>1, <1>3
  <2> QED BY <1>1, <2>1, ShownNext DEF TurnInv, rest
<1>6. ~moved => disk' = before
  <2>1. SUFFICES ASSUME ~moved PROVE disk' = before
    OBVIOUS
  <2>2. /\ saved = before[patch.file]
        /\ \A f \in Files : f # patch.file => disk[f] = before[f]
    BY <1>1, <1>2, <2>1 DEF TurnInv, DiskInv
  <2>3. before = [f \in Files |-> before[f]]
    BY DEF TurnInv, TypedInv
  <2>4. disk' = [f \in Files |-> before[f]]
    BY <1>1, <1>2, <2>2
  <2> QED BY <2>3, <2>4
<1>7. DiskInv' /\ KeepInv'
  BY <1>1, <1>3, <1>6 DEF DiskInv, KeepInv, Editing, rest
<1> QED BY <1>4, <1>5, <1>7 DEF TurnInv

\* The user's save, after which nothing is promised of the files.
LEMMA UserSavesKeeps ==
  ASSUME TurnInv, NEW text \in UserTexts, UserSaves(text)
  PROVE  TurnInv'
<1>1. /\ phase \notin Ended \cup {"idle"} /\ moved' = TRUE
      /\ disk' = [disk EXCEPT ![call.file] = text]
      /\ UNCHANGED <<rest, phase, tries, stream, patch, saved, error, tests>>
  BY DEF UserSaves
<1>2. TypedInv'
  <2>1. StreamInv'
    BY <1>1 DEF TurnInv, TypedInv, StreamInv, FirstContentDeadline
  <2>2. disk' = [f \in Files |-> disk'[f]]
    BY <1>1 DEF TurnInv, TypedInv
  <2>3. tries' \in 1 .. Attempts
    BY <1>1, TurnFacts DEF TurnInv, TypedInv
  <2>4. /\ phase' \in {"generate", "enter", "apply", "validate", "rollback"} \cup Ended
        /\ (stream'.stage = "off" => phase' # "generate")
        /\ (phase' \notin Editing => patch' = NoPatch)
        /\ (phase' \in Editing => DOMAIN patch' = PatchFields /\ patch'.file \in Files)
    BY <1>1 DEF TurnInv, TypedInv, EditTurnTypeOK, Editing, Ended
  <2> QED BY <1>1, <2>1, <2>2, <2>3, <2>4, TurnFacts, TypedNext DEF TurnInv, rest
<1>3. ShownInv'
  <2>1. phase # "idle" /\ phase' # "idle"
    BY <1>1
  <2> QED BY <1>1, <2>1, ShownNext DEF TurnInv, rest
<1>4. DiskInv' /\ KeepInv'
  BY <1>1 DEF DiskInv, KeepInv
<1> QED BY <1>2, <1>3, <1>4 DEF TurnInv

\* Steps that change nothing.
LEMMA IdleKeeps ==
  ASSUME TurnInv, UNCHANGED vars
  PROVE  TurnInv'
<1>1. /\ UNCHANGED <<disk, sequential, phase, call, pack, tries, stream, patch, saved>>
      /\ UNCHANGED <<error, tests, before, moved>>
  BY DEF vars
<1>2. EditTurnTypeOK' /\ StreamInv'
  BY <1>1 DEF TurnInv, TypedInv, EditTurnTypeOK, StreamInv, FirstContentDeadline
<1>3. TypedInv'
  BY <1>1, <1>2 DEF TurnInv, TypedInv
<1>4. NothingHidden' = NothingHidden
  BY <1>1 DEF NothingHidden
<1>5. ShownInv'
  BY <1>1, <1>4 DEF TurnInv, ShownInv
<1>6. DiskInv' /\ KeepInv'
  BY <1>1 DEF TurnInv, DiskInv, KeepInv
<1> QED BY <1>3, <1>5, <1>6 DEF TurnInv

\* The invariant is inductive.
LEMMA NextKeeps ==
  ASSUME TurnInv, [Next]_vars
  PROVE  TurnInv'
<1>1. CASE \E c \in Calls : Call(c)
  BY <1>1, CallKeeps
<1>2. CASE Wait \/ Receive \/ StreamFails
  BY <1>2, StreamKeeps
<1>3. CASE GenerateFails
  BY <1>3, GenerateFailsKeeps
<1>4. CASE \E a \in Answers : Answer(a)
  BY <1>4, AnswerKeeps
<1>5. CASE BadAnswer
  BY <1>5, BadAnswerKeeps
<1>6. CASE Enter \/ Apply \/ Rollback
  BY <1>6, EnterKeeps, ApplyKeeps, RollbackKeeps
<1>7. CASE \E schema \in BOOLEAN, verdict \in TestVerdicts : Validate(schema, verdict)
  BY <1>7, ValidateKeeps
<1>8. CASE \E text \in UserTexts : UserSaves(text)
  BY <1>8, UserSavesKeeps
<1>9. CASE Finished \/ UNCHANGED vars
  BY <1>9, IdleKeeps DEF Finished
<1> QED BY <1>1, <1>2, <1>3, <1>4, <1>5, <1>6, <1>7, <1>8, <1>9 DEF Next

-----------------------------------------------------------------------------
(* Theorems.                                                               *)

\* The invariant holds whatever the files, the calls and the answers are.
THEOREM EditTurnInvariant == Spec => []TurnInv
<1>1. Init => TurnInv
  BY InitTurn
<1>2. TurnInv /\ [Next]_vars => TurnInv'
  BY NextKeeps
<1> QED BY <1>1, <1>2, PTL DEF Spec

\* Every value keeps its type, there is a patch exactly between a usable answer
\* and the end of its attempt, and the Edit model answers in time: the first
\* content is waited for no longer than the timeouts allow (chat_stream).
THEOREM EditTurnTypeCorrect == Spec => []EditTurnTypeOK
<1>1. TurnInv => EditTurnTypeOK
  BY DEF TurnInv, TypedInv
<1> QED BY <1>1, EditTurnInvariant, PTL

\* Every attempt, the first and the ones after a rollback, starts from the files
\* the call found, and the model is shown these files, truthfully, and all that
\* the call names of them (_build_context_pack, EditTransaction.__aexit__).
THEOREM AttemptsAreClean == Spec => []AttemptsStartClean
<1>1. TurnInv => AttemptsStartClean
  <2>1. SUFFICES ASSUME TurnInv PROVE AttemptsStartClean
    OBVIOUS
  <2>2. ASSUME phase \in {"generate", "failed"}, ~moved
        PROVE  disk = before /\ \A w \in Range(pack) : Truthful(w, disk[w.file])
    BY <2>1, <2>2 DEF TurnInv, DiskInv, ShownInv
  <2>3. phase # "idle" => NothingHidden
    BY <2>1 DEF TurnInv, ShownInv
  <2> QED BY <2>2, <2>3 DEF AttemptsStartClean
<1> QED BY <1>1, EditTurnInvariant, PTL

\* What a call commits can be parsed, and an edit of one SITE keeps every
\* definition outside of it, wherever its SEARCH is found first (find_match,
\* validate_ast).
THEOREM CommitsKeepCode == Spec => []CommitKeepsCode
<1>1. TurnInv => CommitKeepsCode
  BY DEF TurnInv, DiskInv, KeepInv, CommitKeepsCode
<1> QED BY <1>1, EditTurnInvariant, PTL

-----------------------------------------------------------------------------
(* Every step leaves less of the call.                                     *)

\* Less is left: the first part that differs is smaller.
LessLeft ==
  \E i \in DOMAIN Remaining :
    /\ Remaining'[i] < Remaining[i]
    /\ \A j \in 1 .. i - 1 : Remaining'[j] = Remaining[j]

Saves == IF moved THEN 0 ELSE 1

\* It suffices to look at the first part that changes.
LEMMA LessLeftOf ==
  ASSUME \/ Saves' < Saves
         \/ Saves' = Saves /\ Attempts - tries' < Attempts - tries
         \/ /\ Saves' = Saves /\ Attempts - tries' = Attempts - tries
            /\ PhaseRank[phase'] < PhaseRank[phase]
         \/ /\ Saves' = Saves /\ Attempts - tries' = Attempts - tries
            /\ PhaseRank[phase'] = PhaseRank[phase]
            /\ StreamAdvances
  PROVE  LessLeft
<1> DEFINE r == Remaining
           q == Remaining'
<1>1. /\ DOMAIN r = 1 .. 6
      /\ r[1] = Saves /\ r[2] = Attempts - tries /\ r[3] = PhaseRank[phase]
      /\ r[4] = StageRank /\ r[5] = MaxEvents - stream.events /\ r[6] = TimeLeft
  BY DEF Remaining, Saves
<1>2. /\ q[1] = Saves' /\ q[2] = Attempts - tries' /\ q[3] = PhaseRank[phase']
      /\ q[4] = StageRank' /\ q[5] = MaxEvents - stream'.events /\ q[6] = TimeLeft'
  BY DEF Remaining, Saves
<1>3. LessLeft = \E i \in DOMAIN r : q[i] < r[i] /\ \A j \in 1 .. i - 1 : q[j] = r[j]
  BY DEF LessLeft
<1> HIDE DEF r, q
<1>4. \/ q[1] < r[1]
      \/ q[1] = r[1] /\ q[2] < r[2]
      \/ q[1] = r[1] /\ q[2] = r[2] /\ q[3] < r[3]
      \/ q[1] = r[1] /\ q[2] = r[2] /\ q[3] = r[3] /\ q[4] < r[4]
      \/ q[1] = r[1] /\ q[2] = r[2] /\ q[3] = r[3] /\ q[4] = r[4] /\ q[5] < r[5]
      \/ q[1] = r[1] /\ q[2] = r[2] /\ q[3] = r[3] /\ q[4] = r[4] /\ q[5] = r[5] /\ q[6] < r[6]
  BY <1>1, <1>2 DEF StreamAdvances
<1>5. \E i \in 1 .. 6 : q[i] < r[i] /\ \A j \in 1 .. i - 1 : q[j] = r[j]
  <2>1. /\ 1 .. 1 - 1 = {} /\ 1 .. 2 - 1 = {1} /\ 1 .. 3 - 1 = {1, 2}
        /\ 1 .. 4 - 1 = {1, 2, 3} /\ 1 .. 5 - 1 = {1, 2, 3, 4}
        /\ 1 .. 6 - 1 = {1, 2, 3, 4, 5} /\ 1 .. 6 = {1, 2, 3, 4, 5, 6}
    OBVIOUS
  <2> QED BY <1>4, <2>1
<1> QED BY <1>1, <1>3, <1>5

\* Less than nothing is never left.
LEMMA RemainingNat ==
  ASSUME TurnInv
  PROVE  \A i \in DOMAIN Remaining : Remaining[i] >= 0
<1> DEFINE r == Remaining
<1>1. /\ DOMAIN r = 1 .. 6
      /\ r[1] = Saves /\ r[2] = Attempts - tries /\ r[3] = PhaseRank[phase]
      /\ r[4] = StageRank /\ r[5] = MaxEvents - stream.events /\ r[6] = TimeLeft
  BY DEF Remaining, Saves
<1>2. Saves \in Nat /\ Attempts - tries \in Nat
  BY TurnFacts DEF TurnInv, Saves
<1>3. PhaseRank[phase] \in Nat
  <2>1. phase \in {"idle", "generate", "enter", "apply", "validate", "rollback"} \cup Ended
    BY DEF TurnInv, TypedInv, EditTurnTypeOK
  <2> QED BY <2>1 DEF PhaseRank, Ended
<1>4. StageRank \in Nat /\ MaxEvents - stream.events \in Nat /\ TimeLeft \in Nat
  BY StreamLeftNat DEF TurnInv, TypedInv, StreamLeft
<1> HIDE DEF r
<1>5. 1 .. 6 = {1, 2, 3, 4, 5, 6}
  OBVIOUS
<1> QED BY <1>1, <1>2, <1>3, <1>4, <1>5 DEF r

\* The phases, counted back from the end.
LEMMA Ranks ==
  /\ PhaseRank["idle"] = 6 /\ PhaseRank["generate"] = 5 /\ PhaseRank["enter"] = 4
  /\ PhaseRank["apply"] = 3 /\ PhaseRank["validate"] = 2 /\ PhaseRank["rollback"] = 1
  /\ PhaseRank["committed"] = 0 /\ PhaseRank["failed"] = 0
BY DEF PhaseRank, Ended

\* Another attempt is one less that is left; the end is the last phase.
LEMMA RetryAdvances ==
  ASSUME TurnInv, phase \in {"generate", "rollback"}, NEW class \in Errors, Retry(class),
         moved' = moved
  PROVE  LessLeft
<1>1. tries \in Nat /\ Attempts \in Nat /\ Saves' = Saves
  BY TurnFacts DEF TurnInv, Saves
<1>2. \/ tries' = tries + 1
      \/ tries' = tries /\ phase' = "failed"
  <2>1. phase # "idle"
    OBVIOUS
  <2> QED BY <2>1, RetryStep DEF TurnInv
<1>3. CASE tries' = tries + 1
  <2>1. Attempts - tries' < Attempts - tries
    BY <1>1, <1>3
  <2> QED BY <1>1, <2>1, LessLeftOf
<1>4. CASE tries' = tries /\ phase' = "failed"
  <2>1. PhaseRank[phase'] < PhaseRank[phase]
    BY <1>4, Ranks
  <2> QED BY <1>1, <1>4, <2>1, LessLeftOf
<1> QED BY <1>2, <1>3, <1>4

\* Every step of a call leaves less of it.
LEMMA StepAdvances ==
  ASSUME TurnInv, Next, ~UNCHANGED vars
  PROVE  LessLeft
<1>0. tries \in Nat /\ Attempts \in Nat /\ (moved' = moved => Saves' = Saves)
  BY TurnFacts DEF TurnInv, Saves
<1>1. ASSUME NEW c \in Calls, Call(c)
      PROVE  LessLeft
  <2>1. tries = 0 /\ tries' = 1 /\ Saves' = Saves
    BY <1>0, <1>1 DEF Call, TurnInv, TypedInv
  <2>2. Attempts - tries' < Attempts - tries
    BY <1>0, <2>1
  <2> QED BY <2>1, <2>2, LessLeftOf
<1>2. ASSUME Wait \/ Receive \/ StreamFails
      PROVE  LessLeft
  <2>1. phase' = phase /\ tries' = tries /\ Saves' = Saves
    BY <1>0, <1>2 DEF Wait, Receive, StreamFails
  <2>2. StreamAdvances
    BY <1>2, StreamKeeps
  <2> QED BY <2>1, <2>2, LessLeftOf
<1>3. ASSUME \/ GenerateFails \/ Enter \/ Apply
             \/ \E schema \in BOOLEAN, verdict \in TestVerdicts : Validate(schema, verdict)
      PROVE  LessLeft
  <2>1. tries' = tries /\ Saves' = Saves
    BY <1>0, <1>3 DEF GenerateFails, Enter, Apply, Validate, rest
  <2>2. \/ phase = "generate" /\ phase' = "failed"
        \/ phase = "enter" /\ phase' = "apply"
        \/ phase = "apply" /\ phase' \in {"validate", "rollback"}
        \/ phase = "validate" /\ phase' \in {"committed", "rollback"}
    BY <1>3 DEF GenerateFails, Enter, Apply, Validate
  <2>3. PhaseRank[phase'] < PhaseRank[phase]
    BY <2>2, Ranks
  <2> QED BY <2>1, <2>3, LessLeftOf
<1>4. ASSUME NEW a \in Answers, Answer(a)
      PROVE  LessLeft
  <2>1. phase = "generate" /\ moved' = moved
    BY <1>4 DEF Answer
  <2>2. CASE Prepared(a).error # "none"
    <3>1. Retry(Prepared(a).error) /\ Prepared(a).error \in Errors
      BY <1>4, <2>2, PreparedErrors DEF Answer, Errors
    <3> QED BY <2>1, <3>1, RetryAdvances
  <2>3. CASE Prepared(a).error = "none"
    <3>1. phase' = "enter" /\ tries' = tries
      BY <1>4, <2>3 DEF Answer
    <3>2. PhaseRank[phase'] < PhaseRank[phase]
      BY <2>1, <3>1, Ranks
    <3> QED BY <1>0, <2>1, <3>1, <3>2, LessLeftOf
  <2> QED BY <2>2, <2>3
<1>5. ASSUME BadAnswer
      PROVE  LessLeft
  <2>1. phase = "generate" /\ Retry("E1") /\ moved' = moved
    BY <1>5 DEF BadAnswer
  <2>2. "E1" \in Errors
    BY DEF Errors
  <2> QED BY <2>1, <2>2, RetryAdvances
<1>6. ASSUME Rollback
      PROVE  LessLeft
  <2>1. phase = "rollback" /\ Retry(error) /\ moved' = moved
    BY <1>6 DEF Rollback
  <2>2. error \in Errors
    BY TurnFacts DEF TurnInv
  <2> QED BY <2>1, <2>2, RetryAdvances
<1>7. ASSUME NEW text \in UserTexts, UserSaves(text)
      PROVE  LessLeft
  <2>1. Saves' < Saves
    BY <1>7 DEF UserSaves, Saves
  <2> QED BY <2>1, LessLeftOf
<1>8. ~Finished
  BY DEF Finished
<1> QED BY <1>1, <1>2, <1>3, <1>4, <1>5, <1>6, <1>7, <1>8 DEF Next

\* A call ends whatever the provider streams, the model answers and the tests
\* say: with every step there is less left of its one save by the user, its
\* attempts, the phases of the attempt and its stream (execute, chat_stream).
THEOREM CallsAdvance == Spec => CallAdvances
<1> DEFINE LeftNat == \A i \in DOMAIN Remaining : Remaining[i] >= 0
<1>1. TurnInv => LeftNat
  BY RemainingNat
<1>2. TurnInv' => LeftNat'
  <2> HIDE DEF LeftNat
  <2> QED BY <1>1, PTL
<1>3. TurnInv /\ TurnInv' /\ [Next]_vars =>
        [/\ \A i \in DOMAIN Remaining : Remaining'[i] >= 0
         /\ \E i \in DOMAIN Remaining :
              /\ Remaining'[i] < Remaining[i]
              /\ \A j \in 1 .. i - 1 : Remaining'[j] = Remaining[j]]_vars
  <2>1. SUFFICES ASSUME TurnInv, TurnInv', Next, ~UNCHANGED vars
                 PROVE  /\ \A i \in DOMAIN Remaining : Remaining'[i] >= 0
                        /\ LessLeft
    BY DEF LessLeft
  <2>2. LeftNat'
    BY <1>2, <2>1
  <2>3. DOMAIN Remaining = DOMAIN Remaining'
    <3>1. DOMAIN Remaining = 1 .. 6
      BY DEF Remaining
    <3>2. DOMAIN Remaining' = 1 .. 6
      BY DEF Remaining
    <3> QED BY <3>1, <3>2
  <2>4. LessLeft
    BY <2>1, StepAdvances
  <2> QED BY <2>2, <2>3, <2>4
<1>4. Spec => []TurnInv
  BY EditTurnInvariant
<1> QED BY <1>3, <1>4, PTL DEF Spec, CallAdvances
=============================================================================
