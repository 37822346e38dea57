---------------------------- MODULE SessionProofs ----------------------------
(***************************************************************************)
(* Theorems about what a session keeps: the history of its conversation     *)
(* and its repo map.                                                        *)
(*                                                                          *)
(* Conversation, for any tools, responses and numbers of rounds and folds:  *)
(* a request is well formed, summaries are true and name every call that is *)
(* not shown, and the answer holds no call.                                 *)
(*                                                                          *)
(* RepoMapService, for any files, clients, versions and threshold: the lock *)
(* is never held between two steps, because the one branch that would keep  *)
(* it needs a missing map in the build state idle; and a map that is not    *)
(* dirty is fresh, because an index is read after the last mark and the     *)
(* cache lags behind in dirty paths only.                                   *)
(***************************************************************************)
EXTENDS Conversation, RepoMapService, FiniteInduction, SequenceTheorems

-----------------------------------------------------------------------------
(* The inductive invariant.                                                *)

Saids == {"ok", "refused", "blocked", "failed", "denied"}

CallRecords == [turn : Nat, n : Nat, tool : STRING, id : Int \X Int]

Told == [call : CallRecords, said : Saids]

Plain == [kind : {"notice", "boundary"}]
ProseMessages == [kind : {"prose"}, quotes : BOOLEAN]
CallMessages == [kind : {"calls"}, calls : Seq(CallRecords), quotes : BOOLEAN]
ResultMessages == [kind : {"result"}, of : Int \X Int, said : Saids, quotes : BOOLEAN]
Summaries == [kind : {"summary"}, named : SUBSET CallRecords, outcomes : SUBSET Told]

Messages == Plain \cup ProseMessages \cup CallMessages \cup ResultMessages \cup Summaries

TypedInv ==
  /\ pc \in {"ask", "respond", "calls", "drain", "done"}
  /\ step \in Nat /\ cursor \in Nat /\ plan \in Nat
  /\ offered \in SUBSET Tools
  /\ history \in Seq(Messages)
  /\ left \in Seq(CallRecords)
  /\ truth \in SUBSET Told

\* After position m only messages of the loop follow, and none marks a boundary.
Unmarked(h, m) ==
  \A i \in m + 1 .. Len(h) :
    /\ h[i].kind \in {"prose", "notice", "calls", "result"}
    /\ ~Quotes(h[i])

\* After position m each assistant message has the results of its calls behind it, in
\* their order and as the run knows them; the calls without a result are those left.
Rounds(h, m, rest, known) ==
  \A i \in m + 1 .. Len(h) : h[i].kind = "calls" =>
    \A k \in DOMAIN h[i].calls :
      \/ /\ i + k <= Len(h) /\ h[i + k].kind = "result"
         /\ h[i + k].of = h[i].calls[k].id
         /\ [call |-> h[i].calls[k], said |-> h[i + k].said] \in known
      \/ /\ i + k > Len(h) /\ i + k - Len(h) \in DOMAIN rest
         /\ rest[i + k - Len(h)] = h[i].calls[k]

\* The calls of the assistant message at j have their results, or the first of them,
\* at j + 1 .. i.
RoundOf(h, m, i) ==
  \E j \in m + 1 .. i - 1 : h[j].kind = "calls" /\ i <= j + Len(h[j].calls)

\* What follows on the mark at m are the results of a round that it cut.
Rest(h, m, i) == m > 0 /\ \A j \in m + 1 .. i : h[j].kind = "result"

\* Each result after position m belongs to a round, to a plan step, or to a round that
\* was cut.
Origins(h, m) ==
  \A i \in m + 1 .. Len(h) : h[i].kind = "result" =>
    h[i].of[1] = -1 \/ RoundOf(h, m, i) \/ Rest(h, m, i)

HasQuotes(h) == \E i \in DOMAIN h : Quotes(h[i])

\* The calls left are the last of their round, which a quoted mark may have cut.
LeftOf(h, m, rest) ==
  rest # <<>> =>
    \/ \E j \in m + 1 .. Len(h) :
         h[j].kind = "calls" /\ Len(h) + Len(rest) = j + Len(h[j].calls)
    \/ HasQuotes(h) /\ Rest(h, m, Len(h))

\* Summaries tell what came of the calls.
SummariesTell(h, known) ==
  \A i \in DOMAIN h : h[i].kind = "summary" => h[i].outcomes \subseteq known

InMessages(c, h, m) ==
  \E i \in m + 1 .. Len(h) : h[i].kind = "calls" /\ c \in Range(h[i].calls)

InSummaries(c, h) == \E i \in DOMAIN h : h[i].kind = "summary" /\ c \in h[i].named

\* No call is forgotten.
Remembered(h, m, known) ==
  ~HasQuotes(h) =>
    \A t \in known : t.call.tool \in Tools => InMessages(t.call, h, m) \/ InSummaries(t.call, h)

\* What holds of a history in which the calls of rest have no result yet.
Sound(h, m, rest, known) ==
  /\ Unmarked(h, m) /\ Rounds(h, m, rest, known) /\ Origins(h, m) /\ LeftOf(h, m, rest)
  /\ Remembered(h, m, known)

HistoryInv ==
  pc # "done" =>
    /\ Sound(history, LastMark(history), left, truth)
    /\ pc # "calls" => left = <<>>

RequestInv == pc = "respond" => sent = AfterBoundary(history) /\ Len(sent) <= 8

AnswerInv == \A i \in DOMAIN answer : answer[i].form \in {"prose", "dsml_cut"}

ConversationInv ==
  TypedInv /\ HistoryInv /\ SummariesTell(history, truth) /\ RequestInv /\ AnswerInv

-----------------------------------------------------------------------------
(* Messages and marks.                                                     *)

\* A message of a kind has the fields of that kind.
LEMMA MessageKinds ==
  ASSUME NEW x \in Messages
  PROVE  /\ x.kind \in {"prose", "notice", "boundary", "calls", "result", "summary"}
         /\ x.kind = "calls" => x \in CallMessages /\ x.calls \in Seq(CallRecords)
         /\ x.kind = "result" =>
              x \in ResultMessages /\ x.of \in Int \X Int /\ x.said \in Saids /\ x.quotes \in BOOLEAN
         /\ x.kind = "summary" =>
              x \in Summaries /\ x.named \subseteq CallRecords /\ x.outcomes \subseteq Told
<1>1. CASE x \in Plain
  BY <1>1 DEF Plain
<1>2. CASE x \in CallMessages
  BY <1>2 DEF CallMessages
<1>3. CASE x \in ResultMessages
  BY <1>3 DEF ResultMessages
<1>4. CASE x \in Summaries
  BY <1>4 DEF Summaries
<1>5. CASE x \in ProseMessages
  BY <1>5 DEF ProseMessages
<1> QED BY <1>1, <1>2, <1>3, <1>4, <1>5 DEF Messages

\* The messages the steps append are of the kinds they say.
LEMMA MessagesMade ==
  /\ \A kind \in {"notice", "boundary"} : Msg(kind) \in Messages /\ Msg(kind).kind = kind
  /\ \A quotes \in BOOLEAN :
       /\ ProseMsg(quotes) \in Messages /\ ProseMsg(quotes).kind = "prose"
       /\ Quotes(ProseMsg(quotes)) = quotes
  /\ \A calls \in Seq(CallRecords), quotes \in BOOLEAN :
       /\ CallsMsg(calls, quotes) \in Messages /\ CallsMsg(calls, quotes).kind = "calls"
       /\ CallsMsg(calls, quotes).calls = calls /\ Quotes(CallsMsg(calls, quotes)) = quotes
<1>1. ASSUME NEW kind \in {"notice", "boundary"}
      PROVE  Msg(kind) \in Messages /\ Msg(kind).kind = kind
  BY DEF Msg, Messages, Plain
<1>2. ASSUME NEW calls \in Seq(CallRecords), NEW quotes \in BOOLEAN
      PROVE  /\ CallsMsg(calls, quotes) \in Messages /\ CallsMsg(calls, quotes).kind = "calls"
             /\ CallsMsg(calls, quotes).calls = calls /\ Quotes(CallsMsg(calls, quotes)) = quotes
  BY DEF CallsMsg, Messages, CallMessages, Quotes
<1>3. ASSUME NEW quotes \in BOOLEAN
      PROVE  /\ ProseMsg(quotes) \in Messages /\ ProseMsg(quotes).kind = "prose"
             /\ Quotes(ProseMsg(quotes)) = quotes
  BY DEF ProseMsg, Messages, ProseMessages, Quotes
<1> QED BY <1>1, <1>2, <1>3

\* So is a result.
LEMMA ResultMade ==
  ASSUME NEW id \in Int \X Int, NEW said \in Saids, NEW quotes \in BOOLEAN
  PROVE  /\ ResultMsg(id, said, quotes) \in Messages
         /\ ResultMsg(id, said, quotes).kind = "result"
         /\ ResultMsg(id, said, quotes).of = id
         /\ ResultMsg(id, said, quotes).said = said
         /\ Quotes(ResultMsg(id, said, quotes)) = quotes
BY DEF ResultMsg, Messages, ResultMessages, Quotes

\* m is the position of the last mark of h, or 0.
IsMark(h, m) ==
  /\ m \in 0 .. Len(h)
  /\ m # 0 => Marked(h[m])
  /\ \A j \in m + 1 .. Len(h) : ~Marked(h[j])

\* There is one such position, and it is LastMark.
LEMMA MarkIsLast ==
  ASSUME NEW h \in Seq(Messages)
  PROVE  IsMark(h, LastMark(h))
<1> DEFINE marks == {0} \cup {i \in DOMAIN h : Marked(h[i])}
           m == CHOOSE i \in marks : \A j \in marks : j <= i
<1>1. marks \in SUBSET (0 .. Len(h)) /\ marks # {} /\ Len(h) \in Nat
  OBVIOUS
<1>2. \E i \in marks : \A j \in marks : j <= i
  <2> HIDE DEF marks
  <2> QED BY <1>1, LastNumber
<1>3. m \in marks /\ \A j \in marks : j <= m
  BY <1>2
<1>4. LastMark(h) = m
  BY DEF LastMark
<1>5. \A j \in m + 1 .. Len(h) : ~Marked(h[j])
  <2> HIDE DEF m
  <2>1. m \in Nat
    BY <1>1, <1>3
  <2> SUFFICES ASSUME NEW j \in m + 1 .. Len(h), Marked(h[j])
               PROVE  FALSE
    OBVIOUS
  <2>2. j \in marks
    BY <1>1, <2>1
  <2> HIDE DEF marks
  <2> QED BY <1>3, <2>1, <2>2
<1> HIDE DEF m
<1> QED BY <1>1, <1>3, <1>4, <1>5 DEF IsMark

\* The mark of a history is its last one.
LEMMA MarkUnique ==
  ASSUME NEW h \in Seq(Messages), NEW m, IsMark(h, m)
  PROVE  LastMark(h) = m
<1> DEFINE l == LastMark(h)
<1>1. IsMark(h, l)
  BY MarkIsLast
<1> HIDE DEF l
<1>2. l \in 0 .. Len(h) /\ m \in 0 .. Len(h) /\ Len(h) \in Nat
  BY <1>1 DEF IsMark
<1>3. ~(l < m)
  <2> SUFFICES ASSUME l < m
               PROVE  FALSE
    OBVIOUS
  <2>1. m \in l + 1 .. Len(h) /\ m # 0
    BY <1>2
  <2> QED BY <1>1, <2>1 DEF IsMark
<1>4. ~(m < l)
  <2> SUFFICES ASSUME m < l
               PROVE  FALSE
    OBVIOUS
  <2>1. l \in m + 1 .. Len(h) /\ l # 0
    BY <1>2
  <2> QED BY <1>1, <2>1 DEF IsMark
<1> QED BY <1>2, <1>3, <1>4 DEF l

\* What follows on the last mark holds no mark.
LEMMA UnmarkedMark ==
  ASSUME NEW h \in Seq(Messages), NEW m \in 0 .. Len(h), m # 0 => Marked(h[m]), Unmarked(h, m)
  PROVE  LastMark(h) = m
<1>1. \A j \in m + 1 .. Len(h) : ~Marked(h[j])
  BY DEF Unmarked, Marked
<1>2. IsMark(h, m)
  BY <1>1 DEF IsMark
<1> QED BY <1>2, MarkUnique

-----------------------------------------------------------------------------
(* What is said of a history, when messages that call nothing follow it.   *)

\* Messages of the loop that call nothing and mark nothing.
Silent(q) ==
  \A k \in DOMAIN q :
    /\ q[k].kind \in {"prose", "notice", "result"}
    /\ ~Quotes(q[k])

\* q holds the first results of the calls of rest, as known; rest2 are the others.
Answers(q, rest, rest2, known) ==
  /\ \A k \in DOMAIN rest :
       \/ /\ k <= Len(q) /\ q[k].kind = "result" /\ q[k].of = rest[k].id
          /\ [call |-> rest[k], said |-> q[k].said] \in known
       \/ /\ k > Len(q) /\ k - Len(q) \in DOMAIN rest2 /\ rest2[k - Len(q)] = rest[k]
  /\ rest2 # <<>> => Len(q) + Len(rest2) = Len(rest)

\* Each result of q is that of a plan step or of a call of rest.
Owed(q, rest) ==
  \A k \in DOMAIN q : q[k].kind = "result" => q[k].of[1] = -1 \/ k <= Len(rest)

Opening(q, rest) == \A k \in DOMAIN q : k <= Len(rest) => q[k].kind = "result"

\* A history that is continued keeps its messages where they are.
LEMMA LongerHistory ==
  ASSUME NEW h \in Seq(Messages), NEW q \in Seq(Messages)
  PROVE  /\ h \o q \in Seq(Messages) /\ Len(h \o q) = Len(h) + Len(q)
         /\ Len(h) \in Nat /\ Len(q) \in Nat
         /\ \A i \in 1 .. Len(h) : (h \o q)[i] = h[i]
         /\ \A k \in 1 .. Len(q) : (h \o q)[Len(h) + k] = q[k]
         /\ \A i \in 1 .. Len(h) + Len(q) : i \in 1 .. Len(h) \/ i - Len(h) \in 1 .. Len(q)
         /\ \A i \in 1 .. Len(h) + Len(q) :
              i \notin 1 .. Len(h) => (h \o q)[i] = q[i - Len(h)]
<1>1. h \o q \in Seq(Messages) /\ Len(h \o q) = Len(h) + Len(q)
  OBVIOUS
<1>2. \A i \in 1 .. Len(h) : (h \o q)[i] = h[i]
  OBVIOUS
<1>3. \A k \in 1 .. Len(q) : (h \o q)[Len(h) + k] = q[k]
  OBVIOUS
<1>4. \A i \in 1 .. Len(h) + Len(q) :
        i \notin 1 .. Len(h) => (h \o q)[i] = q[i - Len(h)]
  OBVIOUS
<1> QED BY <1>1, <1>2, <1>3, <1>4

\* Lengths of the history, of what follows, and of the calls left before and after.
LEMMA Lengths ==
  ASSUME NEW N \in Int, NEW q \in Int, NEW rest \in Int, NEW rest2 \in Int
  PROVE  /\ q + rest2 = rest => (N + q) + rest2 = N + rest
         /\ \A j, k, L \in Int :
              N + rest = j + L /\ j <= N /\ 1 <= k /\ k <= rest =>
                /\ N + k - j \in 1 .. L /\ j + (N + k - j) = N + k
                /\ j + (N + k - j) > N /\ j + (N + k - j) - N = k
OBVIOUS

\* Results and prose keep a history sound when they answer the calls that are
\* left.
LEMMA AppendedSound ==
  ASSUME NEW h \in Seq(Messages), NEW m \in 0 .. Len(h), NEW q \in Seq(Messages),
         NEW rest \in Seq(CallRecords), NEW rest2 \in Seq(CallRecords),
         NEW known \in SUBSET Told, NEW known2 \in SUBSET Told,
         Sound(h, m, rest, known), Silent(q), Owed(q, rest), Opening(q, rest),
         Answers(q, rest, rest2, known2), known \subseteq known2,
         \A t \in known2 : t \in known \/ t.call \in Range(rest)
  PROVE  Sound(h \o q, m, rest2, known2)
<1> DEFINE N == Len(h)
           g == h \o q
<1>1. /\ g \in Seq(Messages) /\ Len(g) = N + Len(q) /\ N \in Nat /\ Len(q) \in Nat
      /\ \A i \in 1 .. N : g[i] = h[i]
      /\ \A k \in 1 .. Len(q) : g[N + k] = q[k]
      /\ \A i \in 1 .. N + Len(q) : i \in 1 .. N \/ i - N \in 1 .. Len(q)
      /\ \A i \in 1 .. N + Len(q) : i \notin 1 .. N => g[i] = q[i - N]
  BY LongerHistory
<1>2. DOMAIN q = 1 .. Len(q) /\ DOMAIN g = 1 .. Len(g) /\ DOMAIN h = 1 .. N
      /\ DOMAIN rest = 1 .. Len(rest) /\ Len(rest) \in Nat
  BY <1>1
<1>3. /\ Unmarked(h, m) /\ Rounds(h, m, rest, known) /\ Origins(h, m) /\ LeftOf(h, m, rest)
      /\ Remembered(h, m, known)
  BY DEF Sound
<1> HIDE DEF g
<1>4. \A i \in m + 1 .. Len(g) : i \in m + 1 .. N \/ (i \in N + 1 .. Len(g) /\ i - N \in 1 .. Len(q))
  BY <1>1
<1>5. \A i \in N + 1 .. Len(g) : i - N \in 1 .. Len(q) /\ g[i] = q[i - N]
  BY <1>1
<1>6. \A i \in m + 1 .. N : i \in 1 .. N /\ g[i] = h[i] /\ i \in m + 1 .. Len(g)
  BY <1>1
<1>7. HasQuotes(h) => HasQuotes(g)
  BY <1>1, <1>2 DEF HasQuotes
<1>8. Unmarked(g, m)
  <2> SUFFICES ASSUME NEW i \in m + 1 .. Len(g)
               PROVE  /\ g[i].kind \in {"prose", "notice", "calls", "result"}
                      /\ ~Quotes(g[i])
    BY DEF Unmarked
  <2>1. CASE i \in m + 1 .. N
    BY <1>3, <1>6, <2>1 DEF Unmarked
  <2>2. CASE i \in N + 1 .. Len(g)
    <3>1. i - N \in DOMAIN q /\ g[i] = q[i - N]
      BY <1>2, <1>5, <2>2
    <3> QED BY <3>1 DEF Silent
  <2> QED BY <1>4, <2>1, <2>2
<1>9. Rounds(g, m, rest2, known2)
  <2> SUFFICES ASSUME NEW i \in m + 1 .. Len(g), g[i].kind = "calls",
                      NEW k \in DOMAIN g[i].calls
               PROVE  \/ /\ i + k <= Len(g) /\ g[i + k].kind = "result"
                         /\ g[i + k].of = g[i].calls[k].id
                         /\ [call |-> g[i].calls[k], said |-> g[i + k].said] \in known2
                      \/ /\ i + k > Len(g) /\ i + k - Len(g) \in DOMAIN rest2
                         /\ rest2[i + k - Len(g)] = g[i].calls[k]
    BY DEF Rounds
  <2>1. i \in m + 1 .. N
    <3> SUFFICES ASSUME i \in N + 1 .. Len(g)
                 PROVE  FALSE
      BY <1>4
    <3>1. i - N \in DOMAIN q /\ g[i] = q[i - N]
      BY <1>2, <1>5
    <3> QED BY <3>1 DEF Silent
  <2>2. g[i] = h[i] /\ i \in DOMAIN h
    BY <1>2, <1>6, <2>1
  <2>3. h[i] \in Messages
    BY <2>2
  <2>4. h[i].calls \in Seq(CallRecords)
    BY <2>2, <2>3, MessageKinds
  <2>5. k \in Nat \ {0} /\ i \in Nat
    BY <1>1, <2>1, <2>2, <2>4
  <2>6. CASE /\ i + k <= N /\ h[i + k].kind = "result"
             /\ h[i + k].of = h[i].calls[k].id
             /\ [call |-> h[i].calls[k], said |-> h[i + k].said] \in known
    <3>1. g[i + k] = h[i + k] /\ i + k <= Len(g)
      BY <1>1, <2>5, <2>6
    <3> QED BY <2>2, <2>6, <3>1
  <2>7. CASE /\ i + k > N /\ i + k - N \in DOMAIN rest
             /\ rest[i + k - N] = h[i].calls[k]
    <3> DEFINE l == i + k - N
    <3>1. l \in Nat \ {0} /\ i + k = N + l
      BY <1>1, <2>5, <2>7
    <3>2. CASE /\ l <= Len(q) /\ q[l].kind = "result" /\ q[l].of = rest[l].id
               /\ [call |-> rest[l], said |-> q[l].said] \in known2
      <4>1. g[i + k] = q[l] /\ i + k <= Len(g)
        BY <1>1, <3>1, <3>2
      <4> QED BY <2>2, <2>7, <3>2, <4>1
    <3>3. CASE l > Len(q) /\ l - Len(q) \in DOMAIN rest2 /\ rest2[l - Len(q)] = rest[l]
      <4>1. i + k > Len(g) /\ i + k - Len(g) = l - Len(q)
        BY <1>1, <2>5, <3>1, <3>3
      <4> QED BY <2>2, <2>7, <3>3, <4>1
    <3> QED BY <2>7, <3>2, <3>3 DEF Answers
  <2> QED BY <1>3, <2>1, <2>2, <2>6, <2>7 DEF Rounds
<1>10. \A i \in m + 1 .. Len(g) : Rest(h, m, N) /\ (\A j \in N + 1 .. i : g[j].kind = "result")
                                    => Rest(g, m, i)
  <2> SUFFICES ASSUME NEW i \in m + 1 .. Len(g), Rest(h, m, N),
                      \A j \in N + 1 .. i : g[j].kind = "result",
                      NEW j \in m + 1 .. i
               PROVE  g[j].kind = "result"
    BY DEF Rest
  <2>1. CASE j \in m + 1 .. N
    BY <1>6, <2>1 DEF Rest
  <2>2. CASE j \in N + 1 .. i
    BY <2>2
  <2> QED BY <1>1, <2>1, <2>2
<1>11. \A j \in N + 1 .. Len(g) : j <= N + Len(rest) => g[j].kind = "result"
  <2> TAKE j \in N + 1 .. Len(g)
  <2> HAVE j <= N + Len(rest)
  <2>1. j - N \in DOMAIN q /\ g[j] = q[j - N] /\ j - N <= Len(rest)
    BY <1>1, <1>2, <1>5
  <2> QED BY <2>1 DEF Opening
<1>12. Origins(g, m)
  <2> SUFFICES ASSUME NEW i \in m + 1 .. Len(g), g[i].kind = "result", g[i].of[1] # -1
               PROVE  RoundOf(g, m, i) \/ Rest(g, m, i)
    BY DEF Origins
  <2>1. CASE i \in m + 1 .. N
    <3>1. RoundOf(h, m, i) \/ Rest(h, m, i)
      BY <1>3, <1>6, <2>1 DEF Origins
    <3>2. \A j \in m + 1 .. i : g[j] = h[j]
      BY <1>1, <1>6, <2>1
    <3>3. RoundOf(h, m, i) => RoundOf(g, m, i)
      <4> SUFFICES ASSUME RoundOf(h, m, i) PROVE RoundOf(g, m, i)
        OBVIOUS
      <4>1. PICK j \in m + 1 .. i - 1 : h[j].kind = "calls" /\ i <= j + Len(h[j].calls)
        BY DEF RoundOf
      <4>2. j \in m + 1 .. i
        BY <1>1, <2>1
      <4>3. g[j] = h[j]
        BY <3>2, <4>2
      <4> QED BY <4>1, <4>3 DEF RoundOf
    <3>4. Rest(h, m, i) => Rest(g, m, i)
      BY <3>2 DEF Rest
    <3> QED BY <3>1, <3>3, <3>4
  <2>2. CASE i \in N + 1 .. Len(g)
    <3>1. i - N \in DOMAIN q /\ g[i] = q[i - N]
      BY <1>2, <1>5, <2>2
    <3>2. i <= N + Len(rest) /\ rest # <<>>
      <4>1. i - N <= Len(rest)
        BY <3>1 DEF Owed
      <4>2. i - N > 0
        BY <1>2, <3>1
      <4> QED BY <1>1, <1>2, <2>2, <4>1, <4>2
    <3>3. \A j \in N + 1 .. i : g[j].kind = "result"
      <4> TAKE j \in N + 1 .. i
      <4>1. j \in N + 1 .. Len(g) /\ j <= N + Len(rest)
        BY <1>1, <1>2, <2>2, <3>2
      <4> QED BY <1>11, <4>1
    <3>4. CASE Rest(h, m, N)
      BY <1>10, <3>3, <3>4
    <3>5. ASSUME NEW j \in m + 1 .. N, h[j].kind = "calls", N + Len(rest) = j + Len(h[j].calls)
          PROVE  RoundOf(g, m, i)
      <4>1. j \in m + 1 .. i - 1 /\ g[j] = h[j]
        BY <1>1, <1>6, <2>2
      <4> QED BY <3>2, <3>5, <4>1 DEF RoundOf
    <3> QED BY <1>3, <3>2, <3>4, <3>5 DEF LeftOf
  <2> QED BY <1>4, <2>1, <2>2
<1>13. LeftOf(g, m, rest2)
  <2> SUFFICES ASSUME rest2 # <<>>
               PROVE  \/ \E j \in m + 1 .. Len(g) :
                           g[j].kind = "calls" /\ Len(g) + Len(rest2) = j + Len(g[j].calls)
                      \/ HasQuotes(g) /\ Rest(g, m, Len(g))
    BY DEF LeftOf
  <2>1. Len(q) + Len(rest2) = Len(rest) /\ Len(rest2) \in Nat \ {0}
    BY DEF Answers
  <2>2. rest # <<>>
    BY <1>1, <2>1
  <2>3. ASSUME NEW j \in m + 1 .. N, h[j].kind = "calls", N + Len(rest) = j + Len(h[j].calls)
        PROVE  \E i \in m + 1 .. Len(g) :
                 g[i].kind = "calls" /\ Len(g) + Len(rest2) = i + Len(g[i].calls)
    <3>1. Len(g) + Len(rest2) = N + Len(rest)
      <4> DEFINE a == Len(q)
                 b == Len(rest2)
                 c == Len(rest)
      <4>1. N \in Int /\ a \in Int /\ b \in Int /\ c \in Int /\ a + b = c /\ Len(g) = N + a
        <5>1. N \in Int /\ a \in Int /\ Len(g) = N + a
          BY <1>1
        <5>2. c \in Int
          BY <1>2
        <5>3. b \in Int
          BY <2>1
        <5>4. a + b = c
          BY <2>1
        <5> QED BY <5>1, <5>2, <5>3, <5>4
      <4> HIDE DEF N, a, b, c
      <4>2. Len(g) + b = N + c
        BY <4>1, Lengths
      <4> QED BY <4>2 DEF b, c
    <3> QED BY <1>6, <2>3, <3>1
  <2>4. CASE HasQuotes(h) /\ Rest(h, m, N)
    <3>1. CASE Len(q) = 0
      <4>1. Len(g) = N /\ \A j \in m + 1 .. N : g[j] = h[j]
        BY <1>1, <1>6, <3>1
      <4> QED BY <1>7, <2>4, <4>1 DEF Rest
    <3>2. CASE Len(q) # 0
      <4>1. Len(g) \in m + 1 .. Len(g)
        BY <1>1, <3>2
      <4>2. \A j \in N + 1 .. Len(g) : g[j].kind = "result"
        BY <1>1, <1>2, <1>11, <2>1
      <4> QED BY <1>7, <1>10, <2>4, <4>1, <4>2
    <3> QED BY <3>1, <3>2
  <2> QED BY <1>3, <2>2, <2>3, <2>4 DEF LeftOf
<1>14. Remembered(g, m, known2)
  <2> SUFFICES ASSUME ~HasQuotes(g), NEW t \in known2, t.call \in Range(rest) \/ t \in known,
                      t.call.tool \in Tools
               PROVE  InMessages(t.call, g, m) \/ InSummaries(t.call, g)
    BY DEF Remembered
  <2>1. InMessages(t.call, h, m) => InMessages(t.call, g, m)
    BY <1>6 DEF InMessages
  <2>2. InSummaries(t.call, h) => InSummaries(t.call, g)
    BY <1>1, <1>2 DEF InSummaries
  <2>3. CASE t \in known
    BY <1>3, <1>7, <2>1, <2>2, <2>3 DEF Remembered
  <2>4. CASE t.call \in Range(rest)
    <3>1. PICK k \in DOMAIN rest : t.call = rest[k]
      BY <2>4 DEF Range
    <3>2. rest # <<>>
      BY <1>2, <3>1
    <3>3. PICK j \in m + 1 .. N : h[j].kind = "calls" /\ N + Len(rest) = j + Len(h[j].calls)
      BY <1>3, <1>7, <3>2 DEF LeftOf
    <3>4. h[j] \in Messages /\ j \in Nat
      BY <1>1, <1>2, <3>3
    <3>5. h[j].calls \in Seq(CallRecords)
      BY <3>3, <3>4, MessageKinds
    <3> DEFINE l == N + k - j
    <3>6. l \in DOMAIN h[j].calls /\ j + l = N + k /\ j + l > N /\ j + l - N = k
      <4> DEFINE L == Len(h[j].calls)
      <4>1. L \in Nat /\ DOMAIN h[j].calls = 1 .. L
        BY <3>5
      <4>2. k \in Nat /\ 1 <= k /\ k <= Len(rest) /\ j <= N /\ N + Len(rest) = j + L
        BY <1>2, <3>1, <3>3
      <4>3. N \in Int /\ Len(rest) \in Int /\ j \in Int /\ k \in Int /\ L \in Int
        BY <1>1, <1>2, <3>4, <4>1, <4>2
      <4> HIDE DEF L, N
      <4>4. l \in 1 .. L /\ j + l = N + k /\ j + l > N /\ j + l - N = k
        BY <4>2, <4>3, Lengths
      <4> QED BY <4>1, <4>4
    <3>7. rest[k] = h[j].calls[l]
      <4> HIDE DEF l
      <4>1. ~(j + l <= N)
        BY <1>1, <1>2, <3>1, <3>4, <3>6
      <4> QED BY <1>3, <3>3, <3>6, <4>1 DEF Rounds
    <3>8. t.call \in Range(h[j].calls)
      <4> HIDE DEF l
      <4> QED BY <3>1, <3>6, <3>7 DEF Range
    <3> QED BY <2>1, <3>3, <3>8 DEF InMessages
  <2> QED BY <2>3, <2>4
<1> QED BY <1>8, <1>9, <1>12, <1>13, <1>14 DEF Sound, g

-----------------------------------------------------------------------------
(* The other messages: an assistant message with calls, and a quoted mark. *)

\* The same for one message.
LEMMA AppendHistory ==
  ASSUME NEW h \in Seq(Messages), NEW x \in Messages
  PROVE  /\ Append(h, x) \in Seq(Messages) /\ Len(Append(h, x)) = Len(h) + 1 /\ Len(h) \in Nat
         /\ \A i \in 1 .. Len(h) : Append(h, x)[i] = h[i]
         /\ Append(h, x)[Len(h) + 1] = x
         /\ Append(h, x) = h \o <<x>> /\ <<x>> \in Seq(Messages)
<1>1. Append(h, x) \in Seq(Messages) /\ Len(Append(h, x)) = Len(h) + 1 /\ Len(h) \in Nat
  OBVIOUS
<1>2. \A i \in 1 .. Len(h) : Append(h, x)[i] = h[i]
  OBVIOUS
<1>3. Append(h, x)[Len(h) + 1] = x
  OBVIOUS
<1>4. <<x>> \in Seq(Messages)
  OBVIOUS
<1>5. Append(h, x) = h \o <<x>>
  OBVIOUS
<1> QED BY <1>1, <1>2, <1>3, <1>4, <1>5

\* The calls of a response are left to be answered.
LEMMA CallsSound ==
  ASSUME NEW h \in Seq(Messages), NEW m \in 0 .. Len(h), NEW known \in SUBSET Told,
         NEW calls \in Seq(CallRecords), Sound(h, m, <<>>, known)
  PROVE  Sound(Append(h, CallsMsg(calls, FALSE)), m, calls, known)
<1> DEFINE N == Len(h)
           x == CallsMsg(calls, FALSE)
           g == Append(h, x)
<1>1. x \in Messages /\ x.kind = "calls" /\ x.calls = calls /\ ~Quotes(x)
  BY MessagesMade
<1> HIDE DEF x
<1>2. /\ g \in Seq(Messages) /\ Len(g) = N + 1 /\ N \in Nat
      /\ \A i \in 1 .. N : g[i] = h[i]
      /\ g[N + 1] = x
  BY <1>1, AppendHistory
<1>3. DOMAIN g = 1 .. N + 1 /\ DOMAIN h = 1 .. N
  BY <1>2
<1>4. /\ Unmarked(h, m) /\ Rounds(h, m, <<>>, known) /\ Origins(h, m) /\ Remembered(h, m, known)
  BY DEF Sound
<1> HIDE DEF g
<1>5. \A i \in m + 1 .. Len(g) : i \in m + 1 .. N \/ i = N + 1
  BY <1>2
<1>6. \A i \in m + 1 .. N : i \in 1 .. N /\ g[i] = h[i] /\ i \in m + 1 .. Len(g)
  BY <1>2
<1>7. HasQuotes(h) => HasQuotes(g)
  BY <1>2, <1>3 DEF HasQuotes
<1>8. Unmarked(g, m)
  BY <1>1, <1>2, <1>4, <1>5, <1>6 DEF Unmarked
<1>9. Rounds(g, m, calls, known)
  <2> SUFFICES ASSUME NEW i \in m + 1 .. Len(g), g[i].kind = "calls",
                      NEW k \in DOMAIN g[i].calls
               PROVE  \/ /\ i + k <= Len(g) /\ g[i + k].kind = "result"
                         /\ g[i + k].of = g[i].calls[k].id
                         /\ [call |-> g[i].calls[k], said |-> g[i + k].said] \in known
                      \/ /\ i + k > Len(g) /\ i + k - Len(g) \in DOMAIN calls
                         /\ calls[i + k - Len(g)] = g[i].calls[k]
    BY DEF Rounds
  <2>1. CASE i = N + 1
    <3>1. k \in DOMAIN calls /\ k \in Nat \ {0}
      BY <1>1, <1>2, <2>1
    <3>2. i + k > Len(g) /\ i + k - Len(g) = k
      BY <1>2, <2>1, <3>1
    <3> QED BY <1>1, <1>2, <2>1, <3>1, <3>2
  <2>2. CASE i \in m + 1 .. N
    <3>1. g[i] = h[i] /\ h[i] \in Messages /\ i \in Nat
      BY <1>2, <1>6, <2>2
    <3>2. h[i].calls \in Seq(CallRecords)
      BY <3>1, MessageKinds
    <3>3. k \in Nat \ {0} /\ k \in DOMAIN h[i].calls
      BY <3>1, <3>2
    <3>4. DOMAIN <<>> = {}
      OBVIOUS
    <3>5. /\ i + k <= N /\ h[i + k].kind = "result"
          /\ h[i + k].of = h[i].calls[k].id
          /\ [call |-> h[i].calls[k], said |-> h[i + k].said] \in known
      BY <1>4, <2>2, <3>1, <3>3, <3>4 DEF Rounds
    <3>6. g[i + k] = h[i + k] /\ i + k <= Len(g)
      BY <1>2, <3>1, <3>3, <3>5
    <3> QED BY <3>1, <3>5, <3>6
  <2> QED BY <1>5, <2>1, <2>2
<1>10. Origins(g, m)
  <2> SUFFICES ASSUME NEW i \in m + 1 .. Len(g), g[i].kind = "result", g[i].of[1] # -1
               PROVE  RoundOf(g, m, i) \/ Rest(g, m, i)
    BY DEF Origins
  <2>1. i \in m + 1 .. N
    BY <1>1, <1>2, <1>5
  <2>2. RoundOf(h, m, i) \/ Rest(h, m, i)
    BY <1>4, <1>6, <2>1 DEF Origins
  <2>3. \A j \in m + 1 .. i : g[j] = h[j]
    BY <1>2, <1>6, <2>1
  <2>4. CASE RoundOf(h, m, i)
    <3>1. PICK j \in m + 1 .. i - 1 : h[j].kind = "calls" /\ i <= j + Len(h[j].calls)
      BY <2>4 DEF RoundOf
    <3>2. j \in m + 1 .. i
      BY <1>2, <2>1
    <3>3. g[j] = h[j]
      BY <2>3, <3>2
    <3> QED BY <3>1, <3>3 DEF RoundOf
  <2>5. CASE Rest(h, m, i)
    BY <2>3, <2>5 DEF Rest
  <2> QED BY <2>2, <2>4, <2>5
<1>11. LeftOf(g, m, calls)
  <2>1. N + 1 \in m + 1 .. Len(g)
    BY <1>2
  <2> QED BY <1>1, <1>2, <2>1 DEF LeftOf
<1>12. Remembered(g, m, known)
  <2> SUFFICES ASSUME ~HasQuotes(g), NEW t \in known, t.call.tool \in Tools
               PROVE  InMessages(t.call, g, m) \/ InSummaries(t.call, g)
    BY DEF Remembered
  <2>1. InMessages(t.call, h, m) => InMessages(t.call, g, m)
    BY <1>6 DEF InMessages
  <2>2. InSummaries(t.call, h) => InSummaries(t.call, g)
    BY <1>2, <1>3 DEF InSummaries
  <2> QED BY <1>4, <1>7, <2>1, <2>2 DEF Remembered
<1> QED BY <1>8, <1>9, <1>10, <1>11, <1>12 DEF Sound, g, x

\* After position k only the results of a round that was cut there.
Cutoff(q, k) == \A j \in k + 1 .. Len(q) : q[j].kind = "result" /\ ~Quotes(q[j])

\* A message that quotes the mark becomes the last mark.
LEMMA QuotedSound ==
  ASSUME NEW h \in Seq(Messages), NEW q \in Seq(Messages), NEW k \in DOMAIN q, Quotes(q[k]),
         NEW rest, NEW known, Cutoff(q, k)
  PROVE  Sound(h \o q, LastMark(h \o q), rest, known)
<1> DEFINE g == h \o q
           m == Len(h) + k
<1>1. /\ g \in Seq(Messages) /\ Len(g) = Len(h) + Len(q) /\ Len(h) \in Nat /\ Len(q) \in Nat
      /\ \A i \in 1 .. Len(q) : g[Len(h) + i] = q[i]
  BY LongerHistory
<1>2. k \in 1 .. Len(q) /\ DOMAIN g = 1 .. Len(g)
  BY <1>1
<1> HIDE DEF g
<1>3. ASSUME NEW i \in m + 1 .. Len(g)
      PROVE  i - Len(h) \in k + 1 .. Len(q) /\ g[i] = q[i - Len(h)]
  <2> DEFINE j == i - Len(h)
  <2>1. j \in k + 1 .. Len(q) /\ j \in 1 .. Len(q) /\ Len(h) + j = i
    BY <1>1, <1>2
  <2> HIDE DEF j
  <2>2. g[i] = q[j]
    BY <1>1, <2>1
  <2> QED BY <2>1, <2>2 DEF j
<1>4. \A i \in m + 1 .. Len(g) : g[i].kind = "result" /\ ~Quotes(g[i])
  <2> SUFFICES ASSUME NEW i \in m + 1 .. Len(g)
               PROVE  g[i].kind = "result" /\ ~Quotes(g[i])
    OBVIOUS
  <2>1. i - Len(h) \in k + 1 .. Len(q) /\ g[i] = q[i - Len(h)]
    BY <1>3
  <2>2. q[i - Len(h)].kind = "result" /\ ~Quotes(q[i - Len(h)])
    BY <2>1 DEF Cutoff
  <2> QED BY <2>1, <2>2
<1>5. m \in DOMAIN g /\ m > 0 /\ Quotes(g[m])
  BY <1>1, <1>2
<1> HIDE DEF m
<1>6. Unmarked(g, m) /\ Rounds(g, m, rest, known)
  BY <1>4 DEF Unmarked, Rounds
<1>7. Origins(g, m)
  <2> SUFFICES ASSUME NEW i \in m + 1 .. Len(g), g[i].kind = "result"
               PROVE  Rest(g, m, i)
    BY DEF Origins
  <2>1. \A j \in m + 1 .. i : j \in m + 1 .. Len(g)
    BY <1>1, <1>2, <1>5
  <2>2. \A j \in m + 1 .. Len(g) : g[j].kind = "result"
    BY <1>4
  <2> QED BY <1>5, <2>1, <2>2 DEF Rest
<1>8. HasQuotes(g)
  BY <1>5 DEF HasQuotes
<1>9. LeftOf(g, m, rest) /\ Remembered(g, m, known)
  BY <1>4, <1>5, <1>8 DEF LeftOf, Rest, Remembered
<1>10. LastMark(g) = m
  <2>1. m \in 0 .. Len(g) /\ Marked(g[m])
    BY <1>1, <1>2, <1>5 DEF Marked
  <2> QED BY <1>1, <1>6, <2>1, UnmarkedMark
<1> QED BY <1>6, <1>7, <1>9, <1>10 DEF Sound, g

-----------------------------------------------------------------------------
(* Summaries and folds.                                                    *)

Tellings == [pending : Seq(CallRecords), named : SUBSET CallRecords, outcomes : SUBSET Told]

\* g reads the messages one by one.
Tells(g, ms) ==
  /\ g \in [0 .. Len(ms) -> Tellings]
  /\ g[0] = Nothing
  /\ \A n \in 1 .. Len(ms) : g[n] = Reading(g[n - 1], ms[n])
  /\ Summary(ms).kind = "summary"
  /\ Summary(ms).named = g[Len(ms)].named /\ Summary(ms).outcomes = g[Len(ms)].outcomes
  /\ Summary(ms) \in Summaries

\* The calls of an assistant message that a summary names.
NamedIn(x) == {c \in Range(x.calls) : c.tool \in Retrieval \cup {Edit}}

\* What a message does to a telling.
LEMMA ReadingCases ==
  ASSUME NEW r \in Tellings, NEW x \in Messages
  PROVE  /\ Reading(r, x) \in Tellings
         /\ x.kind = "calls" =>
              /\ Reading(r, x).pending = x.calls
              /\ Reading(r, x).named = r.named \cup NamedIn(x)
              /\ Reading(r, x).outcomes = r.outcomes
         /\ x.kind = "result" /\ r.pending # <<>> =>
              /\ Reading(r, x).pending = Tail(r.pending)
              /\ Reading(r, x).named = r.named
              /\ Reading(r, x).outcomes = r.outcomes \cup Outcomes(Head(r.pending), x.said)
         /\ x.kind # "calls" /\ (x.kind # "result" \/ r.pending = <<>>) => Reading(r, x) = r
<1>1. r.pending \in Seq(CallRecords) /\ r.named \in SUBSET CallRecords /\ r.outcomes \in SUBSET Told
      /\ r = [pending |-> r.pending, named |-> r.named, outcomes |-> r.outcomes]
  BY DEF Tellings
<1>2. CASE x.kind = "calls"
  <2> DEFINE new == NamedIn(x)
  <2>1. Reading(r, x) = [r EXCEPT !.pending = x.calls, !.named = @ \cup new]
    BY <1>2 DEF Reading, NamedIn
  <2>2. x.calls \in Seq(CallRecords)
    BY <1>2, MessageKinds
  <2>3. new \subseteq CallRecords
    BY <2>2 DEF Range, NamedIn
  <2> HIDE DEF new
  <2>4. Reading(r, x) = [pending |-> x.calls, named |-> r.named \cup new, outcomes |-> r.outcomes]
    BY <1>1, <2>1
  <2>5. Reading(r, x) \in Tellings
    BY <1>1, <2>2, <2>3, <2>4 DEF Tellings
  <2> QED BY <1>2, <2>4, <2>5 DEF new
<1>3. CASE x.kind = "result" /\ r.pending # <<>>
  <2> DEFINE new == Outcomes(Head(r.pending), x.said)
  <2>1. Reading(r, x) = [r EXCEPT !.pending = Tail(@), !.outcomes = @ \cup new]
    BY <1>3 DEF Reading
  <2>2. Head(r.pending) \in CallRecords /\ Tail(r.pending) \in Seq(CallRecords)
    BY <1>1, <1>3
  <2>3. new \subseteq Told
    <3>1. x.said \in Saids
      BY <1>3, MessageKinds
    <3> QED BY <2>2, <3>1 DEF Outcomes, Told
  <2> HIDE DEF new
  <2>4. Reading(r, x) =
          [pending |-> Tail(r.pending), named |-> r.named, outcomes |-> r.outcomes \cup new]
    BY <1>1, <2>1
  <2>5. Reading(r, x) \in Tellings
    BY <1>1, <2>2, <2>3, <2>4 DEF Tellings
  <2> QED BY <1>3, <2>4, <2>5 DEF new
<1>4. CASE x.kind # "calls" /\ (x.kind # "result" \/ r.pending = <<>>)
  <2>1. Reading(r, x) = r
    BY <1>4 DEF Reading
  <2> QED BY <1>4, <2>1
<1> QED BY <1>2, <1>3, <1>4

\* The recursion of Summary makes it.
LEMMA SummaryUnfolds ==
  ASSUME NEW ms \in Seq(Messages)
  PROVE  \E g : Tells(g, ms)
<1> DEFINE N == Len(ms)
           F == [p \in (1 .. N) \X Tellings |-> Reading(p[2], ms[p[1]])]
           Body(h) == [n \in 0 .. Len(ms) |-> IF n = 0 THEN Nothing ELSE Reading(h[n - 1], ms[n])]
           told == CHOOSE h : h = Body(h)
<1>1. N \in Nat /\ \A n \in 1 .. N : ms[n] \in Messages
  OBVIOUS
<1>2. Nothing \in Tellings
  BY DEF Nothing, Tellings
<1>3. F \in [(1 .. N) \X Tellings -> Tellings]
  <2>1. \A p \in (1 .. N) \X Tellings : Reading(p[2], ms[p[1]]) \in Tellings
    BY <1>1, ReadingCases
  <2> QED BY <2>1
<1>4. PICK g : Unfolds(g, N, Tellings, Nothing, F)
  <2> HIDE DEF F, N
  <2> QED BY <1>1, <1>2, <1>3, RecursionExists
<1>5. g = Body(g)
  <2>1. g \in [0 .. N -> Tellings] /\ g[0] = Nothing
    BY <1>4 DEF Unfolds
  <2>2. ASSUME NEW n \in 1 .. N
        PROVE  g[n] = Reading(g[n - 1], ms[n])
    <3>1. g[n] = F[<<n, g[n - 1]>>]
      BY <1>4 DEF Unfolds
    <3>2. n - 1 \in 0 .. N
      BY <1>1
    <3>3. <<n, g[n - 1]>> \in (1 .. N) \X Tellings
      BY <2>1, <3>2
    <3> QED BY <3>1, <3>3
  <2>3. \A n \in 0 .. N : n = 0 \/ n \in 1 .. N
    BY <1>1
  <2> QED BY <2>1, <2>2, <2>3
<1>6. told = Body(told)
  BY <1>5
<1>7. /\ Summary(ms).kind = "summary" /\ Summary(ms).named = told[N].named
      /\ Summary(ms).outcomes = told[N].outcomes
      /\ Summary(ms) = [kind |-> "summary", named |-> told[N].named, outcomes |-> told[N].outcomes]
  BY DEF Summary
<1> HIDE DEF told
<1>8. told = [n \in 0 .. N |-> told[n]] /\ told[0] = Nothing
  BY <1>1, <1>6
<1>9. ASSUME NEW n \in 1 .. N
      PROVE  told[n] = Reading(told[n - 1], ms[n])
  <2>1. n \in 0 .. Len(ms) /\ n # 0
    BY <1>1
  <2> QED BY <1>6, <2>1
<1>10. Unfolds(told, N, Tellings, Nothing, F)
  <2>1. \A n \in 1 .. N : told[n - 1] \in Tellings => told[n] = F[<<n, told[n - 1]>>]
    BY <1>9
  <2> HIDE DEF F, N
  <2> QED BY <1>1, <1>2, <1>3, <1>8, <2>1, RecursionUnfolds
<1>11. told \in [0 .. N -> Tellings]
  BY <1>10 DEF Unfolds
<1>12. told[N] \in Tellings
  BY <1>1, <1>11
<1>13. Summary(ms) \in Summaries
  BY <1>7, <1>12 DEF Tellings, Summaries
<1>14. Tells(told, ms)
  BY <1>7, <1>8, <1>9, <1>11, <1>13 DEF Tells
<1> QED BY <1>14

\* Each assistant message of ms is followed by the results of its calls, as known, as far
\* as ms goes.
Consistent(ms, known) ==
  \A i \in DOMAIN ms : ms[i].kind = "calls" =>
    \A k \in DOMAIN ms[i].calls : i + k <= Len(ms) =>
      /\ ms[i + k].kind = "result"
      /\ [call |-> ms[i].calls[k], said |-> ms[i + k].said] \in known

\* The pending calls are the last of a round that began at one of the n first messages.
Pending(p, ms, n) ==
  p # <<>> =>
    \E j \in 1 .. n :
      /\ ms[j].kind = "calls"
      /\ n + Len(p) = j + Len(ms[j].calls)
      /\ \A k \in 1 .. Len(p) : p[k] = ms[j].calls[n - j + k]

NamedBy(r, ms, n) ==
  \A i \in 1 .. n : ms[i].kind = "calls" =>
    \A c \in Range(ms[i].calls) : c.tool \in Retrieval \cup {Edit} => c \in r.named

\* A summary tells the truth, and names all calls.
LEMMA SummaryTells ==
  ASSUME NEW ms \in Seq(Messages), NEW known \in SUBSET Told, Consistent(ms, known)
  PROVE  /\ Summary(ms) \in Summaries /\ Summary(ms).kind = "summary"
         /\ Summary(ms).outcomes \subseteq known
         /\ NamedBy(Summary(ms), ms, Len(ms))
<1> DEFINE N == Len(ms)
<1>1. PICK g : Tells(g, ms)
  BY SummaryUnfolds
<1>2. /\ N \in Nat /\ DOMAIN ms = 1 .. N
      /\ g \in [0 .. N -> Tellings] /\ g[0] = Nothing
      /\ \A n \in 1 .. N : g[n] = Reading(g[n - 1], ms[n]) /\ ms[n] \in Messages
  BY <1>1 DEF Tells
<1> DEFINE P == {n \in 0 .. N : /\ Pending(g[n].pending, ms, n)
                                /\ g[n].outcomes \subseteq known
                                /\ NamedBy(g[n], ms, n)}
<1>3. 0 \in P
  BY <1>2 DEF Nothing, Pending, NamedBy
<1>4. ASSUME NEW m \in 0 .. N - 1, m \in P
      PROVE  m + 1 \in P
  <2> DEFINE n == m + 1
             r == g[m]
             x == ms[n]
  <2>1. n \in 1 .. N /\ n - 1 = m /\ m \in 0 .. N /\ n \in 0 .. N /\ n = m + 1
        /\ m \in Nat /\ n \in Nat
    BY <1>2
  <2> HIDE DEF n
  <2>2. r \in Tellings /\ x \in Messages /\ g[n] = Reading(r, x)
    BY <1>2, <2>1
  <2>3. Pending(r.pending, ms, m) /\ r.outcomes \subseteq known /\ NamedBy(r, ms, m)
    BY <1>4
  <2>4. r.pending \in Seq(CallRecords)
    BY <2>2 DEF Tellings
  <2>5. \A i \in 1 .. n : i \in 1 .. m \/ i = n
    BY <2>1
  <2> HIDE DEF r, x
  <2>6. CASE x.kind = "calls"
    <3>1. /\ g[n].pending = x.calls /\ g[n].outcomes = r.outcomes
          /\ g[n].named = r.named \cup NamedIn(x)
      <4>1. /\ Reading(r, x).pending = x.calls /\ Reading(r, x).outcomes = r.outcomes
            /\ Reading(r, x).named = r.named \cup NamedIn(x)
        <5>1. r \in Tellings /\ x \in Messages
          BY <2>2
        <5> QED BY <2>6, <5>1, ReadingCases
      <4> QED BY <2>2, <4>1
    <3>2. Pending(g[n].pending, ms, n)
      <4>1. n \in 1 .. n /\ n + Len(x.calls) = n + Len(ms[n].calls)
            /\ \A k \in 1 .. Len(x.calls) : n - n + k = k
        BY <2>1 DEF x
      <4> QED BY <2>6, <3>1, <4>1 DEF Pending, x
    <3>3. NamedBy(g[n], ms, n)
      BY <2>3, <2>5, <3>1 DEF NamedBy, NamedIn, x
    <3> QED BY <2>1, <2>3, <3>1, <3>2, <3>3
  <2>7. CASE x.kind # "calls" /\ r.pending = <<>>
    <3>1. g[n] = r
      BY <2>2, <2>7, ReadingCases
    <3>2. NamedBy(g[n], ms, n)
      BY <2>3, <2>5, <2>7, <3>1 DEF NamedBy, x
    <3> QED BY <2>1, <2>3, <2>7, <3>1, <3>2 DEF Pending
  <2>8. CASE x.kind # "calls" /\ r.pending # <<>>
    <3> DEFINE p == r.pending
               c == Head(p)
    <3>1. PICK j \in 1 .. m : /\ ms[j].kind = "calls"
                              /\ m + Len(p) = j + Len(ms[j].calls)
                              /\ \A k \in 1 .. Len(p) : p[k] = ms[j].calls[m - j + k]
      BY <2>3, <2>8 DEF Pending
    <3>2. ms[j] \in Messages /\ j \in DOMAIN ms /\ j \in Nat
      BY <1>2, <2>1
    <3>3. ms[j].calls \in Seq(CallRecords)
      BY <3>1, <3>2, MessageKinds
    <3>4. Len(p) \in Nat \ {0} /\ c = p[1]
      BY <2>4, <2>8
    <3> DEFINE L == Len(ms[j].calls)
               l == m - j + 1
    <3>5. L \in Nat /\ DOMAIN ms[j].calls = 1 .. L
      BY <3>3
    <3>6. c = ms[j].calls[l]
      BY <3>1, <3>4
    <3>7. l \in DOMAIN ms[j].calls /\ j + l = n /\ j + l <= N
      BY <2>1, <3>1, <3>2, <3>4, <3>5
    <3>8. x.kind = "result" /\ [call |-> c, said |-> x.said] \in known
      <4> HIDE DEF l, c
      <4> QED BY <3>1, <3>2, <3>6, <3>7 DEF Consistent, x
    <3>9. /\ g[n].pending = Tail(p) /\ g[n].named = r.named
          /\ g[n].outcomes = r.outcomes \cup Outcomes(c, x.said)
      BY <2>2, <2>8, <3>8, ReadingCases
    <3>10. g[n].outcomes \subseteq known
      BY <2>3, <3>8, <3>9 DEF Outcomes
    <3>11. NamedBy(g[n], ms, n)
      BY <2>3, <2>5, <2>8, <3>9 DEF NamedBy, x
    <3>12. Pending(g[n].pending, ms, n)
      <4>1. /\ Len(Tail(p)) = Len(p) - 1
            /\ \A k \in 1 .. Len(p) - 1 : Tail(p)[k] = p[k + 1]
        BY <2>4, <2>8
      <4>2. j \in 1 .. n /\ n + Len(Tail(p)) = j + Len(ms[j].calls)
        <5> DEFINE a == Len(p)
                   b == Len(Tail(p))
        <5>1. m + a = j + L /\ j \in 1 .. m /\ m \in Nat /\ a \in Nat /\ b = a - 1
          BY <3>1, <3>4, <4>1
        <5> HIDE DEF a, b, L
        <5>2. n + b = j + L /\ j \in 1 .. n
          BY <2>1, <3>5, <5>1
        <5> QED BY <5>2 DEF b, L
      <4>3. \A k \in 1 .. Len(Tail(p)) : Tail(p)[k] = ms[j].calls[n - j + k]
        <5> TAKE k \in 1 .. Len(Tail(p))
        <5>1. k + 1 \in 1 .. Len(p) /\ m - j + (k + 1) = n - j + k /\ Tail(p)[k] = p[k + 1]
          BY <2>1, <3>2, <3>4, <4>1
        <5> QED BY <3>1, <5>1
      <4> HIDE DEF p
      <4> QED BY <3>1, <3>9, <4>2, <4>3 DEF Pending
    <3> QED BY <2>1, <3>10, <3>11, <3>12
  <2> QED BY <2>6, <2>7, <2>8
<1> HIDE DEF P
<1>5. 0 .. N \subseteq P
  BY <1>2, <1>3, <1>4, PrefixInduction
<1>6. N \in P
  BY <1>2, <1>5
<1> QED BY <1>1, <1>6 DEF P, Tells, NamedBy

\* The messages of h from position a on.
LEMMA Slice ==
  ASSUME NEW h \in Seq(Messages), NEW a \in Nat \ {0}, NEW b \in Nat, b <= Len(h), a <= b + 1
  PROVE  /\ SubSeq(h, a, b) \in Seq(Messages) /\ Len(SubSeq(h, a, b)) = b - a + 1
         /\ DOMAIN SubSeq(h, a, b) = 1 .. b - a + 1
         /\ \A i \in 1 .. b - a + 1 : SubSeq(h, a, b)[i] = h[a + i - 1]
<1>1. a \in 1 .. Len(h) + 1 /\ b \in a - 1 .. Len(h)
  OBVIOUS
<1>2. SubSeq(h, a, b) \in Seq(Messages)
  BY <1>1, SubSeqProperties
<1>3. Len(SubSeq(h, a, b)) = b - a + 1
  BY <1>1, SubSeqProperties
<1>4. \A i \in 1 .. b - a + 1 : SubSeq(h, a, b)[i] = h[a + i - 1]
  BY <1>1, SubSeqProperties
<1> QED BY <1>2, <1>3, <1>4

\* The shape of a folded history: what was folded before, the summary, the boundary, and
\* the four last messages.
Folded(h, m, x, g) ==
  /\ g \in Seq(Messages) /\ Len(g) = m + 6
  /\ \A i \in 1 .. m : g[i] = h[i]
  /\ g[m + 1] = x
  /\ g[m + 2].kind = "boundary"
  /\ \A i \in m + 3 .. m + 6 : g[i] = h[i + Len(h) - m - 6]

\* A fold keeps what is before its place, puts a summary and a boundary, and keeps
\* the last four.
LEMMA FoldShape ==
  ASSUME NEW h \in Seq(Messages), NEW m \in Nat, m + 6 <= Len(h), NEW x \in Messages
  PROVE  Folded(h, m, x, SubSeq(h, 1, m) \o <<x, Msg("boundary")>>
                           \o SubSeq(h, Len(h) - 3, Len(h)))
<1> DEFINE N == Len(h)
           a == SubSeq(h, 1, m)
           b == <<x, Msg("boundary")>>
           d == SubSeq(h, N - 3, N)
           e == a \o b
           g == e \o d
<1>1. N \in Nat /\ m + 6 <= N /\ N = Len(h)
  OBVIOUS
<1> HIDE DEF N
<1>2. a \in Seq(Messages) /\ Len(a) = m /\ \A i \in 1 .. m : a[i] = h[i]
  <2>1. 1 \in Nat \ {0} /\ m \in Nat /\ m <= Len(h) /\ 1 <= m + 1
    BY <1>1
  <2>2. a \in Seq(Messages) /\ Len(a) = m - 1 + 1 /\ \A i \in 1 .. m - 1 + 1 : a[i] = h[1 + i - 1]
    BY <2>1, Slice
  <2> HIDE DEF a
  <2> QED BY <2>2
<1>3. b \in Seq(Messages) /\ Len(b) = 2 /\ b[1] = x /\ b[2].kind = "boundary"
  BY MessagesMade
<1>4. d \in Seq(Messages) /\ Len(d) = 4 /\ \A i \in 1 .. 4 : d[i] = h[N - 4 + i]
  <2> DEFINE k == N - 3
  <2>1. k \in Nat \ {0} /\ N \in Nat /\ N <= Len(h) /\ k <= N + 1 /\ N - k + 1 = 4
    BY <1>1
  <2>2. \A i \in 1 .. 4 : k + i - 1 = N - 4 + i
    BY <1>1
  <2>3. d = SubSeq(h, k, N)
    OBVIOUS
  <2> HIDE DEF k, d
  <2>4. /\ SubSeq(h, k, N) \in Seq(Messages) /\ Len(SubSeq(h, k, N)) = N - k + 1
        /\ \A i \in 1 .. N - k + 1 : SubSeq(h, k, N)[i] = h[k + i - 1]
    BY <2>1, Slice
  <2>5. d \in Seq(Messages) /\ Len(d) = 4 /\ \A i \in 1 .. 4 : d[i] = h[k + i - 1]
    BY <2>1, <2>3, <2>4
  <2> QED BY <2>2, <2>5
<1> HIDE DEF a, b, d
<1>5. e \in Seq(Messages) /\ Len(e) = m + 2
      /\ (\A i \in 1 .. m : e[i] = h[i]) /\ e[m + 1] = x /\ e[m + 2].kind = "boundary"
  <2>1. /\ e \in Seq(Messages) /\ Len(e) = Len(a) + Len(b)
        /\ \A i \in 1 .. Len(a) : e[i] = a[i]
        /\ \A k \in 1 .. Len(b) : e[Len(a) + k] = b[k]
    BY <1>2, <1>3, LongerHistory
  <2> HIDE DEF e
  <2> QED BY <1>2, <1>3, <2>1
<1> HIDE DEF e
<1>6. /\ g \in Seq(Messages) /\ Len(g) = m + 6
      /\ \A i \in 1 .. m + 2 : g[i] = e[i]
      /\ \A k \in 1 .. 4 : g[m + 2 + k] = d[k]
  <2>1. /\ g \in Seq(Messages) /\ Len(g) = Len(e) + Len(d)
        /\ \A i \in 1 .. Len(e) : g[i] = e[i]
        /\ \A k \in 1 .. Len(d) : g[Len(e) + k] = d[k]
    BY <1>4, <1>5, LongerHistory
  <2> HIDE DEF g
  <2> QED BY <1>4, <1>5, <2>1
<1> HIDE DEF g
<1>7. \A i \in m + 3 .. m + 6 : g[i] = h[i + N - m - 6]
  <2> TAKE i \in m + 3 .. m + 6
  <2> DEFINE k == i - m - 2
  <2>1. k \in 1 .. 4 /\ m + 2 + k = i /\ N - 4 + k = i + N - m - 6
    BY <1>1
  <2> HIDE DEF k
  <2>2. g[i] = d[k] /\ d[k] = h[N - 4 + k]
    BY <1>4, <1>6, <2>1
  <2> QED BY <2>1, <2>2
<1>8. Folded(h, m, x, g)
  <2>1. \A i \in 1 .. m : g[i] = h[i]
    BY <1>5, <1>6
  <2>2. g[m + 1] = x /\ g[m + 2].kind = "boundary"
    BY <1>5, <1>6
  <2> QED BY <1>1, <1>6, <1>7, <2>1, <2>2 DEF Folded
<1> QED BY <1>8 DEF g, e, a, b, d, N

\* Folding keeps what is said of a history without open calls.
LEMMA FoldedSound ==
  ASSUME NEW h \in Seq(Messages), NEW m \in Nat, m + 6 <= Len(h), m # 0 => Marked(h[m]),
         NEW known \in SUBSET Told, NEW x \in Messages, NEW g, Folded(h, m, x, g),
         Sound(h, m, <<>>, known), SummariesTell(h, known),
         x.kind = "summary", x.outcomes \subseteq known,
         \A i \in m + 1 .. Len(h) - 4 : h[i].kind = "calls" =>
           \A c \in Range(h[i].calls) : c.tool \in Tools => c \in x.named
  PROVE  /\ Sound(g, m + 2, <<>>, known) /\ SummariesTell(g, known)
         /\ LastMark(g) = m + 2 /\ Len(g) = m + 6
<1> DEFINE N == Len(h)
           d == N - m - 6
           l == m + 2
<1>1. /\ g \in Seq(Messages) /\ Len(g) = m + 6
      /\ \A i \in 1 .. m : g[i] = h[i]
      /\ g[m + 1] = x
      /\ g[m + 2].kind = "boundary"
      /\ \A i \in m + 3 .. m + 6 : g[i] = h[i + d]
  BY DEF Folded
<1>2. N \in Nat /\ d \in Nat /\ d = N - m - 6 /\ m + 6 <= N
  OBVIOUS
<1>3. DOMAIN g = 1 .. m + 6 /\ DOMAIN h = 1 .. N
  BY <1>1
<1>4. Unmarked(h, m) /\ Rounds(h, m, <<>>, known) /\ Origins(h, m) /\ Remembered(h, m, known)
  BY DEF Sound
<1> HIDE DEF N, d
<1>5. \A i \in l + 1 .. Len(g) : i \in m + 3 .. m + 6 /\ i + d \in m + 1 .. N /\ g[i] = h[i + d]
  BY <1>1, <1>2
<1>6. Unmarked(g, l)
  <2> SUFFICES ASSUME NEW i \in l + 1 .. Len(g)
               PROVE  /\ g[i].kind \in {"prose", "notice", "calls", "result"}
                      /\ ~Quotes(g[i])
    BY DEF Unmarked
  <2>1. i + d \in m + 1 .. N /\ g[i] = h[i + d]
    BY <1>5
  <2> QED BY <1>4, <2>1 DEF Unmarked, N
<1>7. LastMark(g) = l
  <2>1. l \in 0 .. Len(g) /\ Marked(g[l])
    BY <1>1 DEF Marked
  <2> HIDE DEF l
  <2> QED BY <1>1, <1>6, <2>1, UnmarkedMark
\* All calls of h have their results.
<1>8. ASSUME NEW i \in m + 1 .. N, h[i].kind = "calls", NEW k \in DOMAIN h[i].calls
      PROVE  /\ k \in Nat \ {0} /\ i + k <= N /\ h[i + k].kind = "result"
             /\ h[i + k].of = h[i].calls[k].id
             /\ [call |-> h[i].calls[k], said |-> h[i + k].said] \in known
  <2>1. i \in DOMAIN h
    BY <1>2, <1>3
  <2>2. h[i].calls \in Seq(CallRecords)
    BY <1>8, <2>1, MessageKinds
  <2>3. DOMAIN <<>> = {}
    OBVIOUS
  <2> QED BY <1>4, <1>8, <2>2, <2>3 DEF Rounds, N
<1>9. Rounds(g, l, <<>>, known)
  <2> SUFFICES ASSUME NEW i \in l + 1 .. Len(g), g[i].kind = "calls",
                      NEW k \in DOMAIN g[i].calls
               PROVE  /\ i + k <= Len(g) /\ g[i + k].kind = "result"
                      /\ g[i + k].of = g[i].calls[k].id
                      /\ [call |-> g[i].calls[k], said |-> g[i + k].said] \in known
    BY DEF Rounds
  <2> DEFINE j == i + d
  <2>1. j \in m + 1 .. N /\ g[i] = h[j] /\ i \in m + 3 .. m + 6
    BY <1>5
  <2>2. /\ k \in Nat \ {0} /\ j + k <= N /\ h[j + k].kind = "result"
        /\ h[j + k].of = h[j].calls[k].id
        /\ [call |-> h[j].calls[k], said |-> h[j + k].said] \in known
    <3> HIDE DEF j
    <3> QED BY <1>8, <2>1
  <2>3. i + k \in l + 1 .. Len(g) /\ j + k = i + k + d
    BY <1>1, <1>2, <2>1, <2>2
  <2>4. g[i + k] = h[j + k] /\ i + k <= Len(g)
    <3> DEFINE e == i + k
    <3>1. e \in l + 1 .. Len(g) /\ j + k = e + d
      BY <2>3
    <3> HIDE DEF e, j, l
    <3>2. g[e] = h[e + d] /\ e <= Len(g)
      BY <1>1, <1>5, <3>1
    <3> QED BY <3>1, <3>2 DEF e
  <2> HIDE DEF j
  <2> QED BY <2>1, <2>2, <2>4
<1>10. Origins(g, l)
  <2> SUFFICES ASSUME NEW i \in l + 1 .. Len(g), g[i].kind = "result", g[i].of[1] # -1
               PROVE  RoundOf(g, l, i) \/ Rest(g, l, i)
    BY DEF Origins
  <2> DEFINE j == i + d
  <2>1. j \in m + 1 .. N /\ g[i] = h[j] /\ i \in m + 3 .. m + 6
    BY <1>5
  <2>2. RoundOf(h, m, j) \/ Rest(h, m, j)
    <3> HIDE DEF j
    <3> QED BY <1>4, <2>1 DEF Origins, N
  \* Between two positions of the kept part, only the results of a round.
  <2>3. ASSUME NEW b \in Nat, b <= N - 4, \A e \in b + 1 .. j : h[e].kind = "result"
        PROVE  Rest(g, l, i)
    <3>1. l > 0
      OBVIOUS
    <3> SUFFICES ASSUME NEW a \in l + 1 .. i
                 PROVE  g[a].kind = "result"
      BY <3>1 DEF Rest
    <3>2. a \in l + 1 .. Len(g)
      BY <1>1, <2>1
    <3>3. a + d \in b + 1 .. j
      BY <1>1, <1>2, <2>1, <2>3, <3>2
    <3>4. g[a] = h[a + d]
      BY <1>5, <3>2
    <3> QED BY <2>3, <3>3, <3>4
  <2>4. CASE Rest(h, m, j)
    <3>1. m \in Nat /\ m <= N - 4 /\ \A e \in m + 1 .. j : h[e].kind = "result"
      BY <1>2, <2>4 DEF Rest
    <3> QED BY <2>3, <3>1
  <2>5. ASSUME NEW b \in m + 1 .. j - 1, h[b].kind = "calls", j <= b + Len(h[b].calls)
        PROVE  RoundOf(g, l, i) \/ Rest(g, l, i)
    <3>1. b \in m + 1 .. N /\ b \in Nat
      <4> HIDE DEF j
      <4> QED BY <1>2, <2>1
    <3>2. CASE b > N - 4
      <4> DEFINE a == b - d
      <4>1. a \in l + 1 .. i - 1 /\ a \in l + 1 .. Len(g) /\ a + d = b /\ i <= a + (j - b)
        BY <1>1, <1>2, <2>1, <3>1, <3>2
      <4> HIDE DEF a
      <4>2. g[a] = h[b]
        BY <1>5, <4>1
      <4>3. Len(h[b].calls) \in Nat
        <5>1. h[b] \in Messages
          BY <1>3, <1>2, <3>1
        <5>2. h[b].calls \in Seq(CallRecords)
          BY <2>5, <5>1, MessageKinds
        <5> QED BY <5>2
      <4>4. i <= a + Len(h[b].calls)
        <5> DEFINE L == Len(h[b].calls)
        <5>1. d \in Nat /\ i \in Int /\ a \in Int /\ L \in Nat /\ i + d <= b + L /\ a + d = b
          BY <1>2, <2>1, <2>5, <3>1, <4>1, <4>3
        <5> HIDE DEF L
        <5>2. i <= a + L
          BY <5>1
        <5> QED BY <5>2 DEF L
      <4> QED BY <2>5, <4>1, <4>2, <4>4 DEF RoundOf
    <3>3. CASE b <= N - 4
      <4>1. \A e \in b + 1 .. j : h[e].kind = "result"
        <5> TAKE e \in b + 1 .. j
        <5> DEFINE k == e - b
        <5>1. h[b] \in Messages
          BY <1>3, <1>2, <3>1
        <5>2. h[b].calls \in Seq(CallRecords)
          BY <2>5, <5>1, MessageKinds
        <5>3. k \in DOMAIN h[b].calls /\ b + k = e
          <6> DEFINE L == Len(h[b].calls)
          <6>1. L \in Nat /\ DOMAIN h[b].calls = 1 .. L /\ j <= b + L
            <7>1. L \in Nat /\ DOMAIN h[b].calls = 1 .. L
              BY <5>2
            <7> QED BY <2>5, <7>1
          <6> HIDE DEF L, j
          <6>2. k \in 1 .. L /\ b + k = e
            BY <1>2, <2>1, <3>1, <6>1
          <6> QED BY <6>1, <6>2
        <5> HIDE DEF k, j
        <5>4. h[b + k].kind = "result"
          BY <1>8, <2>5, <3>1, <5>3
        <5> QED BY <5>3, <5>4
      <4> QED BY <2>3, <3>1, <3>3, <4>1
    <3> QED BY <1>2, <3>1, <3>2, <3>3
  <2> HIDE DEF j
  <2> QED BY <2>2, <2>4, <2>5 DEF RoundOf
<1>11. LeftOf(g, l, <<>>)
  BY DEF LeftOf
<1>12. ASSUME ~HasQuotes(g)
       PROVE  ~HasQuotes(h)
  <2> SUFFICES ASSUME NEW i \in DOMAIN h, Quotes(h[i])
               PROVE  FALSE
    BY DEF HasQuotes
  <2>1. CASE i \in 1 .. m
    BY <1>1, <1>3, <1>12, <2>1 DEF HasQuotes
  <2>2. CASE i \in m + 1 .. N
    BY <1>4, <2>2 DEF Unmarked, N
  <2> QED BY <1>2, <1>3, <2>1, <2>2
<1>13. Remembered(g, l, known)
  <2> SUFFICES ASSUME ~HasQuotes(g), NEW t \in known, t.call.tool \in Tools
               PROVE  InMessages(t.call, g, l) \/ InSummaries(t.call, g)
    BY DEF Remembered
  <2>1. InMessages(t.call, h, m) \/ InSummaries(t.call, h)
    BY <1>4, <1>12 DEF Remembered
  <2>2. ASSUME NEW i \in m + 1 .. N, h[i].kind = "calls", t.call \in Range(h[i].calls)
        PROVE  InMessages(t.call, g, l) \/ InSummaries(t.call, g)
    <3>1. CASE i <= N - 4
      <4>1. i \in m + 1 .. Len(h) - 4
        BY <1>2, <3>1 DEF N
      <4>2. t.call \in x.named
        BY <2>2, <4>1
      <4>3. m + 1 \in DOMAIN g
        BY <1>3
      <4> QED BY <1>1, <4>2, <4>3 DEF InSummaries
    <3>2. CASE i > N - 4
      <4> DEFINE a == i - d
      <4>1. a \in l + 1 .. Len(g) /\ a + d = i
        BY <1>1, <1>2, <3>2
      <4> HIDE DEF a
      <4>2. g[a] = h[i]
        BY <1>5, <4>1
      <4> QED BY <2>2, <4>1, <4>2 DEF InMessages
    <3> QED BY <1>2, <3>1, <3>2
  <2>3. ASSUME NEW i \in DOMAIN h, h[i].kind = "summary", t.call \in h[i].named
        PROVE  InSummaries(t.call, g)
    <3>1. i \notin m + 1 .. N
      BY <1>4, <2>3 DEF Unmarked, N
    <3>2. i \in 1 .. m /\ i \in DOMAIN g
      BY <1>2, <1>3, <3>1
    <3> QED BY <1>1, <2>3, <3>2 DEF InSummaries
  <2>4. CASE InMessages(t.call, h, m)
    BY <2>2, <2>4 DEF InMessages, N
  <2>5. CASE InSummaries(t.call, h)
    BY <2>3, <2>5 DEF InSummaries
  <2> QED BY <2>1, <2>4, <2>5
<1>14. SummariesTell(g, known)
  <2> SUFFICES ASSUME NEW i \in DOMAIN g, g[i].kind = "summary"
               PROVE  g[i].outcomes \subseteq known
    BY DEF SummariesTell
  <2>1. CASE i \in 1 .. m
    <3>1. g[i] = h[i] /\ i \in DOMAIN h
      BY <1>1, <1>2, <1>3, <2>1
    <3> QED BY <3>1 DEF SummariesTell
  <2>2. CASE i = m + 1
    BY <1>1, <2>2
  <2>3. i # m + 2
    BY <1>1
  <2>4. i \notin l + 1 .. Len(g)
    BY <1>6 DEF Unmarked
  <2> QED BY <1>1, <1>3, <2>1, <2>2, <2>3, <2>4
<1> QED BY <1>1, <1>6, <1>7, <1>9, <1>10, <1>11, <1>13, <1>14 DEF Sound

\* The messages that a fold takes into its summary.
LEMMA FoldedRounds ==
  ASSUME NEW h \in Seq(Messages), NEW m \in Nat, m + 6 <= Len(h), NEW known \in SUBSET Told,
         Rounds(h, m, <<>>, known)
  PROVE  LET ms == SubSeq(h, m + 1, Len(h) - 4)
         IN  /\ ms \in Seq(Messages) /\ Consistent(ms, known)
             /\ \A x : NamedBy(x, ms, Len(ms)) =>
                  \A i \in m + 1 .. Len(h) - 4 : h[i].kind = "calls" =>
                    \A c \in Range(h[i].calls) :
                      c.tool \in Retrieval \cup {Edit} => c \in x.named
<1> DEFINE N == Len(h)
           b == N - 4
           ms == SubSeq(h, m + 1, b)
           L == b - m
<1>1. N \in Nat /\ m + 6 <= N /\ b \in Nat /\ b = N - 4 /\ L \in Nat /\ L = b - m
  OBVIOUS
<1>2. ms \in Seq(Messages) /\ Len(ms) = L /\ DOMAIN ms = 1 .. L
      /\ \A i \in 1 .. L : ms[i] = h[m + i] /\ ms[i] \in Messages
  <2> DEFINE a == m + 1
  <2>1. a \in Nat \ {0} /\ b <= Len(h) /\ a <= b + 1 /\ b - a + 1 = L
    BY <1>1
  <2>2. \A i \in 1 .. L : a + i - 1 = m + i
    BY <1>1
  <2>3. ms = SubSeq(h, a, b)
    OBVIOUS
  <2> HIDE DEF a, b, L, ms
  <2>4. /\ SubSeq(h, a, b) \in Seq(Messages) /\ Len(SubSeq(h, a, b)) = b - a + 1
        /\ \A i \in 1 .. b - a + 1 : SubSeq(h, a, b)[i] = h[a + i - 1]
    BY <1>1, <2>1, Slice
  <2>5. ms \in Seq(Messages) /\ Len(ms) = L /\ \A i \in 1 .. L : ms[i] = h[a + i - 1]
    BY <2>1, <2>3, <2>4
  <2> QED BY <2>2, <2>5
<1> HIDE DEF N, b, ms, L
<1>3. Consistent(ms, known)
  <2> SUFFICES ASSUME NEW i \in 1 .. L, ms[i].kind = "calls",
                      NEW k \in DOMAIN ms[i].calls, i + k <= L
               PROVE  /\ ms[i + k].kind = "result"
                      /\ [call |-> ms[i].calls[k], said |-> ms[i + k].said] \in known
    BY <1>2 DEF Consistent
  <2> DEFINE j == m + i
  <2>1. ms[i] = h[j] /\ j \in m + 1 .. N /\ ms[i] \in Messages
    BY <1>1, <1>2
  <2>2. ms[i].calls \in Seq(CallRecords)
    BY <2>1, MessageKinds
  <2>3. k \in Nat \ {0} /\ i + k \in 1 .. L /\ j + k = m + (i + k)
    <3>1. k \in Nat \ {0}
      BY <2>2
    <3> QED BY <1>1, <3>1
  <2>4. ms[i + k] = h[j + k]
    <3> HIDE DEF j
    <3> QED BY <1>2, <2>3
  <2>5. DOMAIN <<>> = {}
    OBVIOUS
  <2>6. h[j + k].kind = "result" /\ [call |-> h[j].calls[k], said |-> h[j + k].said] \in known
    <3> HIDE DEF j
    <3> QED BY <2>1, <2>5 DEF Rounds, N
  <2> QED BY <2>1, <2>4, <2>6
<1>4. ASSUME NEW x, NamedBy(x, ms, Len(ms)), NEW i \in m + 1 .. b, h[i].kind = "calls",
             NEW c \in Range(h[i].calls), c.tool \in Retrieval \cup {Edit}
      PROVE  c \in x.named
  <2> DEFINE j == i - m
  <2>1. j \in 1 .. L /\ m + j = i
    BY <1>1
  <2> HIDE DEF j
  <2>2. ms[j] = h[i]
    BY <1>2, <2>1
  <2> QED BY <1>2, <1>4, <2>1, <2>2 DEF NamedBy
<1> QED BY <1>2, <1>3, <1>4 DEF ms, b, N

\* What Shaped does, whether it folds or not.
LEMMA ShapedSound ==
  ASSUME NEW h \in Seq(Messages), NEW known \in SUBSET Told,
         Sound(h, LastMark(h), <<>>, known), SummariesTell(h, known)
  PROVE  /\ Shaped(h) \in Seq(Messages)
         /\ Sound(Shaped(h), LastMark(Shaped(h)), <<>>, known)
         /\ SummariesTell(Shaped(h), known)
         /\ LastMark(Shaped(h)) \in 0 .. Len(Shaped(h))
         /\ Len(Shaped(h)) - LastMark(Shaped(h)) <= 8
<1> DEFINE m == LastMark(h)
<1>1. m \in 0 .. Len(h) /\ (m # 0 => Marked(h[m])) /\ Len(h) \in Nat /\ m = LastMark(h)
  BY MarkIsLast DEF IsMark
<1>2. Sound(h, m, <<>>, known)
  OBVIOUS
<1> HIDE DEF m
<1>3. CASE Len(h) <= 8 \/ Len(h) - m < 6
  <2>1. Shaped(h) = h
    BY <1>1, <1>3 DEF Shaped
  <2>2. Len(h) - m <= 8
    BY <1>1, <1>3
  <2> QED BY <1>1, <2>1, <2>2
<1>4. CASE ~(Len(h) <= 8 \/ Len(h) - m < 6)
  <2> DEFINE ms == SubSeq(h, m + 1, Len(h) - 4)
             x == Summary(ms)
             g == SubSeq(h, 1, m) \o <<x, Msg("boundary")>> \o SubSeq(h, Len(h) - 3, Len(h))
  <2>1. m \in Nat /\ m + 6 <= Len(h)
    BY <1>1, <1>4
  <2>2. Shaped(h) = g
    <3>1. Len(h) - Keep = Len(h) - 4 /\ Len(h) - Keep + 1 = Len(h) - 3
      BY <1>1 DEF Keep
    <3> QED BY <1>1, <1>4, <3>1 DEF Shaped
  <2>3. /\ ms \in Seq(Messages) /\ Consistent(ms, known)
        /\ \A y : NamedBy(y, ms, Len(ms)) =>
             \A i \in m + 1 .. Len(h) - 4 : h[i].kind = "calls" =>
               \A c \in Range(h[i].calls) : c.tool \in Retrieval \cup {Edit} => c \in y.named
    <3>1. Rounds(h, m, <<>>, known)
      BY <1>2 DEF Sound
    <3> QED BY <2>1, <3>1, FoldedRounds
  <2> HIDE DEF ms
  <2>4. x \in Summaries /\ x.kind = "summary" /\ x.outcomes \subseteq known
        /\ NamedBy(x, ms, Len(ms))
    BY <2>3, SummaryTells
  <2> HIDE DEF x
  <2>5. x \in Messages
    BY <2>4 DEF Messages
  <2>6. Folded(h, m, x, g)
    BY <2>1, <2>5, FoldShape
  <2> HIDE DEF g
  <2>7. \A i \in m + 1 .. Len(h) - 4 : h[i].kind = "calls" =>
          \A c \in Range(h[i].calls) : c.tool \in Tools => c \in x.named
    BY <2>3, <2>4, ConversationAssumption
  <2>8. /\ Sound(g, m + 2, <<>>, known) /\ SummariesTell(g, known)
        /\ LastMark(g) = m + 2 /\ Len(g) = m + 6
    BY <1>1, <1>2, <2>1, <2>4, <2>5, <2>6, <2>7, FoldedSound
  <2>9. g \in Seq(Messages)
    BY <2>6 DEF Folded
  <2>10. m + 2 \in 0 .. m + 6 /\ (m + 6) - (m + 2) <= 8
    BY <2>1
  <2> QED BY <2>2, <2>8, <2>9, <2>10
<1> QED BY <1>3, <1>4

-----------------------------------------------------------------------------
(* The calls of a response.                                                *)

Segments == [form : Forms, tool : STRING]

\* A sequence that is given place by place.
LEMMA MadeSequence ==
  ASSUME NEW S, NEW n \in Nat, NEW q, q = [i \in 1 .. n |-> q[i]], \A i \in 1 .. n : q[i] \in S
  PROVE  q \in Seq(S) /\ Len(q) = n /\ DOMAIN q = 1 .. n
<1>1. q \in [1 .. n -> S]
  OBVIOUS
<1> QED BY <1>1

\* The segments of some forms are segments of the text.
LEMMA OfSelects ==
  ASSUME NEW t \in Texts, NEW forms
  PROVE  /\ t \in Seq(Segments) /\ Of(t, forms) \in Seq(Segments)
         /\ \A i \in DOMAIN t : t[i].form \in forms => Of(t, forms) # <<>>
<1>1. t \in Seq(Segments)
  BY TextCallsAssumption DEF Segments
<1> DEFINE S == {s \in ToSet(t) : s.form \in forms}
           o == Only(t, S)
<1>2. Of(t, forms) = o
  BY DEF Of
<1>3. o \in Seq(Segments) /\ ToSet(o) = ToSet(t) \cap S
  <2> HIDE DEF S
  <2> QED BY <1>1, OnlySelects
<1> HIDE DEF o
<1>4. ASSUME NEW i \in DOMAIN t, t[i].form \in forms
      PROVE  o # <<>>
  <2>1. t[i] \in ToSet(t)
    BY DEF ToSet
  <2>2. t[i] \in ToSet(o)
    BY <1>3, <1>4, <2>1
  <2>3. PICK j \in DOMAIN o : TRUE
    BY <2>2 DEF ToSet
  <2> QED BY <2>3
<1> QED BY <1>1, <1>2, <1>3, <1>4

\* The segments that are calls of tools are segments, and a text in DSML has some.
LEMMA CallSegmentsTyped ==
  ASSUME NEW t \in Texts, NEW tools
  PROVE  /\ CallSegments(t, tools) \in Seq(Segments)
         /\ CallSegments(t, tools) = <<>> => \A i \in DOMAIN t : t[i].form # "dsml"
<1> DEFINE S == {s \in ToSet(t) : s.form = "bare" /\ s.tool \in tools}
           w1 == Of(t, {"dsml"}) \o Of(t, {"xml"})
           w2 == Of(t, {"invoke"})
           w3 == Of(t, {"function"})
           w4 == Only(t, S)
           ways == <<w1, w2, w3, w4>>
           found == {i \in DOMAIN ways : ways[i] # <<>>}
           least == CHOOSE i \in found : \A j \in found : i <= j
<1>1. CallSegments(t, tools) = IF found = {} THEN <<>> ELSE ways[least]
  BY DEF CallSegments
<1>2. t \in Seq(Segments) /\ Of(t, {"dsml"}) \in Seq(Segments) /\ Of(t, {"xml"}) \in Seq(Segments)
      /\ w2 \in Seq(Segments) /\ w3 \in Seq(Segments)
  BY OfSelects
<1>3. w4 \in Seq(Segments)
  <2> HIDE DEF S
  <2> QED BY <1>2, OnlySelects
<1>4. w1 \in Seq(Segments) /\ (Of(t, {"dsml"}) # <<>> => w1 # <<>>)
  BY <1>2
<1> HIDE DEF w1, w2, w3, w4
<1>5. DOMAIN ways = 1 .. 4 /\ ways[1] = w1 /\ \A i \in 1 .. 4 : ways[i] \in Seq(Segments)
  BY <1>2, <1>3, <1>4
<1> HIDE DEF ways
<1>6. found \in SUBSET Nat /\ found \subseteq 1 .. 4
  BY <1>5
<1>7. found # {} => least \in found
  <2> SUFFICES ASSUME found # {}
               PROVE  least \in found
    OBVIOUS
  <2>1. \E i \in found : \A j \in found : i <= j
    <3> HIDE DEF found
    <3> QED BY <1>6, LeastNumber
  <2> QED BY <2>1
<1> HIDE DEF least
<1>8. found # {} => ways[least] \in Seq(Segments) /\ ways[least] # <<>>
  BY <1>5, <1>6, <1>7
<1>9. found = {} => \A i \in DOMAIN t : t[i].form # "dsml"
  <2>1. found = {} => w1 = <<>>
    BY <1>5
  <2>2. \A i \in DOMAIN t : t[i].form \in {"dsml"} => Of(t, {"dsml"}) # <<>>
    BY OfSelects
  <2> QED BY <1>4, <2>1, <2>2
<1> HIDE DEF found
<1> QED BY <1>1, <1>8, <1>9

\* The calls of a response are numbered calls; there are none only when the text
\* has none.
LEMMA CallsTyped ==
  ASSUME TypedInv, NEW native \in Seq(Tools), NEW t \in Texts
  PROVE  /\ CallsOf(native, t) \in Seq(CallRecords)
         /\ CallsOf(native, t) = <<>> => CallSegments(t, offered) = <<>>
<1> DEFINE found == CallSegments(t, offered)
           text == [i \in DOMAIN found |-> found[i].tool]
           tools == native \o text
           calls == [i \in DOMAIN tools |->
                       [turn |-> step, n |-> i, tool |-> tools[i],
                        id |-> IF i <= Len(native) THEN <<step, i>> ELSE TextId(i - Len(native))]]
<1>1. found \in Seq(Segments)
  BY CallSegmentsTyped
<1>2. TextCallsOf(t, offered) = text
  BY DEF TextCallsOf
<1>3. CallsOf(native, t) = calls
  BY <1>2 DEF CallsOf
<1> HIDE DEF found
<1>4. text \in Seq(STRING) /\ Len(text) = Len(found)
  <2> DEFINE n == Len(found)
  <2>1. n \in Nat /\ DOMAIN found = 1 .. n /\ \A i \in 1 .. n : found[i] \in Segments
    BY <1>1
  <2>2. \A i \in 1 .. n : text[i] = found[i].tool /\ text[i] \in STRING
    BY <2>1 DEF Segments
  <2>3. text = [i \in 1 .. n |-> text[i]]
    BY <2>1
  <2> HIDE DEF text, n
  <2>4. text \in Seq(STRING) /\ Len(text) = n
    BY <2>1, <2>2, <2>3, MadeSequence
  <2> QED BY <2>4 DEF n
<1> HIDE DEF text
<1>5. native \in Seq(STRING)
  <2> DEFINE n == Len(native)
  <2>1. n \in Nat /\ native = [i \in 1 .. n |-> native[i]] /\ \A i \in 1 .. n : native[i] \in Tools
    OBVIOUS
  <2>2. \A i \in 1 .. n : native[i] \in STRING
    BY <2>1, TextCallsAssumption
  <2> HIDE DEF n
  <2> QED BY <2>1, <2>2, MadeSequence
<1>6. tools \in Seq(STRING) /\ Len(tools) = Len(native) + Len(text)
  BY <1>4, <1>5
<1> HIDE DEF tools
<1>7. Len(native) \in Nat /\ Len(tools) \in Nat /\ DOMAIN tools = 1 .. Len(tools)
      /\ \A i \in 1 .. Len(tools) : tools[i] \in STRING
  BY <1>5, <1>6
<1>8. \A i \in 1 .. Len(tools) :
        [turn |-> step, n |-> i, tool |-> tools[i],
         id |-> IF i <= Len(native) THEN <<step, i>> ELSE TextId(i - Len(native))] \in CallRecords
  <2> TAKE i \in 1 .. Len(tools)
  <2> DEFINE id == IF i <= Len(native) THEN <<step, i>> ELSE TextId(i - Len(native))
  <2>1. step \in Nat /\ i \in Nat
    BY <1>7 DEF TypedInv
  <2>2. id \in Int \X Int
    BY <1>7, <2>1 DEF TextId
  <2> HIDE DEF id
  <2>3. [turn |-> step, n |-> i, tool |-> tools[i], id |-> id] \in CallRecords
    BY <1>7, <2>1, <2>2 DEF CallRecords
  <2> QED BY <2>3 DEF id
<1>9. calls \in Seq(CallRecords) /\ Len(calls) = Len(tools)
  BY <1>7, <1>8
<1>10. calls = <<>> => Len(found) = 0
  <2>1. calls = <<>> => Len(calls) = 0
    OBVIOUS
  <2>2. Len(found) \in Nat
    BY <1>1
  <2> HIDE DEF calls
  <2> QED BY <1>4, <1>6, <1>7, <1>9, <2>1, <2>2
<1>11. Len(found) = 0 => found = <<>>
  BY <1>1
<1> HIDE DEF calls
<1> QED BY <1>3, <1>9, <1>10, <1>11 DEF found

\* A text that calls nothing and has no markup left, is prose.
LEMMA SpokenIsProse ==
  ASSUME NEW t \in Texts, NEW tools, CallSegments(t, tools) = <<>>,
         ~HasMarkup(Cleaned(t, tools), tools)
  PROVE  \A i \in DOMAIN t : t[i].form \in {"prose", "dsml_cut"}
<1> DEFINE found == CallSegments(t, tools)
           bare == {found[i].tool : i \in {j \in DOMAIN found : found[j].form = "bare"}}
           S == {s \in ToSet(t) :
                   /\ s.form \notin {"dsml", "dsml_cut"}
                   /\ found # <<>> => s.form \notin {"xml", "invoke", "call", "function", "nameless"}
                   /\ s.form = "bare" => s.tool \notin bare}
           o == Only(t, S)
<1>1. t \in Seq(Segments)
  BY OfSelects
<1>2. Cleaned(t, tools) = o
  BY DEF Cleaned
<1>3. o \in Seq(Segments) /\ ToSet(o) = ToSet(t) \cap S
  <2> HIDE DEF S
  <2> QED BY <1>1, OnlySelects
<1> HIDE DEF o
<1>4. found = <<>> /\ DOMAIN <<>> = {}
  OBVIOUS
<1> HIDE DEF found
<1>5. bare = {}
  BY <1>4
<1> HIDE DEF bare
<1>6. SUFFICES ASSUME NEW i \in DOMAIN t, t[i].form \notin {"prose", "dsml_cut"}
               PROVE  FALSE
  OBVIOUS
<1>7. t[i].form # "dsml" /\ t[i] \in ToSet(t)
  BY CallSegmentsTyped DEF ToSet
<1>8. t[i] \in S
  BY <1>4, <1>5, <1>6, <1>7
<1>9. PICK k \in DOMAIN o : o[k] = t[i]
  BY <1>3, <1>7, <1>8 DEF ToSet
<1>10. t[i].form \in {"bare", "bare_cut"} => t[i].tool \in Tools
  BY <1>6, TextCallsAssumption
<1>11. HasMarkup(o, tools)
  BY <1>6, <1>9, <1>10 DEF HasMarkup
<1> QED BY <1>2, <1>11

-----------------------------------------------------------------------------
(* The results of a batch.                                                 *)

\* A batch is a beginning of the calls that are left.
LEMMA BatchTyped ==
  ASSUME left \in Seq(CallRecords)
  PROVE  BatchLength \in 0 .. Len(left)
<1> DEFINE others == {i \in DOMAIN left : left[i].tool \notin Retrieval}
           least == CHOOSE i \in others : \A j \in others : i <= j
<1>1. others \in SUBSET Nat /\ others \subseteq 1 .. Len(left) /\ Len(left) \in Nat
  OBVIOUS
<1>2. BatchLength = IF others = {} THEN Len(left) ELSE least - 1
  BY DEF BatchLength
<1>3. others # {} => least \in others
  <2> SUFFICES ASSUME others # {}
               PROVE  least \in others
    OBVIOUS
  <2>1. \E i \in others : \A j \in others : i <= j
    <3> HIDE DEF others
    <3> QED BY <1>1, LeastNumber
  <2> QED BY <2>1
<1> HIDE DEF least, others
<1>4. CASE others = {}
  BY <1>1, <1>2, <1>4
<1>5. CASE others # {}
  <2>1. BatchLength = least - 1 /\ least \in 1 .. Len(left)
    BY <1>1, <1>2, <1>3, <1>5
  <2> QED BY <1>1, <2>1
<1> QED BY <1>4, <1>5

\* The results of some calls answer each of them.
LEMMA ResultsTyped ==
  ASSUME NEW calls \in Seq(CallRecords), NEW said \in [DOMAIN calls -> Saids], NEW quoting
  PROVE  /\ Results(calls, said, quoting) \in Seq(Messages)
         /\ Len(Results(calls, said, quoting)) = Len(calls)
         /\ DOMAIN Results(calls, said, quoting) = DOMAIN calls
         /\ \A k \in DOMAIN calls :
              LET r == Results(calls, said, quoting)[k]
              IN  r.kind = "result" /\ r.of = calls[k].id /\ r.said = said[k]
                  /\ Quotes(r) = (k \in quoting)
<1> DEFINE rs == Results(calls, said, quoting)
<1>1. rs = [k \in DOMAIN calls |-> ResultMsg(calls[k].id, said[k], k \in quoting)]
  BY DEF Results
<1>2. ASSUME NEW k \in DOMAIN calls
      PROVE  LET r == ResultMsg(calls[k].id, said[k], k \in quoting)
             IN  /\ r \in Messages /\ r.kind = "result" /\ r.of = calls[k].id /\ r.said = said[k]
                 /\ Quotes(r) = (k \in quoting)
  <2>1. calls[k].id \in Int \X Int
    <3>1. calls[k] \in CallRecords
      OBVIOUS
    <3> QED BY <3>1 DEF CallRecords
  <2>2. said[k] \in Saids
    OBVIOUS
  <2> DEFINE quoted == k \in quoting
  <2>3. quoted \in BOOLEAN
    OBVIOUS
  <2> HIDE DEF quoted
  <2>4. LET r == ResultMsg(calls[k].id, said[k], quoted)
        IN  /\ r \in Messages /\ r.kind = "result" /\ r.of = calls[k].id /\ r.said = said[k]
            /\ Quotes(r) = quoted
    BY <2>1, <2>2, <2>3, ResultMade
  <2> QED BY <2>4 DEF quoted
<1> HIDE DEF rs
<1>3. DOMAIN calls = 1 .. Len(calls) /\ Len(calls) \in Nat
  OBVIOUS
<1>4. \A k \in DOMAIN calls : rs[k] = ResultMsg(calls[k].id, said[k], k \in quoting)
  BY <1>1
<1>5. rs \in Seq(Messages) /\ Len(rs) = Len(calls) /\ DOMAIN rs = DOMAIN calls
  <2> DEFINE n == Len(calls)
  <2>1. n \in Nat /\ DOMAIN calls = 1 .. n
    BY <1>3
  <2>2. rs = [k \in 1 .. n |-> rs[k]]
    BY <1>1, <2>1
  <2>3. \A k \in 1 .. n : rs[k] \in Messages
    BY <1>2, <1>4, <2>1
  <2> HIDE DEF n
  <2>4. rs \in Seq(Messages) /\ Len(rs) = n /\ DOMAIN rs = 1 .. n
    BY <2>1, <2>2, <2>3, MadeSequence
  <2> QED BY <2>1, <2>4 DEF n
<1> QED BY <1>2, <1>4, <1>5 DEF rs

-----------------------------------------------------------------------------
(* The history as it grows, with its last mark.                            *)

\* The history h, in which the calls of rest have no result yet.
Kept(h, rest, known) ==
  h \in Seq(Messages) /\ Sound(h, LastMark(h), rest, known) /\ SummariesTell(h, known)

\* What summaries tell stays true as more is known, and results tell nothing.
LEMMA TellsMore ==
  ASSUME NEW h \in Seq(Messages), NEW q \in Seq(Messages), NEW known, NEW known2,
         known \subseteq known2, SummariesTell(h, known), \A k \in DOMAIN q : q[k].kind # "summary"
  PROVE  h \o q \in Seq(Messages) /\ SummariesTell(h \o q, known2)
<1> DEFINE g == h \o q
<1>1. /\ g \in Seq(Messages) /\ Len(g) = Len(h) + Len(q) /\ Len(h) \in Nat /\ Len(q) \in Nat
      /\ \A i \in 1 .. Len(h) : g[i] = h[i]
      /\ \A i \in 1 .. Len(h) + Len(q) : i \in 1 .. Len(h) \/ i - Len(h) \in 1 .. Len(q)
      /\ \A i \in 1 .. Len(h) + Len(q) : i \notin 1 .. Len(h) => g[i] = q[i - Len(h)]
  BY LongerHistory
<1>2. DOMAIN h = 1 .. Len(h) /\ DOMAIN q = 1 .. Len(q) /\ DOMAIN g = 1 .. Len(h) + Len(q)
  BY <1>1
<1> HIDE DEF g
<1>3. ASSUME NEW i \in DOMAIN g, g[i].kind = "summary"
      PROVE  g[i].outcomes \subseteq known2
  <2>1. i \in DOMAIN h /\ g[i] = h[i]
    BY <1>1, <1>2, <1>3
  <2> QED BY <1>3, <2>1 DEF SummariesTell
<1> QED BY <1>1, <1>3 DEF SummariesTell, g

\* Messages that hold neither calls nor summaries keep the history.
LEMMA SilentKept ==
  ASSUME NEW h, NEW q \in Seq(Messages),
         NEW rest \in Seq(CallRecords), NEW rest2 \in Seq(CallRecords),
         NEW known \in SUBSET Told, NEW known2 \in SUBSET Told,
         Kept(h, rest, known), Silent(q), Owed(q, rest), Opening(q, rest),
         Answers(q, rest, rest2, known2), known \subseteq known2,
         \A t \in known2 : t \in known \/ t.call \in Range(rest)
  PROVE  Kept(h \o q, rest2, known2)
<1> DEFINE m == LastMark(h)
           g == h \o q
<1>1. h \in Seq(Messages) /\ SummariesTell(h, known)
  BY DEF Kept
<1>2. Sound(h, m, rest, known)
  BY DEF Kept
<1>3. m \in 0 .. Len(h) /\ (m # 0 => Marked(h[m]))
  BY <1>1, MarkIsLast DEF IsMark
<1> HIDE DEF m
<1>4. Sound(g, m, rest2, known2)
  BY <1>1, <1>2, <1>3, AppendedSound
<1>5. g \in Seq(Messages) /\ SummariesTell(g, known2)
  <2>1. \A k \in DOMAIN q : q[k].kind # "summary"
    BY DEF Silent
  <2> QED BY <1>1, <2>1, TellsMore
<1>6. m \in 0 .. Len(g) /\ (m # 0 => Marked(g[m]))
  <2>1. Len(g) = Len(h) + Len(q) /\ Len(h) \in Nat /\ Len(q) \in Nat
        /\ \A i \in 1 .. Len(h) : g[i] = h[i]
    BY <1>1, LongerHistory
  <2> HIDE DEF g
  <2>2. m # 0 => m \in 1 .. Len(h)
    BY <1>3, <2>1
  <2> QED BY <1>3, <2>1, <2>2
<1>7. LastMark(g) = m
  <2>1. Unmarked(g, m)
    BY <1>4 DEF Sound
  <2> HIDE DEF g
  <2> QED BY <1>5, <1>6, <2>1, UnmarkedMark
<1> QED BY <1>4, <1>5, <1>7 DEF Kept

\* Messages that are no results, when no call is open.
LEMMA PlainKept ==
  ASSUME NEW h, NEW q \in Seq(Messages), NEW known \in SUBSET Told, Kept(h, <<>>, known),
         \A k \in DOMAIN q : q[k].kind \in {"prose", "notice"} /\ ~Quotes(q[k])
  PROVE  Kept(h \o q, <<>>, known)
<1>1. <<>> \in Seq(CallRecords) /\ DOMAIN <<>> = {} /\ Len(<<>>) = 0
  OBVIOUS
<1>2. Silent(q) /\ Owed(q, <<>>)
  BY DEF Silent, Owed
<1>3. Opening(q, <<>>)
  <2>1. \A k \in DOMAIN q : ~(k <= Len(<<>>))
    BY <1>1
  <2> QED BY <2>1 DEF Opening
<1>4. Answers(q, <<>>, <<>>, known)
  BY <1>1 DEF Answers
<1> QED BY <1>1, <1>2, <1>3, <1>4, SilentKept

\* The results of the first calls of rest.
LEMMA AnsweredKept ==
  ASSUME NEW h, NEW q \in Seq(Messages),
         NEW rest \in Seq(CallRecords), NEW rest2 \in Seq(CallRecords),
         NEW known \in SUBSET Told, NEW known2 \in SUBSET Told,
         Kept(h, rest, known), known \subseteq known2,
         \A t \in known2 : t \in known \/ t.call \in Range(rest),
         Len(q) <= Len(rest), Len(rest2) = Len(rest) - Len(q),
         \A k \in 1 .. Len(rest2) : rest2[k] = rest[Len(q) + k],
         \A k \in 1 .. Len(q) :
           /\ q[k].kind = "result" /\ q[k].of = rest[k].id /\ ~Quotes(q[k])
           /\ [call |-> rest[k], said |-> q[k].said] \in known2
  PROVE  Kept(h \o q, rest2, known2)
<1> DEFINE a == Len(q)
           b == Len(rest)
           c == Len(rest2)
<1>1. a \in Nat /\ b \in Nat /\ c \in Nat /\ DOMAIN q = 1 .. a /\ DOMAIN rest = 1 .. b
      /\ DOMAIN rest2 = 1 .. c /\ a <= b /\ c = b - a
  OBVIOUS
<1>2. \A k \in 1 .. c : rest2[k] = rest[a + k]
  OBVIOUS
<1>3. \A k \in 1 .. a : /\ q[k].kind = "result" /\ q[k].of = rest[k].id /\ ~Quotes(q[k])
                        /\ [call |-> rest[k], said |-> q[k].said] \in known2
  OBVIOUS
<1> HIDE DEF a, b, c
<1>4. Silent(q)
  BY <1>1, <1>3 DEF Silent
<1>5. Owed(q, rest) /\ Opening(q, rest)
  <2>1. \A k \in DOMAIN q : k <= b
    BY <1>1
  <2>2. \A k \in DOMAIN q : k <= Len(rest)
    BY <2>1 DEF b
  <2> QED BY <1>1, <1>3, <2>2 DEF Owed, Opening
<1>6. Answers(q, rest, rest2, known2)
  <2>1. ASSUME NEW k \in 1 .. b
        PROVE  \/ /\ k <= a /\ q[k].kind = "result" /\ q[k].of = rest[k].id
                  /\ [call |-> rest[k], said |-> q[k].said] \in known2
               \/ k > a /\ k - a \in 1 .. c /\ rest2[k - a] = rest[k]
    <3>1. CASE k <= a
      BY <1>1, <1>3, <3>1
    <3>2. CASE k > a
      <4> DEFINE l == k - a
      <4>1. l \in 1 .. c /\ a + l = k
        BY <1>1, <3>2
      <4> HIDE DEF l
      <4>2. rest2[l] = rest[k]
        BY <1>2, <4>1
      <4> QED BY <3>2, <4>1, <4>2 DEF l
    <3> QED BY <1>1, <3>1, <3>2
  <2>2. a + c = b
    BY <1>1
  <2> QED BY <1>1, <2>1, <2>2 DEF Answers, a, b, c
<1> QED BY <1>4, <1>5, <1>6, SilentKept

\* The result of a plan step, when no call is open.
LEMMA StepKept ==
  ASSUME NEW h, NEW x \in Messages, NEW known \in SUBSET Told, Kept(h, <<>>, known),
         x.kind = "result", x.of[1] = -1, ~Quotes(x)
  PROVE  Kept(Append(h, x), <<>>, known)
<1> DEFINE q == <<x>>
<1>1. q \in Seq(Messages) /\ DOMAIN q = {1} /\ q[1] = x
  OBVIOUS
<1>2. h \in Seq(Messages)
  BY DEF Kept
<1>3. Append(h, x) = h \o q
  BY <1>2, AppendHistory
<1> HIDE DEF q
<1>4. <<>> \in Seq(CallRecords) /\ DOMAIN <<>> = {} /\ Len(<<>>) = 0
  OBVIOUS
<1>5. Silent(q) /\ Owed(q, <<>>) /\ Opening(q, <<>>)
  BY <1>1, <1>4 DEF Silent, Owed, Opening
<1>6. Answers(q, <<>>, <<>>, known)
  BY <1>4 DEF Answers
<1>7. Kept(h \o q, <<>>, known)
  BY <1>1, <1>4, <1>5, <1>6, SilentKept
<1> QED BY <1>3, <1>7

\* A message that quotes the mark keeps the history, whatever was left.
LEMMA QuotedKept ==
  ASSUME NEW h, NEW q \in Seq(Messages), NEW k \in DOMAIN q, Quotes(q[k]),
         NEW rest, NEW rest2, NEW known, NEW known2, Kept(h, rest, known), known \subseteq known2,
         Cutoff(q, k), \A j \in DOMAIN q : q[j].kind # "summary"
  PROVE  Kept(h \o q, rest2, known2)
<1>1. h \in Seq(Messages) /\ SummariesTell(h, known)
  BY DEF Kept
<1>2. h \o q \in Seq(Messages) /\ SummariesTell(h \o q, known2)
  BY <1>1, TellsMore
<1>3. Sound(h \o q, LastMark(h \o q), rest2, known2)
  BY <1>1, QuotedSound
<1> QED BY <1>2, <1>3 DEF Kept

\* So does one such message alone.
LEMMA OneQuotedKept ==
  ASSUME NEW h, NEW x \in Messages, Quotes(x), NEW rest, NEW rest2, NEW known, NEW known2,
         Kept(h, rest, known), known \subseteq known2
  PROVE  Kept(Append(h, x), rest2, known2)
<1> DEFINE q == <<x>>
<1>1. q \in Seq(Messages) /\ DOMAIN q = {1} /\ q[1] = x /\ Len(q) = 1
  OBVIOUS
<1>2. Append(h, x) = h \o q
  BY AppendHistory DEF Kept
<1> HIDE DEF q
<1>3. Cutoff(q, 1)
  BY <1>1 DEF Cutoff
<1>4. x.kind # "summary"
  BY DEF Quotes
<1>5. Kept(h \o q, rest2, known2)
  BY <1>1, <1>3, <1>4, QuotedKept
<1> QED BY <1>2, <1>5

\* And some among the results of a batch.
LEMMA QuotedResultsKept ==
  ASSUME NEW h, NEW q \in Seq(Messages), \A j \in DOMAIN q : q[j].kind = "result",
         NEW l \in DOMAIN q, Quotes(q[l]),
         NEW rest, NEW rest2, NEW known, NEW known2, Kept(h, rest, known), known \subseteq known2
  PROVE  Kept(h \o q, rest2, known2)
<1> DEFINE marks == {j \in DOMAIN q : Quotes(q[j])}
<1>1. DOMAIN q = 1 .. Len(q) /\ Len(q) \in Nat
  OBVIOUS
<1>2. marks \in SUBSET (0 .. Len(q)) /\ marks # {}
  BY <1>1
<1>3. PICK k \in marks : \A j \in marks : j <= k
  <2> HIDE DEF marks
  <2> QED BY <1>1, <1>2, LastNumber
<1>4. k \in DOMAIN q /\ Quotes(q[k])
  OBVIOUS
<1>5. Cutoff(q, k)
  <2>1. ASSUME NEW j \in k + 1 .. Len(q)
        PROVE  j \in DOMAIN q /\ ~Quotes(q[j])
    <3>1. j \in DOMAIN q /\ ~(j <= k)
      BY <1>1, <1>4
    <3> QED BY <1>3, <3>1
  <2> QED BY <2>1 DEF Cutoff
<1> HIDE DEF marks
<1> QED BY <1>4, <1>5, QuotedKept

\* The message of the calls keeps the history and leaves them to be answered.
LEMMA CallsKept ==
  ASSUME NEW h, NEW calls \in Seq(CallRecords), NEW known \in SUBSET Told, Kept(h, <<>>, known)
  PROVE  Kept(Append(h, CallsMsg(calls, FALSE)), calls, known)
<1> DEFINE x == CallsMsg(calls, FALSE)
           m == LastMark(h)
           g == Append(h, x)
<1>1. h \in Seq(Messages) /\ SummariesTell(h, known)
  BY DEF Kept
<1>2. Sound(h, m, <<>>, known)
  BY DEF Kept
<1>3. m \in 0 .. Len(h) /\ (m # 0 => Marked(h[m]))
  BY <1>1, MarkIsLast DEF IsMark
<1>4. x \in Messages /\ x.kind = "calls"
  BY MessagesMade
<1> HIDE DEF m
<1>5. Sound(g, m, calls, known)
  BY <1>1, <1>2, <1>3, CallsSound
<1> HIDE DEF x
<1>6. /\ g \in Seq(Messages) /\ Len(g) = Len(h) + 1 /\ Len(h) \in Nat
      /\ (\A i \in 1 .. Len(h) : g[i] = h[i]) /\ g[Len(h) + 1] = x
  BY <1>1, <1>4, AppendHistory
<1> HIDE DEF g
<1>7. m \in 0 .. Len(g) /\ (m # 0 => Marked(g[m]))
  <2>1. m # 0 => m \in 1 .. Len(h)
    BY <1>3, <1>6
  <2> QED BY <1>3, <1>6, <2>1
<1>8. LastMark(g) = m
  <2>1. Unmarked(g, m)
    BY <1>5 DEF Sound
  <2> QED BY <1>6, <1>7, <2>1, UnmarkedMark
<1>9. SummariesTell(g, known)
  <2> SUFFICES ASSUME NEW i \in DOMAIN g, g[i].kind = "summary"
               PROVE  g[i].outcomes \subseteq known
    BY DEF SummariesTell
  <2>1. i \in 1 .. Len(h) /\ g[i] = h[i]
    BY <1>4, <1>6
  <2> QED BY <1>1, <2>1 DEF SummariesTell
<1> QED BY <1>5, <1>6, <1>8, <1>9 DEF Kept, g, x

\* Shaping keeps the history, and what it sends is short.
LEMMA ShapedKept ==
  ASSUME NEW h, NEW known \in SUBSET Told, Kept(h, <<>>, known)
  PROVE  /\ Kept(Shaped(h), <<>>, known)
         /\ Len(AfterBoundary(Shaped(h))) <= 8
<1> DEFINE g == Shaped(h)
           m == LastMark(g)
<1>1. /\ g \in Seq(Messages) /\ Sound(g, m, <<>>, known) /\ SummariesTell(g, known)
      /\ m \in 0 .. Len(g) /\ Len(g) - m <= 8
  BY ShapedSound DEF Kept
<1> HIDE DEF g
<1>2. AfterBoundary(g) = SubSeq(g, m + 1, Len(g))
  BY DEF AfterBoundary
<1>3. Kept(g, <<>>, known)
  BY <1>1 DEF Kept
<1> HIDE DEF m
<1> DEFINE a == m + 1
           n == Len(g)
<1>4. a \in Nat \ {0} /\ n \in Nat /\ n <= Len(g) /\ a <= n + 1 /\ n - a + 1 <= 8
  BY <1>1
<1> HIDE DEF a, n
<1>5. Len(SubSeq(g, a, n)) = n - a + 1
  BY <1>1, <1>4, Slice
<1>6. Len(SubSeq(g, a, n)) <= 8
  BY <1>4, <1>5
<1> QED BY <1>2, <1>3, <1>6 DEF a, n, g

-----------------------------------------------------------------------------
(* The actions.                                                            *)

\* The invariant, for the states in which a run goes on.
LEMMA GoesOn ==
  ASSUME ConversationInv, pc # "done"
  PROVE  Kept(history, left, truth) /\ (pc # "calls" => left = <<>>)
BY DEF ConversationInv, TypedInv, HistoryInv, Kept

\* A request.
LEMMA AskKeeps ==
  ASSUME ConversationInv, Ask
  PROVE  ConversationInv'
<1> USE DEF Ask
<1>1. Kept(history, <<>>, truth) /\ left = <<>> /\ TypedInv /\ AnswerInv
  BY GoesOn DEF ConversationInv
<1>2. truth \in SUBSET Told
  BY <1>1 DEF TypedInv
<1>3. Kept(history', <<>>, truth) /\ Len(AfterBoundary(history')) <= 8
  BY <1>1, <1>2, ShapedKept
<1>4. history' \in Seq(Messages) /\ SummariesTell(history', truth)
      /\ Sound(history', LastMark(history'), <<>>, truth)
  BY <1>3 DEF Kept
<1>5. TypedInv'
  BY <1>1, <1>4, ConversationAssumption DEF TypedInv
<1>6. HistoryInv'
  BY <1>1, <1>4 DEF HistoryInv
<1>7. RequestInv'
  BY <1>3 DEF RequestInv
<1>8. AnswerInv'
  BY <1>1 DEF AnswerInv
<1> QED BY <1>4, <1>5, <1>6, <1>7, <1>8 DEF ConversationInv

\* Steps that leave the history alone.
LEMMA QuietKeeps ==
  ASSUME ConversationInv,
         \/ OutOfSteps \/ EndCalls \/ EndDrain
         \/ UNCHANGED vars
  PROVE  ConversationInv'
<1>1. TypedInv /\ HistoryInv /\ SummariesTell(history, truth) /\ RequestInv /\ AnswerInv
  BY DEF ConversationInv
<1>2. CASE OutOfSteps
  <2> USE <1>2 DEF OutOfSteps
  <2>1. TypedInv' /\ AnswerInv'
    BY <1>1 DEF TypedInv, AnswerInv
  <2>2. HistoryInv' /\ RequestInv'
    BY DEF HistoryInv, RequestInv
  <2>3. SummariesTell(history, truth)'
    BY <1>1
  <2> QED BY <2>1, <2>2, <2>3 DEF ConversationInv
<1>3. CASE EndCalls
  <2> USE <1>3 DEF EndCalls
  <2>1. TypedInv' /\ AnswerInv'
    BY <1>1 DEF TypedInv, AnswerInv
  <2>2. HistoryInv'
    BY <1>1 DEF HistoryInv
  <2>3. SummariesTell(history, truth)' /\ RequestInv'
    BY <1>1 DEF RequestInv
  <2> QED BY <2>1, <2>2, <2>3 DEF ConversationInv
<1>4. CASE EndDrain
  <2> USE <1>4 DEF EndDrain
  <2>1. TypedInv' /\ AnswerInv'
    BY <1>1 DEF TypedInv, AnswerInv
  <2>2. HistoryInv'
    BY <1>1 DEF HistoryInv
  <2>3. SummariesTell(history, truth)' /\ RequestInv'
    BY <1>1 DEF RequestInv
  <2> QED BY <2>1, <2>2, <2>3 DEF ConversationInv
<1>5. CASE UNCHANGED vars
  <2> USE <1>5 DEF vars
  <2>1. TypedInv' /\ AnswerInv'
    BY <1>1 DEF TypedInv, AnswerInv
  <2>2. HistoryInv' /\ RequestInv'
    BY <1>1 DEF HistoryInv, RequestInv
  <2>3. SummariesTell(history, truth)'
    BY <1>1
  <2> QED BY <2>1, <2>2, <2>3 DEF ConversationInv
<1> QED BY <1>2, <1>3, <1>4, <1>5

\* A response that cannot be taken.
LEMMA BadResponseKeeps ==
  ASSUME ConversationInv, NEW notices \in {<<>>, <<Msg("notice")>>}, BadResponse(notices)
  PROVE  ConversationInv'
<1> USE DEF BadResponse
<1>1. Kept(history, <<>>, truth) /\ left = <<>> /\ TypedInv /\ AnswerInv
  BY GoesOn DEF ConversationInv
<1>2. truth \in SUBSET Told
  BY <1>1 DEF TypedInv
<1>3. Kept(history', <<>>, truth)
  <2>1. PICK quotes \in BOOLEAN : history' = Append(history, ProseMsg(quotes)) \o notices
    OBVIOUS
  <2> DEFINE x == ProseMsg(quotes)
             h == Append(history, x)
             y == Msg("notice")
  <2>2. x \in Messages /\ x.kind = "prose" /\ Quotes(x) = quotes
    BY MessagesMade
  <2>3. y \in Messages /\ y.kind = "notice" /\ notices \in {<<>>, <<y>>}
    BY MessagesMade
  <2> HIDE DEF x, y
  <2>4. Kept(h, <<>>, truth)
    <3>1. CASE quotes
      BY <1>1, <2>2, <3>1, OneQuotedKept
    <3>2. CASE ~quotes
      <4> DEFINE q == <<x>>
      <4>1. q \in Seq(Messages) /\ \A k \in DOMAIN q : q[k] = x
        BY <2>2
      <4>2. h = history \o q
        BY <1>1, <2>2, AppendHistory DEF Kept
      <4> HIDE DEF q, h
      <4>3. \A k \in DOMAIN q : q[k].kind \in {"prose", "notice"} /\ ~Quotes(q[k])
        BY <2>2, <3>2, <4>1
      <4> QED BY <1>1, <1>2, <4>1, <4>2, <4>3, PlainKept
    <3> QED BY <3>1, <3>2
  <2>5. /\ notices \in Seq(Messages)
        /\ \A k \in DOMAIN notices : notices[k].kind \in {"prose", "notice"} /\ ~Quotes(notices[k])
    <3>1. ~Quotes(y)
      BY <2>3 DEF Quotes
    <3>2. <<>> \in Seq(Messages) /\ DOMAIN <<>> = {}
      OBVIOUS
    <3>3. <<y>> \in Seq(Messages) /\ \A k \in DOMAIN <<y>> : <<y>>[k] = y
      BY <2>3
    <3> QED BY <2>3, <3>1, <3>2, <3>3
  <2>6. history' = h \o notices
    BY <2>1 DEF x
  <2> HIDE DEF h
  <2> QED BY <1>2, <2>4, <2>5, <2>6, PlainKept
<1>4. history' \in Seq(Messages) /\ SummariesTell(history', truth)
      /\ Sound(history', LastMark(history'), <<>>, truth)
  BY <1>3 DEF Kept
<1>5. TypedInv'
  BY <1>1, <1>4 DEF TypedInv
<1>6. HistoryInv'
  BY <1>1, <1>4 DEF HistoryInv
<1>7. RequestInv' /\ AnswerInv'
  BY <1>1 DEF RequestInv, AnswerInv
<1> QED BY <1>4, <1>5, <1>6, <1>7 DEF ConversationInv

\* A response with calls.
LEMMA CallToolsKeeps ==
  ASSUME ConversationInv, NEW native \in Seq(Tools), NEW t \in Texts, CallTools(native, t)
  PROVE  ConversationInv'
<1> DEFINE calls == CallsOf(native, t)
<1>0. /\ pc = "respond" /\ pc' = "calls"
      /\ (\E quotes \in BOOLEAN : history' = Append(history, CallsMsg(calls, quotes)))
      /\ left' = calls /\ SyncPlan
      /\ UNCHANGED <<step, sent, shown, offered, answer, truth>>
  BY DEF CallTools
<1>1. Kept(history, <<>>, truth) /\ left = <<>> /\ TypedInv /\ AnswerInv
  BY <1>0, GoesOn DEF ConversationInv
<1>2. truth \in SUBSET Told
  BY <1>1 DEF TypedInv
<1>3. calls \in Seq(CallRecords)
  BY <1>1, CallsTyped
<1> HIDE DEF calls
<1>4. Kept(history', left', truth)
  <2>1. PICK quotes \in BOOLEAN : history' = Append(history, CallsMsg(calls, quotes))
    BY <1>0
  <2>2. CASE quotes
    <3>1. CallsMsg(calls, quotes) \in Messages /\ Quotes(CallsMsg(calls, quotes))
      BY <1>3, <2>2, MessagesMade
    <3> QED BY <1>0, <1>1, <2>1, <3>1, OneQuotedKept
  <2>3. CASE ~quotes
    <3>1. history' = Append(history, CallsMsg(calls, FALSE))
      BY <2>1, <2>3
    <3> QED BY <1>0, <1>1, <1>2, <1>3, <3>1, CallsKept
  <2> QED BY <2>2, <2>3
<1>5. history' \in Seq(Messages) /\ SummariesTell(history', truth)
      /\ Sound(history', LastMark(history'), left', truth)
  BY <1>4 DEF Kept
<1>6. plan' \in Nat /\ cursor' \in Nat
  BY <1>0, <1>1, ConversationAssumption DEF SyncPlan, TypedInv
<1>7. TypedInv'
  BY <1>0, <1>1, <1>3, <1>5, <1>6 DEF TypedInv
<1>8. HistoryInv'
  BY <1>0, <1>5 DEF HistoryInv
<1>9. RequestInv' /\ AnswerInv'
  BY <1>0, <1>1 DEF RequestInv, AnswerInv
<1> QED BY <1>0, <1>5, <1>7, <1>8, <1>9 DEF ConversationInv

\* A response without calls.
LEMMA SpeakKeeps ==
  ASSUME ConversationInv, NEW native \in Seq(Tools), NEW t \in Texts, Speak(native, t)
  PROVE  ConversationInv'
<1>1. /\ pc = "respond" /\ SyncPlan
      /\ CallsOf(native, t) = <<>> /\ ~HasMarkup(Cleaned(t, offered), offered)
      /\ UNCHANGED <<step, sent, shown, offered, left, editOk, mishaps, truth>>
      /\ \/ pc' = "drain" /\ UNCHANGED <<history, answer>>
         \/ history' = Append(history, ProseMsg(FALSE)) /\ answer' = t /\ pc' = "done"
  BY DEF Speak
<1>2. Kept(history, <<>>, truth) /\ left = <<>> /\ TypedInv /\ AnswerInv /\ HistoryInv
  BY <1>1, GoesOn DEF ConversationInv
<1>3. plan' \in Nat /\ cursor' \in Nat
  BY <1>1, <1>2, ConversationAssumption DEF SyncPlan, TypedInv
<1>4. history \in Seq(Messages) /\ SummariesTell(history, truth)
  BY <1>2 DEF Kept
<1>5. CASE pc' = "drain" /\ UNCHANGED <<history, answer>>
  <2>1. TypedInv'
    BY <1>1, <1>2, <1>3, <1>5 DEF TypedInv
  <2>2. HistoryInv'
    BY <1>1, <1>2, <1>5 DEF HistoryInv
  <2>3. RequestInv' /\ AnswerInv'
    BY <1>2, <1>5 DEF RequestInv, AnswerInv
  <2> QED BY <1>1, <1>4, <1>5, <2>1, <2>2, <2>3 DEF ConversationInv
<1>6. CASE history' = Append(history, ProseMsg(FALSE)) /\ answer' = t /\ pc' = "done"
  <2>1. ProseMsg(FALSE) \in Messages /\ ProseMsg(FALSE).kind = "prose"
    BY MessagesMade
  <2> DEFINE x == ProseMsg(FALSE)
             q == <<x>>
  <2>0. x \in Messages /\ x.kind = "prose"
    BY <2>1
  <2> HIDE DEF x
  <2>2. q \in Seq(Messages) /\ \A k \in DOMAIN q : q[k].kind = "prose"
    BY <2>0
  <2>3. history' = history \o q
    BY <1>4, <1>6, <2>1, AppendHistory DEF x
  <2> HIDE DEF q
  <2>4. history' \in Seq(Messages) /\ SummariesTell(history', truth)
    <3>1. \A k \in DOMAIN q : q[k].kind # "summary"
      BY <2>2
    <3> QED BY <1>4, <2>2, <2>3, <3>1, TellsMore
  <2>5. TypedInv'
    BY <1>1, <1>2, <1>3, <1>6, <2>4 DEF TypedInv
  <2>6. HistoryInv' /\ RequestInv'
    BY <1>6 DEF HistoryInv, RequestInv
  <2>7. AnswerInv'
    <3>1. CallSegments(t, offered) = <<>>
      BY <1>1, <1>2, CallsTyped
    <3>2. \A i \in DOMAIN t : t[i].form \in {"prose", "dsml_cut"}
      BY <1>1, <3>1, SpokenIsProse
    <3> QED BY <1>6, <3>2 DEF AnswerInv
  <2> QED BY <1>1, <2>4, <2>5, <2>6, <2>7 DEF ConversationInv
<1> QED BY <1>1, <1>5, <1>6

\* A batch of retrieval calls.
LEMMA RunBatchKeeps ==
  ASSUME ConversationInv, RunBatch
  PROVE  ConversationInv'
<1> DEFINE B == BatchLength
           calls == SubSeq(left, 1, B)
           N == Len(left)
           rest == SubSeq(left, B + 1, N)
<1>1. Kept(history, left, truth) /\ TypedInv /\ AnswerInv /\ pc = "calls"
  BY GoesOn DEF ConversationInv, RunBatch
<1>2. left \in Seq(CallRecords) /\ truth \in SUBSET Told
  BY <1>1 DEF TypedInv
<1>3. B \in 0 .. N /\ N \in Nat
  BY <1>2, BatchTyped
<1>4. PICK said \in [DOMAIN calls -> {"ok", "blocked", "failed"}], quoting \in SUBSET DOMAIN calls :
        /\ history' = history \o Results(calls, said, quoting)
        /\ truth' = truth \cup {[call |-> calls[i], said |-> said[i]] : i \in DOMAIN calls}
        /\ left' = rest
  BY DEF RunBatch
<1>5. UNCHANGED <<pc, step, failures, sent, shown, offered, plan, cursor, editOk, answer>>
  BY DEF RunBatch
<1> HIDE DEF B
<1>6. calls \in Seq(CallRecords) /\ Len(calls) = B /\ DOMAIN calls = 1 .. B
      /\ \A k \in 1 .. B : calls[k] = left[k]
  <2>1. \A k \in 1 .. B : left[k] \in CallRecords
    BY <1>2, <1>3
  <2>2. calls \in Seq(CallRecords) /\ Len(calls) = (IF 1 <= B THEN B - 1 + 1 ELSE 0)
        /\ \A k \in 1 .. B - 1 + 1 : calls[k] = left[1 + k - 1]
    BY <1>3, <2>1, SubSeqProperties
  <2> HIDE DEF calls
  <2> QED BY <1>3, <2>2
<1>7. rest \in Seq(CallRecords) /\ Len(rest) = N - B
      /\ \A k \in 1 .. N - B : rest[k] = left[B + k]
  <2> DEFINE a == B + 1
  <2>1. \A k \in a .. N : left[k] \in CallRecords
    BY <1>2, <1>3
  <2>2. a \in Int /\ N \in Int
    BY <1>3
  <2> HIDE DEF a, N
  <2>3. /\ SubSeq(left, a, N) \in Seq(CallRecords)
        /\ Len(SubSeq(left, a, N)) = (IF a <= N THEN N - a + 1 ELSE 0)
        /\ \A k \in 1 .. N - a + 1 : SubSeq(left, a, N)[k] = left[a + k - 1]
    BY <2>1, <2>2, SubSeqProperties
  <2>4. N - a + 1 = N - B /\ (\A k \in 1 .. N - B : a + k - 1 = B + k) /\ (a > N => N - B = 0)
    BY <1>3 DEF a
  <2>5. Len(SubSeq(left, a, N)) = N - B /\ \A k \in 1 .. N - B : SubSeq(left, a, N)[k] = left[B + k]
    BY <1>3, <2>2, <2>3, <2>4
  <2> QED BY <2>3, <2>5 DEF a
<1> HIDE DEF calls, rest
<1> DEFINE q == Results(calls, said, quoting)
<1>8. said \in [DOMAIN calls -> Saids]
  BY DEF Saids
<1>9. /\ q \in Seq(Messages) /\ Len(q) = B
      /\ \A k \in 1 .. B : q[k].kind = "result" /\ q[k].of = left[k].id /\ q[k].said = said[k]
  <2>1. /\ q \in Seq(Messages) /\ Len(q) = Len(calls)
        /\ \A k \in DOMAIN calls : /\ q[k].kind = "result" /\ q[k].of = calls[k].id
                                   /\ q[k].said = said[k]
    <3>1. calls \in Seq(CallRecords)
      BY <1>6
    <3> QED BY <1>8, <3>1, ResultsTyped
  <2> HIDE DEF q
  <2> QED BY <1>6, <2>1
<1> HIDE DEF q
<1>10. ASSUME NEW k \in 1 .. B
       PROVE  [call |-> left[k], said |-> said[k]] \in truth'
  BY <1>4, <1>6
<1>11. truth' \in SUBSET Told
  <2>1. \A k \in DOMAIN calls : [call |-> calls[k], said |-> said[k]] \in Told
    BY <1>6, <1>8 DEF Told
  <2> QED BY <1>2, <1>4, <2>1
<1>12. \A t \in truth' : t \in truth \/ t.call \in Range(left)
  <2> SUFFICES ASSUME NEW k \in 1 .. B
               PROVE  left[k] \in Range(left)
    BY <1>4, <1>6
  <2>1. k \in DOMAIN left
    BY <1>2, <1>3
  <2> QED BY <2>1 DEF Range
<1>13. Kept(history', left', truth')
  <2>1. truth \subseteq truth'
    BY <1>4
  <2>2. DOMAIN q = 1 .. B
    BY <1>9
  <2>3. ASSUME NEW l \in DOMAIN q, Quotes(q[l])
        PROVE  Kept(history \o q, rest, truth')
    BY <1>1, <1>9, <2>1, <2>2, <2>3, QuotedResultsKept
  <2>4. ASSUME \A l \in DOMAIN q : ~Quotes(q[l])
        PROVE  Kept(history \o q, rest, truth')
    <3>1. Len(q) <= Len(left) /\ Len(rest) = Len(left) - Len(q)
      BY <1>3, <1>7, <1>9
    <3>2. \A k \in 1 .. Len(rest) : rest[k] = left[Len(q) + k]
      BY <1>7, <1>9
    <3>3. \A k \in 1 .. Len(q) :
            /\ q[k].kind = "result" /\ q[k].of = left[k].id /\ ~Quotes(q[k])
            /\ [call |-> left[k], said |-> q[k].said] \in truth'
      BY <1>9, <1>10, <2>2, <2>4
    <3> HIDE DEF N
    <3> QED BY <1>1, <1>2, <1>7, <1>9, <1>11, <1>12, <2>1, <3>1, <3>2, <3>3, AnsweredKept
  <2>5. Kept(history \o q, rest, truth')
    BY <2>3, <2>4
  <2> QED BY <1>4, <2>5 DEF q
<1>14. history' \in Seq(Messages) /\ SummariesTell(history', truth')
       /\ Sound(history', LastMark(history'), left', truth')
  BY <1>13 DEF Kept
<1>15. TypedInv'
  BY <1>1, <1>4, <1>5, <1>7, <1>11, <1>14 DEF TypedInv
<1>16. HistoryInv'
  BY <1>1, <1>5, <1>14 DEF HistoryInv
<1>17. RequestInv' /\ AnswerInv'
  BY <1>1, <1>5 DEF RequestInv, AnswerInv
<1> QED BY <1>14, <1>15, <1>16, <1>17 DEF ConversationInv

\* A call on its own.
LEMMA RunCallKeeps ==
  ASSUME ConversationInv, RunCall
  PROVE  ConversationInv'
<1> DEFINE call == Head(left)
<1>1. Kept(history, left, truth) /\ TypedInv /\ AnswerInv /\ pc = "calls" /\ left # <<>>
  BY GoesOn DEF ConversationInv, RunCall
<1>2. left \in Seq(CallRecords) /\ truth \in SUBSET Told
  BY <1>1 DEF TypedInv
<1>3. PICK said \in {"ok", "refused", "blocked", "failed"}, quotes \in BOOLEAN :
        /\ history' = Append(history, ResultMsg(call.id, said, quotes))
        /\ truth' = truth \cup {[call |-> call, said |-> said]}
        /\ \E came \in EditCame(call, said) : EditLeaves(came)
  BY DEF RunCall
<1>4. left' = Tail(left) /\ UNCHANGED <<pc, step, failures, sent, shown, offered, cursor, answer>>
  BY DEF RunCall
<1>5. /\ call \in CallRecords /\ call = left[1] /\ Len(left) \in Nat /\ Len(left) >= 1
      /\ Tail(left) \in Seq(CallRecords) /\ Len(Tail(left)) = Len(left) - 1
      /\ \A k \in 1 .. Len(left) - 1 : Tail(left)[k] = left[1 + k]
  BY <1>1, <1>2
<1> HIDE DEF call
<1>6. said \in Saids /\ call.id \in Int \X Int
  BY <1>5 DEF Saids, CallRecords
<1> DEFINE x == ResultMsg(call.id, said, quotes)
           t == [call |-> call, said |-> said]
<1>7. /\ x \in Messages /\ x.kind = "result" /\ x.of = call.id /\ x.said = said
      /\ Quotes(x) = quotes
  BY <1>6, ResultMade
<1> HIDE DEF x
<1>8. t \in Told /\ t.call = call
  BY <1>5, <1>6 DEF Told
<1> HIDE DEF t
<1>9. truth' \in SUBSET Told /\ truth \subseteq truth' /\ t \in truth'
  BY <1>2, <1>3, <1>8 DEF t
<1>10. history \in Seq(Messages)
  BY <1>1 DEF Kept
<1>11. Kept(Append(history, x), Tail(left), truth')
  <2>1. CASE quotes
    BY <1>1, <1>7, <1>9, <2>1, OneQuotedKept
  <2>2. CASE ~quotes
    <3> DEFINE q == <<x>>
    <3>1. q \in Seq(Messages) /\ Len(q) = 1 /\ q[1] = x
      BY <1>7
    <3>2. Append(history, x) = history \o q
      BY <1>7, <1>10, AppendHistory
    <3> HIDE DEF q
    <3>3. \A u \in truth' : u \in truth \/ u.call \in Range(left)
      <4>1. 1 \in DOMAIN left
        BY <1>2, <1>5
      <4>2. call \in Range(left)
        BY <1>5, <4>1 DEF Range
      <4> QED BY <1>3, <1>8, <4>2 DEF t
    <3>4. Len(q) <= Len(left) /\ Len(Tail(left)) = Len(left) - Len(q)
      BY <1>5, <3>1
    <3>5. \A k \in 1 .. Len(Tail(left)) : Tail(left)[k] = left[Len(q) + k]
      BY <1>5, <3>1
    <3>6. \A k \in 1 .. Len(q) :
            /\ q[k].kind = "result" /\ q[k].of = left[k].id /\ ~Quotes(q[k])
            /\ [call |-> left[k], said |-> q[k].said] \in truth'
      <4> SUFFICES ASSUME NEW k \in 1 .. Len(q)
                   PROVE  /\ q[k].kind = "result" /\ q[k].of = left[k].id /\ ~Quotes(q[k])
                          /\ [call |-> left[k], said |-> q[k].said] \in truth'
        OBVIOUS
      <4>1. k = 1
        BY <3>1
      <4> QED BY <1>5, <1>7, <1>9, <2>2, <3>1, <4>1 DEF t
    <3>7. Tail(left) \in Seq(CallRecords)
      BY <1>5
    <3>8. Kept(history \o q, Tail(left), truth')
      BY <1>1, <1>2, <1>9, <3>1, <3>3, <3>4, <3>5, <3>6, <3>7, AnsweredKept
    <3> QED BY <3>2, <3>8
  <2> QED BY <2>1, <2>2
<1>12. Kept(history', left', truth')
  BY <1>3, <1>4, <1>11 DEF x
<1>13. history' \in Seq(Messages) /\ SummariesTell(history', truth')
       /\ Sound(history', LastMark(history'), left', truth')
  BY <1>12 DEF Kept
<1>14. TypedInv'
  <2>1. plan' = plan \/ plan' = 0
    BY <1>3 DEF EditLeaves
  <2>2. plan' \in Nat
    BY <1>1, <2>1 DEF TypedInv
  <2> QED BY <1>1, <1>4, <1>5, <1>9, <1>13, <2>2 DEF TypedInv
<1>15. HistoryInv'
  BY <1>1, <1>4, <1>13 DEF HistoryInv
<1>16. RequestInv' /\ AnswerInv'
  BY <1>1, <1>4 DEF RequestInv, AnswerInv
<1> QED BY <1>13, <1>14, <1>15, <1>16 DEF ConversationInv

\* A call that is denied.
LEMMA DenyKeeps ==
  ASSUME ConversationInv, Deny
  PROVE  ConversationInv'
<1> DEFINE call == Head(left)
           x == ResultMsg(call.id, "denied", FALSE)
           t == [call |-> call, said |-> "denied"]
           q == <<x>>
<1>1. Kept(history, left, truth) /\ TypedInv /\ AnswerInv /\ left # <<>>
  BY GoesOn DEF ConversationInv, Deny
<1>2. left \in Seq(CallRecords) /\ truth \in SUBSET Told /\ history \in Seq(Messages)
      /\ SummariesTell(history, truth)
  BY <1>1 DEF TypedInv, Kept
<1>3. /\ history' = Append(history, x) /\ truth' = truth \cup {t} /\ left' = <<>> /\ pc' = "done"
      /\ UNCHANGED <<step, failures, sent, shown, offered, plan, cursor, editOk, answer, mishaps>>
  BY DEF Deny
<1>4. call \in CallRecords
  BY <1>1, <1>2
<1> HIDE DEF call
<1>5. t \in Told /\ call.id \in Int \X Int /\ "denied" \in Saids /\ FALSE \in BOOLEAN
  BY <1>4 DEF Told, Saids, CallRecords
<1> HIDE DEF t
<1>6. x \in Messages /\ x.kind = "result"
  BY <1>5 DEF ResultMsg, Messages, ResultMessages
<1> HIDE DEF x
<1>7. q \in Seq(Messages) /\ (\A k \in DOMAIN q : q[k].kind # "summary")
  BY <1>6
<1>8. history' = history \o q
  BY <1>2, <1>3, <1>6, AppendHistory
<1> HIDE DEF q
<1>9. history' \in Seq(Messages) /\ SummariesTell(history', truth')
  <2>1. truth \subseteq truth'
    BY <1>3
  <2> QED BY <1>2, <1>7, <1>8, <2>1, TellsMore
<1>10. TypedInv'
  <2>1. truth' \in SUBSET Told /\ left' \in Seq(CallRecords)
    BY <1>2, <1>3, <1>5
  <2> QED BY <1>1, <1>3, <1>9, <2>1 DEF TypedInv
<1>11. HistoryInv' /\ RequestInv' /\ AnswerInv'
  BY <1>1, <1>3 DEF HistoryInv, RequestInv, AnswerInv
<1> QED BY <1>9, <1>10, <1>11 DEF ConversationInv

\* A step of the edit queue.
LEMMA DrainStepKeeps ==
  ASSUME ConversationInv, DrainStep
  PROVE  ConversationInv'
<1>1. Kept(history, <<>>, truth) /\ TypedInv /\ AnswerInv /\ pc = "drain" /\ left = <<>>
      /\ plan > 0
  BY GoesOn DEF ConversationInv, DrainStep
<1>2. truth \in SUBSET Told /\ cursor \in Nat /\ plan \in Nat
  BY <1>1 DEF TypedInv
<1>3. PICK said \in {"ok", "failed"}, quotes \in BOOLEAN :
        /\ history' = Append(history, ResultMsg(PlanId(cursor), said, quotes))
        /\ plan' = IF said = "ok" THEN plan - 1 ELSE 0
        /\ cursor' = cursor + 1
  BY DEF DrainStep
<1>4. UNCHANGED <<pc, step, failures, sent, shown, offered, left, editOk, answer, truth>>
  BY DEF DrainStep
<1> DEFINE x == ResultMsg(PlanId(cursor), said, quotes)
<1>5. x \in Messages /\ x.kind = "result" /\ x.of[1] = -1 /\ Quotes(x) = quotes
  <2>1. PlanId(cursor) \in Int \X Int /\ PlanId(cursor)[1] = -1
    BY <1>2 DEF PlanId
  <2>2. said \in Saids
    BY DEF Saids
  <2> QED BY <2>1, <2>2, ResultMade
<1> HIDE DEF x
<1>6. Kept(Append(history, x), <<>>, truth)
  <2>1. CASE quotes
    BY <1>1, <1>5, <2>1, OneQuotedKept
  <2>2. CASE ~quotes
    BY <1>1, <1>2, <1>5, <2>2, StepKept
  <2> QED BY <2>1, <2>2
<1>7. Kept(history', left', truth')
  BY <1>1, <1>3, <1>4, <1>6 DEF x
<1>8. history' \in Seq(Messages) /\ SummariesTell(history', truth')
      /\ Sound(history', LastMark(history'), left', truth')
  BY <1>7 DEF Kept
<1>9. TypedInv'
  <2>1. plan' \in Nat /\ cursor' \in Nat
    BY <1>1, <1>2, <1>3
  <2> QED BY <1>1, <1>4, <1>8, <2>1 DEF TypedInv
<1>10. HistoryInv'
  BY <1>1, <1>4, <1>8 DEF HistoryInv
<1>11. RequestInv' /\ AnswerInv'
  BY <1>1, <1>4 DEF RequestInv, AnswerInv
<1> QED BY <1>8, <1>9, <1>10, <1>11 DEF ConversationInv

\* Every step keeps the invariant.
LEMMA StepKeeps ==
  ASSUME ConversationInv, [Next]_vars
  PROVE  ConversationInv'
<1>1. CASE StreamFails
  BY <1>1, BadResponseKeeps DEF StreamFails
<1>2. ASSUME NEW r \in Responses,
             Malformed(r[1], r[2]) \/ CallTools(r[1], r[2]) \/ Speak(r[1], r[2])
      PROVE  ConversationInv'
  <2>1. r[1] \in Seq(Tools) /\ r[2] \in Texts
    BY ConversationAssumption
  <2>2. CASE Malformed(r[1], r[2])
    BY <2>2, BadResponseKeeps DEF Malformed
  <2>3. CASE CallTools(r[1], r[2])
    BY <2>1, <2>3, CallToolsKeeps
  <2>4. CASE Speak(r[1], r[2])
    BY <2>1, <2>4, SpeakKeeps
  <2> QED BY <1>2, <2>2, <2>3, <2>4
<1>3. CASE Ask
  BY <1>3, AskKeeps
<1>4. CASE OutOfSteps \/ EndCalls \/ EndDrain \/ UNCHANGED vars
  BY <1>4, QuietKeeps
<1>5. CASE RunBatch
  BY <1>5, RunBatchKeeps
<1>6. CASE RunCall
  BY <1>6, RunCallKeeps
<1>7. CASE Deny
  BY <1>7, DenyKeeps
<1>8. CASE DrainStep
  BY <1>8, DrainStepKeeps
<1> QED BY <1>1, <1>2, <1>3, <1>4, <1>5, <1>6, <1>7, <1>8 DEF Next

-----------------------------------------------------------------------------
(* The theorems.                                                           *)

\* Every reachable state satisfies the inductive invariant: behind the last mark of the
\* history each assistant message has the results of its calls, in order and as they
\* were, up to the calls that are still open, and no call is forgotten.
THEOREM ConversationInvariant == Spec => []ConversationInv
<1>1. Init => ConversationInv
  <2> SUFFICES ASSUME Init
               PROVE  ConversationInv
    OBVIOUS
  <2> USE DEF Init
  <2>1. /\ history = <<>> /\ history \in Seq(Messages) /\ Len(history) = 0 /\ DOMAIN history = {}
        /\ left = <<>> /\ truth = {} /\ pc = "ask"
    OBVIOUS
  <2>2. LastMark(history) \in 0 .. 0
    BY <2>1, MarkIsLast DEF IsMark
  <2>3. LastMark(history) = 0
    BY <2>2
  <2>4. \A i \in 0 + 1 .. Len(history) : FALSE
    BY <2>1
  <2>5. Sound(history, 0, <<>>, {})
    BY <2>1, <2>4 DEF Sound, Unmarked, Rounds, Origins, LeftOf, Remembered
  <2>6. TypedInv
    <3>1. <<>> \in Seq(CallRecords) /\ offered \in SUBSET Tools
      OBVIOUS
    <3> QED BY <2>1, <3>1 DEF TypedInv
  <2>7. HistoryInv /\ SummariesTell(history, truth) /\ RequestInv
    BY <2>1, <2>3, <2>5 DEF HistoryInv, SummariesTell, RequestInv
  <2>8. AnswerInv
    BY DEF AnswerInv
  <2> QED BY <2>6, <2>7, <2>8 DEF ConversationInv
<1> QED BY <1>1, StepKeeps, PTL DEF Spec

\* What a request carries is well formed: getMessagesAfterCompactBoundary cuts rounds only
\* in the way that a fold does.
THEOREM RequestsWellFormed == Spec => []SentWellFormed
<1>1. ConversationInv => SentWellFormed
  <2> SUFFICES ASSUME ConversationInv, pc = "respond"
               PROVE  /\ Len(sent) <= 8
                      /\ \A i \in DOMAIN sent :
                           /\ sent[i].kind = "calls" => Answered(i)
                           /\ sent[i].kind = "result" =>
                                PlanResult(i) \/ Called(i) \/ FoldedCall(i)
    BY DEF SentWellFormed, Requested
  <2> DEFINE m == LastMark(history)
             N == Len(history)
             L == N - m
  <2>1. Sound(history, m, <<>>, truth) /\ history \in Seq(Messages) /\ Len(sent) <= 8
        /\ sent = AfterBoundary(history)
    BY GoesOn DEF ConversationInv, RequestInv, Kept
  <2>2. m \in Nat /\ N \in Nat /\ m <= N /\ L \in Nat /\ L = N - m
    BY <2>1, MarkIsLast DEF IsMark
  <2>3. sent = SubSeq(history, m + 1, N)
    BY <2>1 DEF AfterBoundary
  <2>4. Rounds(history, m, <<>>, truth) /\ Origins(history, m)
    BY <2>1 DEF Sound
  <2> HIDE DEF m
  <2>5. Len(sent) = L /\ DOMAIN sent = 1 .. L /\ \A i \in 1 .. L : sent[i] = history[m + i]
    <3> DEFINE a == m + 1
    <3>1. a \in Nat \ {0} /\ N <= Len(history) /\ a <= N + 1 /\ N - a + 1 = L
      BY <2>2
    <3>2. \A i \in 1 .. L : a + i - 1 = m + i
      BY <2>2
    <3>3. sent = SubSeq(history, a, N)
      BY <2>3
    <3> HIDE DEF a, N, L
    <3>4. /\ Len(SubSeq(history, a, N)) = N - a + 1 /\ DOMAIN SubSeq(history, a, N) = 1 .. N - a + 1
          /\ \A i \in 1 .. N - a + 1 : SubSeq(history, a, N)[i] = history[a + i - 1]
      BY <2>1, <2>2, <3>1, Slice
    <3> QED BY <3>1, <3>2, <3>3, <3>4
  <2> HIDE DEF L
  <2>6. \A i \in 1 .. L : m + i \in m + 1 .. N /\ m + i \in DOMAIN history
    BY <2>1, <2>2
  <2>7. ASSUME NEW i \in 1 .. L, sent[i].kind = "calls"
        PROVE  Answered(i)
    <3> SUFFICES ASSUME NEW k \in DOMAIN sent[i].calls
                 PROVE  IsResult(i + k) /\ sent[i + k].of = sent[i].calls[k].id
      BY DEF Answered
    <3> DEFINE j == m + i
    <3>1. sent[i] = history[j] /\ j \in m + 1 .. N /\ history[j] \in Messages
      BY <2>1, <2>5, <2>6
    <3>2. history[j].calls \in Seq(CallRecords)
      BY <2>7, <3>1, MessageKinds
    <3>3. k \in Nat \ {0} /\ DOMAIN <<>> = {}
      BY <3>1, <3>2
    <3>4. j + k <= N /\ history[j + k].kind = "result"
          /\ history[j + k].of = history[j].calls[k].id
      <4> HIDE DEF j
      <4> QED BY <2>4, <2>7, <3>1, <3>3 DEF Rounds
    <3>5. i + k \in 1 .. L /\ m + (i + k) = j + k
      BY <2>2, <3>3, <3>4
    <3>6. sent[i + k] = history[j + k]
      <4> HIDE DEF j
      <4> QED BY <2>5, <3>5
    <3> HIDE DEF j
    <3> QED BY <2>5, <3>1, <3>4, <3>5, <3>6 DEF IsResult
  <2>8. ASSUME NEW i \in 1 .. L, sent[i].kind = "result", ~PlanResult(i)
        PROVE  Called(i) \/ FoldedCall(i)
    <3> DEFINE j == m + i
    <3>1. sent[i] = history[j] /\ j \in m + 1 .. N
      BY <2>5, <2>6
    <3>2. RoundOf(history, m, j) \/ Rest(history, m, j)
      <4> HIDE DEF j
      <4>1. history[j].of[1] # -1 /\ history[j].kind = "result"
        BY <2>8, <3>1 DEF PlanResult
      <4> QED BY <2>4, <3>1, <4>1 DEF Origins
    <3>3. ASSUME NEW b \in m + 1 .. j - 1, history[b].kind = "calls",
                 j <= b + Len(history[b].calls)
          PROVE  Called(i)
      <4> DEFINE a == b - m
      <4>1. a \in 1 .. i - 1 /\ a \in 1 .. L /\ m + a = b
        BY <2>2
      <4>2. history[b] \in Messages
        BY <2>1, <2>2, <2>6, <4>1
      <4>3. history[b].calls \in Seq(CallRecords)
        BY <3>3, <4>2, MessageKinds
      <4>4. Len(history[b].calls) \in Nat
        BY <4>3
      <4>5. i <= a + Len(history[b].calls)
        BY <2>2, <3>3, <4>1, <4>4
      <4> HIDE DEF a
      <4>6. sent[a] = history[b]
        BY <2>5, <4>1
      <4> QED BY <3>3, <4>1, <4>5, <4>6 DEF Called
    <3>4. CASE Rest(history, m, j)
      <4>1. m > 0 /\ L # N
        BY <2>2, <3>4 DEF Rest
      <4>2. history # sent
        BY <2>5, <4>1
      <4>3. \A a \in 1 .. i : IsResult(a)
        <5> TAKE a \in 1 .. i
        <5>1. a \in 1 .. L /\ m + a \in m + 1 .. j
          BY <2>2
        <5>2. sent[a].kind = "result"
          BY <2>5, <3>4, <5>1 DEF Rest
        <5> QED BY <2>5, <5>1, <5>2 DEF IsResult
      <4> QED BY <4>2, <4>3 DEF FoldedCall
    <3> QED BY <3>2, <3>3, <3>4 DEF RoundOf
  <2> QED BY <2>1, <2>5, <2>7, <2>8
<1> QED BY <1>1, ConversationInvariant, PTL

\* build_turn_summary, which matches results to calls by their place, tells of a call what
\* came of it; and no call disappears from what the model is told.
THEOREM SummariesAreTrue == Spec => []SummariesTrue
<1>1. ConversationInv => SummariesTrue
  <2> SUFFICES ASSUME ConversationInv
               PROVE  SummariesTrue
    OBVIOUS
  <2>1. SummariesTell(history, truth)
    BY DEF ConversationInv
  <2>2. ASSUME pc = "respond", ~Quoted, NEW known \in truth, known.call.tool \in Tools
        PROVE  \/ known.call \in Calls(sent)
               \/ \E i \in DOMAIN history :
                    history[i].kind = "summary" /\ known.call \in history[i].named
    <3> DEFINE m == LastMark(history)
               N == Len(history)
    <3>1. Sound(history, m, <<>>, truth) /\ history \in Seq(Messages)
          /\ sent = AfterBoundary(history)
      BY <2>2, GoesOn DEF ConversationInv, RequestInv, Kept
    <3>2. m \in Nat /\ N \in Nat /\ m <= N
      BY <3>1, MarkIsLast DEF IsMark
    <3>3. sent = SubSeq(history, m + 1, N)
      BY <3>1 DEF AfterBoundary
    <3> HIDE DEF m
    <3>4. ~HasQuotes(history)
      BY <2>2 DEF Quoted, HasQuotes
    <3>5. InMessages(known.call, history, m) \/ InSummaries(known.call, history)
      BY <2>2, <3>1, <3>4 DEF Sound, Remembered
    <3>6. CASE InSummaries(known.call, history)
      BY <3>6 DEF InSummaries
    <3>7. ASSUME NEW i \in m + 1 .. N, history[i].kind = "calls",
                 known.call \in Range(history[i].calls)
          PROVE  known.call \in Calls(sent)
      <4> DEFINE j == i - m
                 a == m + 1
      <4>1. a \in Nat \ {0} /\ N <= Len(history) /\ a <= N + 1 /\ j \in 1 .. N - a + 1
            /\ a + j - 1 = i
        BY <3>2
      <4>2. sent = SubSeq(history, a, N)
        BY <3>3
      <4> HIDE DEF a, j, N
      <4>3. /\ DOMAIN SubSeq(history, a, N) = 1 .. N - a + 1
            /\ \A k \in 1 .. N - a + 1 : SubSeq(history, a, N)[k] = history[a + k - 1]
        BY <3>1, <3>2, <4>1, Slice
      <4>4. j \in DOMAIN sent /\ sent[j] = history[i]
        BY <4>1, <4>2, <4>3
      <4> QED BY <3>7, <4>4 DEF Calls
    <3> QED BY <3>5, <3>6, <3>7 DEF InMessages
  <2> QED BY <2>1, <2>2 DEF SummariesTrue, SummariesTell, Requested
<1> QED BY <1>1, ConversationInvariant, PTL

\* The text that _run_loop returns as the answer holds no call of a tool, whatever the
\* step offered.
THEOREM AnswersAreProse == Spec => []AnswerIsProse
<1>1. ConversationInv => AnswerIsProse
  BY DEF ConversationInv, AnswerInv, AnswerIsProse
<1> QED BY <1>1, ConversationInvariant, PTL

-----------------------------------------------------------------------------
(* The repo map service.                                                   *)

Places ==
  {"start", "finish", "failed", "dead", "refresh", "reindex", "load", "store",
   "publish", "clean", "clear", "ready", "initial", "idle", "check", "demote",
   "add"}

Typed ==
  /\ disk \in Versions /\ cache \in Indexes
  /\ map \in Indexes \cup {NoMap}
  /\ dirty \in BOOLEAN
  /\ dirtyPaths \subseteq Names
  /\ buildState \in {"idle", "building", "ready", "error"}
  /\ at \in [Threads -> Places]
  /\ indexed \in [Threads -> Indexes]
  /\ path \in [Clients -> Paths \cup {NoPath}]
  /\ floor \in Versions /\ marked \subseteq Names
  /\ raced \in BOOLEAN

\* A thread past the publication of a map finds one.
MapKept ==
  /\ buildState \in {"idle", "ready"} => map # NoMap
  /\ \A t \in Threads :
       at[t] \in {"clean", "clear", "ready", "finish", "initial"} => map # NoMap

MapSound == Typed /\ lock = Free /\ MapKept

\* The entry is what a fresh map must hold of the path.
Meets(entry, p, versions, names) ==
  entry.version >= versions[p] /\ (entry.calls \/ p \in names)

MeetsAll(index, versions, names) ==
  \A p \in Paths : Meets(index[p], p, versions, names)

Good(entry, p) == Meets(entry, p, floor, marked)
Covers(index) == MeetsAll(index, floor, marked)

\* Why an index may be published: it was read after the last mark.
IndexesCover ==
  /\ Covers(FullIndex)
  /\ \A t \in Threads : at[t] \in {"store", "publish"} => Covers(indexed[t])
  /\ \A t \in Threads :
       at[t] \in {"load", "publish", "clean", "clear"} => Covers(cache)
  /\ \A t \in Threads : at[t] = "clean" => Covers(map)

\* What a map and the cache may lack is known to be dirty, or about to be.
LacksAreDirty ==
  /\ map # NoMap /\ ~dirty => Covers(map)
  /\ map # NoMap =>
       \A p \in Paths :
         \/ Good(cache[p], p)
         \/ p \in dirtyPaths
         \/ \E c \in Clients : Marking(c) /\ path[c] = p /\ Stripped[p] = p
  /\ map = NoMap => dirtyPaths = {}
  /\ \A t \in Threads : at[t] \in {"start", "initial"} => dirtyPaths = {}
  /\ \A p \in Paths : p \in dirtyPaths => p \in marked
  /\ \A c \in Clients :
       Marking(c) /\ path[c] # NoPath => Stripped[path[c]] \in marked

Fresh == ~raced => ~Overlap /\ IndexesCover /\ LacksAreDirty

USE RepoMapAssumption

-----------------------------------------------------------------------------
(* The lock and the map.                                                   *)

\* What index_project makes of the files is an index.
LEMMA FullTyped == Typed => FullIndex \in Indexes
BY DEF Typed, FullIndex, Versions, Indexes

\* It holds at first.
LEMMA InitSound == ServiceInit => MapSound
<1> SUFFICES ASSUME ServiceInit PROVE MapSound
  OBVIOUS
<1>1. disk \in Versions /\ cache \in Indexes /\ floor \in Versions
  BY DEF ServiceInit, Versions, Indexes, Empty
<1>2. indexed \in [Threads -> Indexes] /\ path \in [Clients -> Paths \cup {NoPath}]
  BY DEF ServiceInit, Indexes, Empty
<1>3. at \in [Threads -> Places]
  BY DEF ServiceInit, Places
<1>4. Typed
  BY <1>1, <1>2, <1>3 DEF ServiceInit, Typed
<1>5. MapKept
  BY DEF ServiceInit, MapKept
<1> QED
  BY <1>4, <1>5 DEF ServiceInit, MapSound

\* No step of a thread, and no new session, leaves the lock taken or lets the map
\* get lost.
LEMMA StepSound ==
  ASSUME MapSound, Step, raced' = (raced \/ Overlap')
  PROVE  MapSound'
<1> USE DEF MapSound, Typed, MapKept, Goto, Return, Locked, service, asked, Threads, Places
<1>1. raced' \in BOOLEAN
  BY DEF Overlap
<1>2. CASE StartWorker
  BY <1>1, <1>2 DEF StartWorker
<1>3. CASE FinishWorker
  BY <1>1, <1>3 DEF FinishWorker
<1>4. CASE FailWorker
  BY <1>1, <1>4 DEF FailWorker
<1>5. ASSUME NEW t \in Threads, FailBuild(t)
      PROVE  MapSound'
  BY <1>1, <1>5 DEF FailBuild, Indexes, Empty
<1>6. ASSUME NEW t \in Threads, Refresh(t)
      PROVE  MapSound'
  BY <1>1, <1>6 DEF Refresh, Indexes, Empty
<1>7. ASSUME NEW t \in Threads, Reindex(t)
      PROVE  MapSound'
  <2>1. cache' \in Indexes /\ indexed' \in [Threads -> Indexes]
    <3>1. CASE dirtyPaths = {} \/ Cardinality(dirtyPaths) >= Threshold
      BY <1>7, <3>1, FullTyped DEF Reindex
    <3>2. CASE ~(dirtyPaths = {} \/ Cardinality(dirtyPaths) >= Threshold)
      <4>1. cache' = [p \in Paths |-> IF p \in dirtyPaths THEN Reread(p) ELSE cache[p]]
            /\ UNCHANGED indexed
        BY <1>7, <3>2 DEF Reindex
      <4> QED BY <4>1 DEF Reread, Indexes, Versions
    <3> QED BY <3>1, <3>2
  <2>2. at' \in [Threads -> Places] /\ MapKept'
    BY <1>7 DEF Reindex
  <2> QED BY <1>1, <1>7, <2>1, <2>2 DEF Reindex
<1>8. ASSUME NEW t \in Threads, Load(t)
      PROVE  MapSound'
  <2>1. indexed' \in [Threads -> Indexes]
    BY <1>8, FullTyped DEF Load
  <2>2. at' \in [Threads -> Places] /\ MapKept'
    BY <1>8 DEF Load
  <2> QED BY <1>1, <1>8, <2>1, <2>2 DEF Load
<1>9. ASSUME NEW t \in Threads, Store(t)
      PROVE  MapSound'
  BY <1>1, <1>9 DEF Store, Indexes, Empty
<1>10. ASSUME NEW t \in Threads, Publish(t)
      PROVE  MapSound'
  BY <1>1, <1>10 DEF Publish, Indexes, Empty
<1>11. ASSUME NEW t \in Threads, Clean(t)
      PROVE  MapSound'
  BY <1>1, <1>11 DEF Clean, Indexes, Empty
<1>12. ASSUME NEW t \in Threads, Clear(t)
      PROVE  MapSound'
  BY <1>1, <1>12 DEF Clear, Indexes, Empty
<1>13. ASSUME NEW t \in Threads, Ready(t)
      PROVE  MapSound'
  BY <1>1, <1>13 DEF Ready, Indexes, Empty
<1>14. ASSUME NEW t \in Threads, InitialBuild(t)
      PROVE  MapSound'
  <2>1. indexed' \in [Threads -> Indexes]
    BY <1>14, FullTyped DEF InitialBuild
  <2>2. at' \in [Threads -> Places]
    BY <1>14 DEF InitialBuild
  <2>3. MapKept'
    BY <1>14 DEF InitialBuild
  <2> QED
    BY <1>1, <1>14, <2>1, <2>2, <2>3 DEF InitialBuild
<1>15. ASSUME NEW t \in Clients, CallRefresh(t)
      PROVE  MapSound'
  BY <1>1, <1>15 DEF CallRefresh, Indexes
<1>16. ASSUME NEW t \in Clients, CallWait(t)
      PROVE  MapSound'
  BY <1>1, <1>16 DEF CallWait, Indexes
<1>17. ASSUME NEW t \in Clients, Check(t)
      PROVE  MapSound'
  BY <1>1, <1>17 DEF Check, Indexes
<1>18. ASSUME NEW t \in Clients, MarkDirty(t)
      PROVE  MapSound'
  BY <1>1, <1>18 DEF MarkDirty, Asks, Versions
<1>19. ASSUME NEW t \in Clients, Demote(t)
      PROVE  MapSound'
  BY <1>1, <1>19 DEF Demote, Indexes
<1>20. ASSUME NEW t \in Clients, AddPath(t)
      PROVE  MapSound'
  BY <1>1, <1>20 DEF AddPath, Indexes
<1>21. ASSUME NEW p \in Paths, Change(p)
      PROVE  MapSound'
  BY <1>1, <1>21 DEF Change, Versions
<1> QED
  BY <1>2, <1>3, <1>4, <1>5, <1>6, <1>7, <1>8, <1>9, <1>10, <1>11,
     <1>12, <1>13, <1>14, <1>15, <1>16, <1>17, <1>18, <1>19, <1>20, <1>21
     DEF Step, WorkerStep, ClientStep, BuildStep, Call

\* A new session keeps it.
LEMMA SessionSound ==
  ASSUME MapSound, NewSession
  PROVE  MapSound'
<1>1. disk' \in Versions /\ cache' \in Indexes /\ floor' \in Versions
  BY DEF MapSound, Typed, NewSession
<1>2. indexed' \in [Threads -> Indexes] /\ path' \in [Clients -> Paths \cup {NoPath}]
  BY DEF NewSession, Indexes, Empty
<1>3. at' \in [Threads -> Places]
  BY DEF NewSession, Places
<1>4. Typed'
  BY <1>1, <1>2, <1>3 DEF NewSession, Typed
<1>5. MapKept'
  BY DEF NewSession, MapKept
<1> QED
  BY <1>4, <1>5 DEF NewSession, MapSound

\* The invariant MapSound holds in every reachable state.
THEOREM RepoMapInvariant == ServiceSpec => []MapSound
<1>1. MapSound /\ [ServiceNext]_serviceVars => MapSound'
  <2> SUFFICES ASSUME MapSound, [ServiceNext]_serviceVars PROVE MapSound'
    OBVIOUS
  <2>1. CASE UNCHANGED serviceVars
    BY <2>1 DEF MapSound, Typed, MapKept, serviceVars, service, asked
  <2>2. CASE Step /\ raced' = (raced \/ Overlap')
    BY <2>2, StepSound
  <2>3. CASE NewSession
    BY <2>3, SessionSound
  <2> QED
    BY <2>1, <2>2, <2>3 DEF ServiceNext
<1> QED
  BY InitSound, <1>1, PTL DEF ServiceSpec

\* Type correctness; the lock is free between the steps of the threads, so no
\* thread ever waits for itself or for a thread that waits.
THEOREM RepoTypeCorrect == ServiceSpec => []RepoTypeOK
<1>1. MapSound => RepoTypeOK
  BY DEF MapSound, Typed, MapKept, RepoTypeOK, MapMissingOnlyInBuild
<1> QED
  BY RepoMapInvariant, <1>1, PTL

\* The map is missing only while the build runs or after it failed: the call of
\* initial_build inside the lock that it takes again is never reached.
THEOREM MapMissingInBuild == ServiceSpec => []MapMissingOnlyInBuild
<1>1. MapSound => MapMissingOnlyInBuild
  BY DEF MapSound, Typed, MapKept, MapMissingOnlyInBuild
<1> QED
  BY RepoMapInvariant, <1>1, PTL

-----------------------------------------------------------------------------
(* Freshness.                                                              *)

\* Covered files are as new as they must be, and the other way round.
LEMMA FullMeets ==
  ASSUME NEW d \in Versions, NEW versions, NEW names
  PROVE  MeetsAll([p \in Paths |-> [version |-> d[p], calls |-> TRUE]], versions, names)
           <=> \A p \in Paths : d[p] >= versions[p]
BY DEF MeetsAll, Meets

\* It holds at first.
LEMMA InitFresh == ServiceInit => Fresh
BY DEF ServiceInit, Fresh, Overlap, Marking, IndexesCover, Covers, MeetsAll, Meets,
       FullIndex, LacksAreDirty, Versions

\* A new session keeps it.
LEMMA SessionFresh ==
  ASSUME MapSound, NewSession
  PROVE  Fresh'
BY DEF MapSound, Typed, NewSession, Fresh, Overlap, Marking, IndexesCover, Covers,
       MeetsAll, Meets, FullIndex, LacksAreDirty, Versions

\* While a thread builds nobody marks, and so the cache lacks dirty paths only.
LEMMA BuildingAlone ==
  ASSUME MapSound, ~Overlap, LacksAreDirty, NEW t \in Threads, Building(t)
  PROVE  /\ \A c \in Threads : ~Marking(c)
         /\ map # NoMap =>
              \A p \in Paths : Good(cache[p], p) \/ p \in dirtyPaths
BY DEF Overlap, LacksAreDirty, Threads

IndexKept == IndexesCover /\ LacksAreDirty

\* Each step of an unraced session keeps the index, the cache and the map up to
\* the marks.
LEMMA StepFresh ==
  ASSUME MapSound, Fresh, Step, raced' = (raced \/ Overlap'), ~raced'
  PROVE  Fresh'
<1> USE DEF Goto, Return, service, asked
<1>1. ~raced /\ ~Overlap /\ ~Overlap' /\ IndexesCover /\ LacksAreDirty
  BY DEF Fresh
<1>2. Typed /\ MapKept /\ lock = Free
  BY DEF MapSound
<1>3. \A t \in Threads :
        Building(t) =>
          /\ \A c \in Threads : ~Marking(c)
          /\ map # NoMap =>
               \A p \in Paths : Good(cache[p], p) \/ p \in dirtyPaths
  BY <1>1, BuildingAlone
<1>4. SUFFICES IndexKept'
  BY <1>1 DEF Fresh, IndexKept
<1>5. CASE StartWorker
  <2>1. IndexesCover'
    BY <1>1, <1>2, <1>5
       DEF StartWorker, IndexesCover, LacksAreDirty, Covers, Good, FullIndex, Typed,
           Overlap, Marking, Building
  <2>2. LacksAreDirty'
    BY <1>1, <1>2, <1>5
       DEF StartWorker, MapKept, IndexesCover, LacksAreDirty, Covers, Good, FullIndex, Typed,
           Overlap, Marking, Building
  <2> QED
    BY <2>1, <2>2 DEF IndexKept
<1>6. CASE FinishWorker
  <2>1. IndexesCover'
    BY <1>1, <1>2, <1>6
       DEF FinishWorker, IndexesCover, LacksAreDirty, Covers, Good, FullIndex, Typed,
           Overlap, Marking, Building
  <2>2. LacksAreDirty'
    BY <1>1, <1>2, <1>6
       DEF FinishWorker, MapKept, IndexesCover, LacksAreDirty, Covers, Good, FullIndex, Typed,
           Overlap, Marking, Building
  <2> QED
    BY <2>1, <2>2 DEF IndexKept
<1>7. CASE FailWorker
  <2>1. IndexesCover'
    BY <1>1, <1>2, <1>7
       DEF FailWorker, IndexesCover, LacksAreDirty, Covers, Good, FullIndex, Typed,
           Overlap, Marking, Building
  <2>2. LacksAreDirty'
    BY <1>1, <1>2, <1>7
       DEF FailWorker, MapKept, IndexesCover, LacksAreDirty, Covers, Good, FullIndex, Typed,
           Overlap, Marking, Building
  <2> QED
    BY <2>1, <2>2 DEF IndexKept
<1>8. ASSUME NEW t \in Threads, FailBuild(t)
      PROVE  IndexKept'
  <2>1. IndexesCover'
    BY <1>1, <1>2, <1>8
       DEF FailBuild, IndexesCover, LacksAreDirty, Covers, Good, FullIndex, Typed,
           Overlap, Marking, Building
  <2>2. LacksAreDirty'
    BY <1>1, <1>2, <1>8
       DEF FailBuild, MapKept, IndexesCover, LacksAreDirty, Covers, Good, FullIndex, Typed,
           Overlap, Marking, Building
  <2> QED
    BY <2>1, <2>2 DEF IndexKept
<1>9. ASSUME NEW t \in Threads, Refresh(t)
      PROVE  IndexKept'
  <2>1. Building(t)
    BY <1>9 DEF Refresh, Building
  <2>2. IndexesCover'
    BY <1>1, <1>2, <1>9 DEF Refresh, IndexesCover, Covers, FullIndex, Typed
  <2>3. LacksAreDirty'
    BY <1>1, <1>2, <1>3, <1>9, <2>1
       DEF Refresh, LacksAreDirty, Covers, Good, Typed, Marking, Threads
  <2> QED
    BY <2>2, <2>3 DEF IndexKept
<1>10. ASSUME NEW t \in Threads, Reindex(t)
      PROVE  IndexKept'
  <2>1. Building(t)
    BY <1>10 DEF Reindex, Building
  <2>2. \A p \in Paths : disk[p] >= floor[p]
    BY <1>1 DEF IndexesCover, Covers, MeetsAll, Meets, FullIndex
  <2>3. CASE dirtyPaths = {} \/ Cardinality(dirtyPaths) >= Threshold
    <3>1. /\ at' = [at EXCEPT ![t] = "store"]
          /\ indexed' = [indexed EXCEPT ![t] = FullIndex]
          /\ UNCHANGED <<disk, cache, map, dirty, dirtyPaths, path, asked>>
      BY <1>10, <2>3 DEF Reindex
    <3>2. IndexesCover'
      BY <1>1, <1>2, <3>1 DEF IndexesCover, Covers, Good, FullIndex, Typed
    <3>3. LacksAreDirty'
      BY <1>1, <1>2, <1>3, <3>1, <2>1 DEF LacksAreDirty, Covers, Good, Typed, Marking
    <3> QED
      BY <3>2, <3>3 DEF IndexKept
  <2>4. CASE ~(dirtyPaths = {} \/ Cardinality(dirtyPaths) >= Threshold)
    <3>1. map # NoMap
      BY <1>1, <2>4 DEF LacksAreDirty
    <3>2. /\ cache' = [p \in Paths |->
                        IF p \in dirtyPaths THEN Reread(p) ELSE cache[p]]
          /\ at' = [at EXCEPT ![t] = "load"]
          /\ UNCHANGED <<disk, map, dirty, dirtyPaths, indexed, path, asked>>
      BY <1>10, <2>4 DEF Reindex
    <3>3. \A p \in Paths : Good(cache'[p], p)
      <4> SUFFICES ASSUME NEW p \in Paths PROVE Good(cache'[p], p)
        OBVIOUS
      <4>1. CASE p \in dirtyPaths
        <5>1. p \in marked
          BY <1>1, <4>1 DEF LacksAreDirty
        <5> QED
          BY <2>2, <3>2, <4>1, <5>1 DEF Good, Meets, Reread
      <4>2. CASE p \notin dirtyPaths
        BY <1>3, <2>1, <3>1, <3>2, <4>2
      <4> QED
        BY <4>1, <4>2
    <3>4. IndexesCover'
      BY <1>1, <1>2, <3>2, <3>3 DEF IndexesCover, Covers, Good, MeetsAll, FullIndex, Typed
    <3>5. LacksAreDirty'
      BY <1>1, <1>2, <1>3, <2>1, <3>1, <3>2, <3>3
         DEF LacksAreDirty, Covers, Good, Typed, Marking
    <3> QED
      BY <3>4, <3>5 DEF IndexKept
  <2> QED
    BY <2>3, <2>4
<1>11. ASSUME NEW t \in Threads, Load(t)
      PROVE  IndexKept'
  <2>1. Building(t)
    BY <1>11 DEF Load, Building
  <2>2. Covers(FullIndex) /\ Covers(cache)
    BY <1>1, <1>11 DEF Load, IndexesCover
  <2>3. \/ indexed' = [indexed EXCEPT ![t] = FullIndex]
        \/ indexed' = [indexed EXCEPT ![t] = cache]
    BY <1>11 DEF Load
  <2>4. /\ at' \in {[at EXCEPT ![t] = "store"], [at EXCEPT ![t] = "publish"]}
        /\ UNCHANGED <<disk, cache, map, dirty, dirtyPaths, path, asked>>
    BY <1>11 DEF Load
  <2>5. IndexesCover'
    BY <1>1, <1>2, <2>2, <2>3, <2>4 DEF IndexesCover, Covers, Good, FullIndex, Typed
  <2>6. LacksAreDirty'
    BY <1>1, <1>2, <1>3, <1>11, <2>1, <2>4
       DEF Load, LacksAreDirty, Covers, Good, Typed, Marking, Threads
  <2> QED
    BY <2>5, <2>6 DEF IndexKept
<1>12. ASSUME NEW t \in Threads, Store(t)
      PROVE  IndexKept'
  <2>1. IndexesCover'
    BY <1>1, <1>2, <1>12
       DEF Store, IndexesCover, LacksAreDirty, Covers, Good, FullIndex, Typed,
           Overlap, Marking, Building
  <2>2. LacksAreDirty'
    BY <1>1, <1>2, <1>12
       DEF Store, MapKept, IndexesCover, LacksAreDirty, Covers, MeetsAll, Good, Typed,
           Overlap, Marking, Building
  <2> QED
    BY <2>1, <2>2 DEF IndexKept
<1>13. ASSUME NEW t \in Threads, Publish(t)
      PROVE  IndexKept'
  <2>1. IndexesCover'
    BY <1>1, <1>2, <1>13
       DEF Publish, IndexesCover, LacksAreDirty, Covers, Good, FullIndex, Typed,
           Overlap, Marking, Building
  <2>2. /\ at[t] = "publish" /\ at' = [at EXCEPT ![t] = "clean"]
        /\ map' = indexed[t] /\ map' # NoMap
        /\ UNCHANGED <<cache, dirty, dirtyPaths, path, asked>>
    BY <1>2, <1>13 DEF Publish, Typed, Indexes
  <2>3. MeetsAll(cache, floor, marked) /\ MeetsAll(indexed[t], floor, marked)
    BY <1>1, <2>2 DEF IndexesCover, Covers
  <2>4. \A p \in Paths : Good(cache[p], p)
    BY <2>3 DEF MeetsAll, Good
  <2>5. \A c \in Clients : Marking(c)' <=> Marking(c)
    BY <1>2, <2>2 DEF Marking, Typed, Threads
  <2>6. \A u \in Threads : at'[u] \in {"start", "initial"} => at[u] = at'[u]
    BY <1>2, <2>2 DEF Typed
  <2>7. LacksAreDirty'
    BY <1>1, <2>2, <2>3, <2>4, <2>5, <2>6 DEF LacksAreDirty, Covers, Good
  <2> QED
    BY <2>1, <2>7 DEF IndexKept
<1>14. ASSUME NEW t \in Threads, Clean(t)
      PROVE  IndexKept'
  <2>1. IndexesCover'
    BY <1>1, <1>2, <1>14
       DEF Clean, IndexesCover, LacksAreDirty, Covers, Good, FullIndex, Typed,
           Overlap, Marking, Building
  <2>2. LacksAreDirty'
    BY <1>1, <1>2, <1>14
       DEF Clean, MapKept, IndexesCover, LacksAreDirty, Covers, Good, FullIndex, Typed,
           Overlap, Marking, Building
  <2> QED
    BY <2>1, <2>2 DEF IndexKept
<1>15. ASSUME NEW t \in Threads, Clear(t)
      PROVE  IndexKept'
  <2>1. IndexesCover'
    BY <1>1, <1>2, <1>15
       DEF Clear, IndexesCover, LacksAreDirty, Covers, Good, FullIndex, Typed,
           Overlap, Marking, Building
  <2>2. LacksAreDirty'
    BY <1>1, <1>2, <1>15
       DEF Clear, MapKept, IndexesCover, LacksAreDirty, Covers, MeetsAll, Good, Typed,
           Overlap, Marking, Building
  <2> QED
    BY <2>1, <2>2 DEF IndexKept
<1>16. ASSUME NEW t \in Threads, Ready(t)
      PROVE  IndexKept'
  <2>1. IndexesCover'
    BY <1>1, <1>2, <1>16
       DEF Ready, IndexesCover, LacksAreDirty, Covers, Good, FullIndex, Typed,
           Overlap, Marking, Building
  <2>2. LacksAreDirty'
    BY <1>1, <1>2, <1>16
       DEF Ready, MapKept, IndexesCover, LacksAreDirty, Covers, Good, FullIndex, Typed,
           Overlap, Marking, Building
  <2> QED
    BY <2>1, <2>2 DEF IndexKept
<1>17. ASSUME NEW t \in Threads, InitialBuild(t)
      PROVE  IndexKept'
  <2>1. Building(t)
    BY <1>17 DEF InitialBuild, Building
  <2>2. Covers(FullIndex) /\ dirtyPaths = {} /\ map # NoMap
    BY <1>1, <1>2, <1>17 DEF InitialBuild, IndexesCover, LacksAreDirty, MapKept
  <2>3. Covers(cache)
    BY <1>3, <2>1, <2>2 DEF Covers, Good, MeetsAll
  <2>4. \/ indexed' = [indexed EXCEPT ![t] = FullIndex]
        \/ indexed' = [indexed EXCEPT ![t] = cache]
    BY <1>17 DEF InitialBuild
  <2>5. /\ at' \in {[at EXCEPT ![t] = "store"], [at EXCEPT ![t] = "publish"]}
        /\ UNCHANGED <<disk, cache, map, dirty, dirtyPaths, path, asked>>
    BY <1>17 DEF InitialBuild
  <2>6. IndexesCover'
    BY <1>1, <1>2, <2>2, <2>3, <2>4, <2>5 DEF IndexesCover, Covers, Good, FullIndex, Typed
  <2>7. LacksAreDirty'
    BY <1>1, <1>2, <1>17, <2>2, <2>3, <2>5
       DEF InitialBuild, LacksAreDirty, Covers, MeetsAll, Good, Typed, Marking, Threads
  <2> QED
    BY <2>6, <2>7 DEF IndexKept
<1>18. ASSUME NEW t \in Clients, CallRefresh(t)
      PROVE  IndexKept'
  <2>1. IndexesCover'
    BY <1>1, <1>2, <1>18
       DEF CallRefresh, IndexesCover, LacksAreDirty, Covers, Good, FullIndex, Typed,
           Overlap, Marking, Building
  <2>2. LacksAreDirty'
    BY <1>1, <1>2, <1>18
       DEF CallRefresh, MapKept, IndexesCover, LacksAreDirty, Covers, Good, FullIndex, Typed,
           Overlap, Marking, Building
  <2> QED
    BY <2>1, <2>2 DEF IndexKept
<1>19. ASSUME NEW t \in Clients, CallWait(t)
      PROVE  IndexKept'
  <2>1. IndexesCover'
    BY <1>1, <1>2, <1>19
       DEF CallWait, IndexesCover, LacksAreDirty, Covers, Good, FullIndex, Typed,
           Overlap, Marking, Building
  <2>2. LacksAreDirty'
    BY <1>1, <1>2, <1>19
       DEF CallWait, MapKept, IndexesCover, LacksAreDirty, Covers, Good, FullIndex, Typed,
           Overlap, Marking, Building
  <2> QED
    BY <2>1, <2>2 DEF IndexKept
<1>20. ASSUME NEW t \in Clients, Check(t)
      PROVE  IndexKept'
  <2>1. /\ at' = [at EXCEPT ![t] = "refresh"]
        /\ UNCHANGED <<disk, cache, map, dirty, dirtyPaths, indexed, path, asked>>
    BY <1>2, <1>20 DEF Check, MapKept
  <2>2. ~Marking(t) /\ at[t] = "check"
    BY <1>20 DEF Check, Marking
  <2>3. IndexesCover'
    BY <1>1, <1>2, <2>1 DEF IndexesCover, Covers, Good, FullIndex, Typed
  <2>4. LacksAreDirty'
    BY <1>1, <1>2, <2>1, <2>2 DEF LacksAreDirty, Covers, Good, Typed, Marking, Threads
  <2> QED
    BY <2>3, <2>4 DEF IndexKept
<1>21. ASSUME NEW t \in Clients, MarkDirty(t)
      PROVE  IndexKept'
  <2>1. PICK p \in Paths \cup {NoPath} : path' = [path EXCEPT ![t] = p] /\ Asks(p)
    BY <1>21 DEF MarkDirty
  <2>2. /\ at[t] = "idle" /\ dirty' = TRUE /\ at' = [at EXCEPT ![t] = "demote"]
        /\ UNCHANGED <<disk, cache, map, dirtyPaths, indexed>>
    BY <1>21 DEF MarkDirty
  <2>3. Marking(t)' /\ t \in Threads
    BY <1>2, <2>2 DEF Marking, Typed, Threads
  <2>4. map # NoMap /\ \A u \in Threads : ~Building(u)'
    BY <1>1, <2>2, <2>3 DEF Overlap
  <2>5. marked \subseteq marked' /\ (p \in Paths => Stripped[p] \in marked')
    BY <2>1 DEF Asks
  <2>6. \A q \in Paths : q # p \/ Stripped[q] # q => floor'[q] = floor[q]
    BY <1>2, <2>1 DEF Asks, Typed, Versions
  <2>7. \A q \in Paths : disk[q] >= floor'[q]
    <3>1. \A q \in Paths : disk[q] >= floor[q] /\ disk[q] \in Nat
      BY <1>1, <1>2, FullMeets DEF IndexesCover, Covers, FullIndex, Typed, Versions
    <3>2. \A q \in Paths : floor'[q] \in {floor[q], disk[q]}
      BY <1>2, <2>1 DEF Asks, Typed, Versions
    <3> QED BY <3>1, <3>2
  <2>8. FullIndex' = FullIndex
    BY <2>2 DEF FullIndex
  <2>9. MeetsAll(FullIndex, floor', marked')
    BY <2>7 DEF MeetsAll, Meets, FullIndex
  <2> IndexesCover'
    BY <2>2, <2>4, <2>8, <2>9 DEF IndexesCover, Covers, Building
  <2>10. \A c \in Clients : c # t /\ (Marking(c) \/ Marking(c)') =>
           Marking(c) /\ Marking(c)' /\ path'[c] = path[c]
    BY <1>2, <2>1, <2>2 DEF Marking, Typed, Threads
  <2>11. \A q \in Paths :
          \/ Good(cache[q], q)'
          \/ q \in dirtyPaths
          \/ \E c \in Clients : Marking(c)' /\ path'[c] = q /\ Stripped[q] = q
    <3> SUFFICES ASSUME NEW q \in Paths
                 PROVE  \/ Good(cache[q], q)'
                        \/ q \in dirtyPaths
                        \/ \E c \in Clients :
                             Marking(c)' /\ path'[c] = q /\ Stripped[q] = q
      OBVIOUS
    <3>1. CASE q = p /\ Stripped[q] = q
      BY <1>2, <2>1, <2>3, <3>1 DEF Typed
    <3>2. CASE \E c \in Clients : Marking(c) /\ path[c] = q /\ Stripped[q] = q
      <4>1. PICK c \in Clients : Marking(c) /\ path[c] = q /\ Stripped[q] = q
        BY <3>2
      <4>2. c # t
        BY <2>2, <4>1 DEF Marking
      <4> QED
        BY <2>10, <4>1, <4>2
    <3>3. CASE /\ q # p \/ Stripped[q] # q
               /\ Good(cache[q], q) \/ q \in dirtyPaths
      BY <2>2, <2>5, <2>6, <3>3 DEF Good, Meets
    <3> QED
      BY <1>1, <2>4, <3>1, <3>2, <3>3 DEF LacksAreDirty
  <2>12. \A c \in Clients :
           Marking(c)' /\ path'[c] # NoPath => Stripped[path'[c]] \in marked'
    <3> SUFFICES ASSUME NEW c \in Clients, Marking(c)', path'[c] # NoPath
                 PROVE  Stripped[path'[c]] \in marked'
      OBVIOUS
    <3>1. CASE c = t
      <4>1. path'[c] = p
        BY <1>2, <2>1, <3>1 DEF Typed
      <4> QED
        BY <2>5, <4>1
    <3>2. CASE c # t
      BY <1>1, <2>5, <2>10, <3>2 DEF LacksAreDirty
    <3> QED
      BY <3>1, <3>2
  <2>13. \A q \in Paths : q \in dirtyPaths' => q \in marked'
    BY <1>1, <2>2, <2>5 DEF LacksAreDirty
  <2>14. \A u \in Threads : at'[u] \notin {"start", "initial"}
    BY <2>4 DEF Building
  <2>15. LacksAreDirty'
    BY <2>2, <2>4, <2>11, <2>12, <2>13, <2>14 DEF LacksAreDirty
  <2> QED
    BY <2>15 DEF IndexKept
<1>22. ASSUME NEW t \in Clients, Demote(t)
      PROVE  IndexKept'
  <2>1. IndexesCover'
    BY <1>1, <1>2, <1>22
       DEF Demote, IndexesCover, LacksAreDirty, Covers, Good, FullIndex, Typed,
           Overlap, Marking, Building
  <2>2. LacksAreDirty'
    BY <1>1, <1>2, <1>22
       DEF Demote, MapKept, IndexesCover, LacksAreDirty, Covers, Good, FullIndex, Typed,
           Overlap, Marking, Building
  <2> QED
    BY <2>1, <2>2 DEF IndexKept
<1>23. ASSUME NEW t \in Clients, AddPath(t)
      PROVE  IndexKept'
  <2>1. /\ at[t] = "add" /\ at' = [at EXCEPT ![t] = "idle"]
        /\ dirtyPaths' = IF path[t] = NoPath THEN dirtyPaths
                         ELSE dirtyPaths \cup {Stripped[path[t]]}
        /\ path' = [path EXCEPT ![t] = NoPath]
        /\ UNCHANGED <<disk, cache, map, dirty, indexed, asked>>
    BY <1>23 DEF AddPath
  <2>2. Marking(t) /\ t \in Threads
    BY <2>1 DEF Marking, Threads
  <2>3. map # NoMap /\ \A u \in Threads : ~Building(u)
    BY <1>1, <2>2 DEF Overlap
  <2>4. IndexesCover'
    BY <1>1, <1>2, <2>1 DEF IndexesCover, Covers, Good, FullIndex, Typed
  <2>5. \A c \in Clients : c # t /\ (Marking(c) \/ Marking(c)') =>
          Marking(c) /\ Marking(c)' /\ path'[c] = path[c]
    BY <1>2, <2>1 DEF Marking, Typed, Threads
  <2>6. ~Marking(t)'
    BY <1>2, <2>1, <2>2 DEF Marking, Typed
  <2>7. \A q \in Paths :
          \/ Good(cache[q], q)
          \/ q \in dirtyPaths'
          \/ \E c \in Clients : Marking(c)' /\ path'[c] = q /\ Stripped[q] = q
    <3> SUFFICES ASSUME NEW q \in Paths, NEW c \in Clients,
                        Marking(c), path[c] = q, Stripped[q] = q
                 PROVE  \/ q \in dirtyPaths'
                        \/ Marking(c)' /\ path'[c] = q
      BY <1>1, <2>1, <2>3 DEF LacksAreDirty
    <3>1. CASE c = t
      BY <2>1, <3>1
    <3>2. CASE c # t
      BY <2>5, <3>2
    <3> QED
      BY <3>1, <3>2
  <2>8. \A q \in Paths : q \in dirtyPaths' => q \in marked
    BY <1>1, <2>1, <2>2 DEF LacksAreDirty
  <2>9. \A c \in Clients :
          Marking(c)' /\ path'[c] # NoPath => Stripped[path'[c]] \in marked
    BY <1>1, <2>5, <2>6 DEF LacksAreDirty
  <2>10. \A u \in Threads : at'[u] \notin {"start", "initial"}
    BY <1>2, <2>1, <2>3 DEF Building, Typed
  <2>11. LacksAreDirty'
    BY <1>1, <2>1, <2>3, <2>7, <2>8, <2>9, <2>10 DEF LacksAreDirty, Covers, Good
  <2> QED
    BY <2>4, <2>11 DEF IndexKept
<1>24. ASSUME NEW p \in Paths, Change(p)
      PROVE  IndexKept'
  <2>1. IndexesCover'
    <3>1. disk \in Versions /\ disk' \in Versions
      BY <1>2, <1>24 DEF Change, Typed, Versions
    <3>2. \A q \in Paths : disk[q] >= floor[q]
      BY <1>1, <3>1, FullMeets DEF IndexesCover, Covers, FullIndex
    <3>3. \A q \in Paths : disk'[q] >= floor[q]
      BY <1>2, <1>24, <3>2 DEF Change, Typed, Versions
    <3>4. Covers(FullIndex)'
      BY <1>24, <3>1, <3>3, FullMeets DEF Change, Covers, FullIndex
    <3> QED
      BY <1>1, <1>24, <3>4 DEF Change, IndexesCover, Covers
  <2>2. LacksAreDirty'
    BY <1>1, <1>2, <1>24
       DEF Change, MapKept, IndexesCover, LacksAreDirty, Covers, Good, FullIndex, Typed,
           Overlap, Marking, Building
  <2> QED
    BY <2>1, <2>2 DEF IndexKept
<1> QED
  BY <1>5, <1>6, <1>7, <1>8, <1>9, <1>10, <1>11, <1>12, <1>13, <1>14,
     <1>15, <1>16, <1>17, <1>18, <1>19, <1>20, <1>21, <1>22, <1>23, <1>24
     DEF Step, WorkerStep, ClientStep, BuildStep, Call, Threads

\* The map that a call finds when nothing is dirty and nothing runs holds every
\* path as new as the start of the session and its last mark, as long as no mark
\* overlapped a refresh.
THEOREM MapFreshUnlessRaced == ServiceSpec => []FreshUnlessRaced
<1>1. MapSound /\ Fresh /\ [ServiceNext]_serviceVars => Fresh'
  <2> SUFFICES ASSUME MapSound, Fresh, [ServiceNext]_serviceVars PROVE Fresh'
    OBVIOUS
  <2>1. CASE UNCHANGED serviceVars
    BY <2>1 DEF Fresh, Overlap, Marking, Building, IndexesCover, Covers,
                LacksAreDirty, FullIndex, Good, serviceVars, service, asked
  <2>2. CASE Step /\ raced' = (raced \/ Overlap')
    BY <2>2, StepFresh DEF Fresh
  <2>3. CASE NewSession
    BY <2>3, SessionFresh
  <2> QED
    BY <2>1, <2>2, <2>3 DEF ServiceNext
<1>2. MapSound /\ Fresh => FreshUnlessRaced
  BY DEF Fresh, LacksAreDirty, Covers, MeetsAll, Meets, FreshUnlessRaced
<1> QED
  BY RepoMapInvariant, InitFresh, <1>1, <1>2, PTL DEF ServiceSpec
=============================================================================
