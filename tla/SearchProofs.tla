---------------------------- MODULE SearchProofs ----------------------------
(***************************************************************************)
(* Theorems about codebase_retrieve and grep_search, for any project,       *)
(* queries, searches and limits, while the files and the map change between *)
(* any two steps of a call.                                                 *)
(*                                                                          *)
(* Files get newer only.  So what a step has read stays true of some        *)
(* version up to now, which is what both tools promise: codebase_retrieve   *)
(* accounts for each candidate of its lookup, as one that is still to be    *)
(* read, was read or cannot be, and grep_search knows of each pattern that    *)
(* brought nothing that it was absent.  What fusion and ranking show        *)
(* follows from what they do to any list.                                   *)
(***************************************************************************)
EXTENDS SearchTools, FiniteInduction, SequenceTheorems

-----------------------------------------------------------------------------
(* Sets that are cut.                                                      *)

\* What is left of a cut set.
Cuts(n, S) ==
  {x \in SUBSET S : /\ IsFiniteSet(S) => IsFiniteSet(x) /\ Cardinality(x) <= n
                    /\ Cardinality(S) <= n => x = S
                    /\ IsFiniteSet(S) /\ S # {} => x # {}}

\* Best cuts a set.
LEMMA BestCuts ==
  ASSUME NEW S, NEW n \in Nat \ {0}
  PROVE  Best(n, S) \subseteq Cuts(n, S)
<1> SUFFICES ASSUME NEW x \in Best(n, S)
             PROVE  x \in Cuts(n, S)
  OBVIOUS
<1>1. CASE Cardinality(S) <= n
  BY <1>1 DEF Best, Cuts
<1>2. CASE ~(Cardinality(S) <= n)
  <2>1. x \subseteq S /\ Cardinality(x) = n
    BY <1>2 DEF Best, kSubset
  <2>2. IsFiniteSet(S) => IsFiniteSet(x)
    BY <2>1, FS_Subset
  <2>3. x # {}
    BY <2>1, FS_EmptySet
  <2> QED BY <1>2, <2>1, <2>2, <2>3 DEF Cuts
<1> QED BY <1>1, <1>2

\* So does BestOf.
LEMMA BestOfCuts ==
  ASSUME NEW S, NEW n \in Nat \ {0}
  PROVE  BestOf(n, S) \subseteq Cuts(n, S)
<1>1. BestOf(n, S) = Best(n, S)
  BY DEF Best, BestOf
<1> QED BY <1>1, BestCuts

\* The arrangements of a finite set list each of its members once.
LEMMA ArrangementsList ==
  ASSUME NEW S, IsFiniteSet(S), NEW order \in SetToSeqs(S)
  PROVE  /\ order \in Seq(S) /\ Len(order) = Cardinality(S) /\ Range(order) = S
         /\ \A i, j \in 1 .. Len(order) : order[i] = order[j] => i = j
<1> DEFINE N == Cardinality(S)
<1>1. N \in Nat
  BY FS_CardinalityType
<1>2. order \in [1 .. N -> S] /\ \A i, j \in 1 .. N : i # j => order[i] # order[j]
  BY DEF SetToSeqs
<1>3. order \in Seq(S) /\ Len(order) = N
  BY <1>1, <1>2
<1>4. order \in Injection(1 .. N, S)
  BY <1>2 DEF Injection, IsInjective
<1>5. IsFiniteSet(1 .. N) /\ Cardinality(1 .. N) = N
  BY <1>1, FS_Interval
<1>6. order \in Surjection(1 .. N, S)
  BY <1>4, <1>5, FS_Injection
<1>7. Range(order) = S
  BY <1>2, <1>6 DEF Range, Surjection
<1> QED BY <1>2, <1>3, <1>7

-----------------------------------------------------------------------------
(* Slot defense.                                                           *)

\* g adds the symbols of a list one by one.
Adding(g, chosen, list, capped, T) ==
  /\ g \in [0 .. Len(list) -> Seq(T)]
  /\ g[0] = chosen
  /\ \A n \in 1 .. Len(list) :
       g[n] = IF capped THEN AddCapped(g[n - 1], list[n]) ELSE AddAny(g[n - 1], list[n])
  /\ Pass(chosen, list, capped) = g[Len(list)]

\* A symbol more, or none.
LEMMA AddsOne ==
  ASSUME NEW T, NEW c \in Seq(T), NEW e \in T
  PROVE  /\ AddAny(c, e) \in {c, Append(c, e)} /\ AddAny(c, e) \in Seq(T)
         /\ AddCapped(c, e) \in {c, Append(c, e)} /\ AddCapped(c, e) \in Seq(T)
<1>1. Append(c, e) \in Seq(T)
  OBVIOUS
<1>2. AddAny(c, e) \in {c, Append(c, e)}
  BY DEF AddAny
<1>3. AddCapped(c, e) \in {c, AddAny(c, e)}
  BY DEF AddCapped
<1> QED BY <1>1, <1>2, <1>3

\* The recursion of Pass adds the symbols one by one.
LEMMA PassUnfolds ==
  ASSUME NEW T, NEW chosen \in Seq(T), NEW list \in Seq(T), NEW capped \in BOOLEAN
  PROVE  \E g : Adding(g, chosen, list, capped, T)
<1> DEFINE N == Len(list)
           Step(n, r) == IF capped THEN AddCapped(r, list[n]) ELSE AddAny(r, list[n])
           F == [p \in (1 .. N) \X Seq(T) |-> Step(p[1], p[2])]
           Body(h) == [n \in 0 .. Len(list) |->
                         IF n = 0 THEN chosen
                         ELSE IF capped THEN AddCapped(h[n - 1], list[n])
                         ELSE AddAny(h[n - 1], list[n])]
           added == CHOOSE h : h = Body(h)
<1>1. N \in Nat /\ chosen \in Seq(T) /\ \A n \in 1 .. N : list[n] \in T
  OBVIOUS
<1>2. F \in [(1 .. N) \X Seq(T) -> Seq(T)]
  <2>1. ASSUME NEW n \in 1 .. N, NEW r \in Seq(T)
        PROVE  Step(n, r) \in Seq(T)
    BY <1>1, AddsOne
  <2> HIDE DEF Step
  <2> QED BY <2>1
<1>3. Pass(chosen, list, capped) = added[N]
  BY DEF Pass
<1>4. PICK g : Unfolds(g, N, Seq(T), chosen, F)
  <2> HIDE DEF F, N
  <2> QED BY <1>1, <1>2, RecursionExists
<1>5. g = Body(g)
  <2>1. g \in [0 .. N -> Seq(T)] /\ g[0] = chosen
    BY <1>4 DEF Unfolds
  <2>2. ASSUME NEW n \in 1 .. N
        PROVE  g[n] = Step(n, g[n - 1])
    <3>1. g[n] = F[<<n, g[n - 1]>>]
      BY <1>4 DEF Unfolds
    <3>2. n - 1 \in 0 .. N
      BY <1>1
    <3>3. <<n, g[n - 1]>> \in (1 .. N) \X Seq(T)
      BY <2>1, <3>2
    <3> HIDE DEF Step
    <3> QED BY <3>1, <3>3
  <2>3. \A n \in 0 .. N : n = 0 \/ n \in 1 .. N
    BY <1>1
  <2> QED BY <2>1, <2>2, <2>3
<1>6. added = Body(added)
  BY <1>5
<1> HIDE DEF added
<1>7. added = [n \in 0 .. N |-> added[n]] /\ added[0] = chosen
  BY <1>1, <1>6
<1>8. ASSUME NEW n \in 1 .. N
      PROVE  added[n] = Step(n, added[n - 1])
  <2>1. n \in 0 .. Len(list) /\ n # 0
    BY <1>1
  <2> QED BY <1>6, <2>1
<1>9. Unfolds(added, N, Seq(T), chosen, F)
  <2>1. \A n \in 1 .. N : added[n - 1] \in Seq(T) => added[n] = F[<<n, added[n - 1]>>]
    <3> HIDE DEF Step
    <3> QED BY <1>8
  <2> HIDE DEF F, N
  <2> QED BY <1>1, <1>2, <1>7, <2>1, RecursionUnfolds
<1>10. added \in [0 .. N -> Seq(T)]
  BY <1>9 DEF Unfolds
<1>11. Adding(added, chosen, list, capped, T)
  BY <1>3, <1>7, <1>8, <1>10 DEF Adding
<1> QED BY <1>11

\* A list goes on with what it holds, each of its symbols once, and has room
\* for no more than MaxSymbols.
Grown(c, d, T) ==
  /\ d \in Seq(T) /\ Len(c) <= Len(d) /\ Len(d) <= MaxSymbols
  /\ \A i \in 1 .. Len(c) : d[i] = c[i]
  /\ \A i, j \in 1 .. Len(d) : d[i] = d[j] => i = j

\* Adding grows a list.
LEMMA AddGrows ==
  ASSUME NEW T, NEW c \in Seq(T), NEW d, NEW e \in T, Grown(c, d, T)
  PROVE  /\ Grown(c, AddAny(d, e), T)
         /\ Grown(c, AddCapped(d, e), T)
<1> DEFINE a == Append(d, e)
<1>1. d \in Seq(T) /\ Len(d) \in Nat /\ Len(c) \in Nat
  BY DEF Grown
<1>2. a \in Seq(T) /\ Len(a) = Len(d) + 1 /\ a[Len(d) + 1] = e
      /\ \A i \in 1 .. Len(d) : a[i] = d[i]
  BY <1>1
<1>3. MaxSymbols \in Nat
  BY RetrievalAssumption DEF RetrievalAssumption
<1>4. ASSUME e \notin Range(d), ~(Len(d) >= MaxSymbols)
      PROVE  Grown(c, a, T)
  <2>1. \A i \in 1 .. Len(d) : d[i] # e
    BY <1>1, <1>4 DEF Range
  <2> HIDE DEF a
  <2>2. \A i, j \in 1 .. Len(a) : a[i] = a[j] => i = j
    <3>1. \A i \in 1 .. Len(a) : i = Len(d) + 1 \/ i \in 1 .. Len(d)
      BY <1>1, <1>2
    <3> QED BY <1>2, <2>1, <3>1 DEF Grown
  <2>3. \A i \in 1 .. Len(c) : i \in 1 .. Len(d)
    BY <1>1 DEF Grown
  <2>4. Len(c) <= Len(a) /\ Len(a) <= MaxSymbols
    BY <1>1, <1>2, <1>3, <1>4 DEF Grown
  <2>5. \A i \in 1 .. Len(c) : a[i] = c[i]
    BY <1>2, <2>3 DEF Grown
  <2> QED BY <1>2, <2>2, <2>4, <2>5 DEF Grown
<1>5. Grown(c, AddAny(d, e), T)
  <2>1. CASE e \in Range(d) \/ Len(d) >= MaxSymbols
    BY <2>1 DEF AddAny
  <2>2. CASE ~(e \in Range(d) \/ Len(d) >= MaxSymbols)
    <3>1. AddAny(d, e) = a
      BY <2>2 DEF AddAny
    <3> QED BY <1>4, <2>2, <3>1
  <2> QED BY <2>1, <2>2
<1>6. AddCapped(d, e) \in {d, AddAny(d, e)}
  BY DEF AddCapped
<1> QED BY <1>5, <1>6
\* A pass keeps what was chosen and adds symbols of the list only.
LEMMA PassGrows ==
  ASSUME NEW T, NEW chosen \in Seq(T), NEW list \in Seq(T), NEW capped \in BOOLEAN,
         Len(chosen) <= MaxSymbols,
         \A i, j \in 1 .. Len(chosen) : chosen[i] = chosen[j] => i = j
  PROVE  LET r == Pass(chosen, list, capped)
         IN  /\ Grown(chosen, r, T)
             /\ Range(r) \subseteq Range(chosen) \cup Range(list)
             /\ Len(r) <= Len(chosen) + Len(list)
<1> DEFINE N == Len(list)
<1>0. PICK g : Adding(g, chosen, list, capped, T)
  BY PassUnfolds
<1>1. /\ g \in [0 .. N -> Seq(T)] /\ g[0] = chosen /\ Pass(chosen, list, capped) = g[N]
      /\ \A n \in 1 .. N :
           g[n] = IF capped THEN AddCapped(g[n - 1], list[n]) ELSE AddAny(g[n - 1], list[n])
  BY <1>0 DEF Adding
<1>2. N \in Nat /\ Len(chosen) \in Nat /\ \A n \in 1 .. N : list[n] \in T
  OBVIOUS
<1> DEFINE Good == {n \in 0 .. N : /\ Grown(chosen, g[n], T)
                                   /\ Range(g[n]) \subseteq Range(chosen) \cup Range(list)
                                   /\ Len(g[n]) <= Len(chosen) + n}
<1>3. 0 \in Good
  <2>1. Grown(chosen, chosen, T)
    BY <1>2 DEF Grown
  <2>2. 0 \in 0 .. N /\ Len(chosen) <= Len(chosen) + 0
    BY <1>2
  <2>3. Range(chosen) \subseteq Range(chosen) \cup Range(list)
    OBVIOUS
  <2> QED BY <1>1, <2>1, <2>2, <2>3
<1>4. ASSUME NEW m \in 0 .. N - 1, m \in Good
      PROVE  m + 1 \in Good
  <2> DEFINE n == m + 1
             e == list[n]
             d == g[m]
  <2>1. n \in 1 .. N /\ n - 1 = m /\ n \in 0 .. N /\ m \in 0 .. N /\ e \in T /\ d \in Seq(T)
    <3>1. n \in 1 .. N /\ n - 1 = m /\ n \in 0 .. N /\ m \in 0 .. N
      BY <1>2
    <3>2. g \in [0 .. N -> Seq(T)]
      BY <1>1
    <3> QED BY <1>2, <3>1, <3>2
  <2>2. g[n] = IF capped THEN AddCapped(d, e) ELSE AddAny(d, e)
    BY <1>1, <2>1
  <2>3. Grown(chosen, d, T) /\ Range(d) \subseteq Range(chosen) \cup Range(list)
        /\ Len(d) <= Len(chosen) + m
    BY <1>4
  <2> HIDE DEF d, e
  <2>4. Grown(chosen, g[n], T)
    BY <2>1, <2>2, <2>3, AddGrows
  <2>5. g[n] \in {d, Append(d, e)}
    BY <2>1, <2>2, AddsOne
  <2>6. e \in Range(list)
    BY <1>2, <2>1 DEF e, Range
  <2>7. Range(g[n]) \subseteq Range(d) \cup {e} /\ Len(g[n]) <= Len(d) + 1
    <3>1. CASE g[n] = d
      BY <2>1, <3>1
    <3>2. CASE g[n] = Append(d, e)
      <4>1. ToSet(Append(d, e)) = ToSet(d) \cup {e}
        BY <2>1, AppendSet
      <4>2. Len(Append(d, e)) = Len(d) + 1
        BY <2>1
      <4> QED BY <3>2, <4>1, <4>2 DEF Range, ToSet
    <3> QED BY <2>5, <3>1, <3>2
  <2>8. Len(g[n]) <= Len(chosen) + n
    <3>1. Len(g[n]) \in Nat /\ Len(d) \in Nat
      BY <1>1, <2>1
    <3> QED BY <1>2, <2>1, <2>3, <2>7, <3>1
  <2> QED BY <2>1, <2>3, <2>4, <2>6, <2>7, <2>8
<1> HIDE DEF Good
<1>5. 0 .. N \subseteq Good
  BY <1>2, <1>3, <1>4, PrefixInduction
<1>6. N \in Good
  BY <1>2, <1>5
<1> QED BY <1>1, <1>6 DEF Good

\* Growing is transitive, and does not lose what was chosen.
LEMMA GrowsOn ==
  ASSUME NEW T, NEW b \in Seq(T), NEW c, NEW d, Grown(b, c, T), Grown(c, d, T)
  PROVE  Grown(b, d, T) /\ Range(b) \subseteq Range(d)
<1>1. b \in Seq(T) /\ c \in Seq(T) /\ d \in Seq(T)
      /\ Len(b) \in Nat /\ Len(c) \in Nat /\ Len(d) \in Nat
  BY DEF Grown
<1>2. \A i \in 1 .. Len(b) : i \in 1 .. Len(c) /\ i \in 1 .. Len(d) /\ d[i] = b[i]
  BY <1>1 DEF Grown
<1>3. Grown(b, d, T)
  BY <1>1, <1>2 DEF Grown
<1>4. Range(b) \subseteq Range(d)
  BY <1>1, <1>2 DEF Range
<1> QED BY <1>3, <1>4

\* A pass without cap over a short list adds all of it to an empty choice.
LEMMA PassAddsAll ==
  ASSUME NEW T, NEW list \in Seq(T), Len(list) <= MaxSymbols
  PROVE  Range(list) \subseteq Range(Pass(<<>>, list, FALSE))
<1> DEFINE N == Len(list)
<1>0. <<>> \in Seq(T) /\ FALSE \in BOOLEAN /\ Len(<<>>) = 0
  OBVIOUS
<1>1. PICK g : Adding(g, <<>>, list, FALSE, T)
  BY <1>0, PassUnfolds
<1>2. /\ g \in [0 .. N -> Seq(T)] /\ g[0] = <<>> /\ Pass(<<>>, list, FALSE) = g[N]
      /\ \A n \in 1 .. N : g[n] = AddAny(g[n - 1], list[n])
  BY <1>1 DEF Adding
<1>3. N \in Nat /\ \A n \in 1 .. N : list[n] \in T
  OBVIOUS
<1> DEFINE Good == {n \in 0 .. N : /\ {list[i] : i \in 1 .. n} \subseteq Range(g[n])
                                   /\ Len(g[n]) <= n}
<1>4. 0 \in Good
  BY <1>0, <1>2, <1>3
<1>5. ASSUME NEW m \in 0 .. N - 1, m \in Good
      PROVE  m + 1 \in Good
  <2> DEFINE n == m + 1
             e == list[n]
             d == g[m]
  <2>1. n \in 1 .. N /\ n - 1 = m /\ n \in 0 .. N /\ m \in 0 .. N /\ e \in T /\ d \in Seq(T)
    BY <1>2, <1>3
  <2>2. g[n] = AddAny(d, e)
    BY <1>2, <2>1
  <2>3. {list[i] : i \in 1 .. m} \subseteq Range(d) /\ Len(d) <= m /\ Len(d) \in Nat
    BY <1>5, <2>1
  <2>4. {list[i] : i \in 1 .. n} = {list[i] : i \in 1 .. m} \cup {e}
    BY <2>1
  <2> HIDE DEF d, e
  <2>5. MaxSymbols \in Nat /\ ~(Len(d) >= MaxSymbols)
    BY <1>3, <2>1, <2>3, RetrievalAssumption DEF RetrievalAssumption
  <2>6. CASE e \in Range(d)
    <3>1. g[n] = d
      BY <2>2, <2>6 DEF AddAny
    <3>2. {list[i] : i \in 1 .. n} \subseteq Range(g[n])
      BY <2>3, <2>4, <2>6, <3>1
    <3>3. Len(g[n]) <= n
      BY <2>1, <2>3, <3>1
    <3> QED BY <2>1, <3>2, <3>3
  <2>7. CASE e \notin Range(d)
    <3>1. g[n] = Append(d, e)
      BY <2>2, <2>5, <2>7 DEF AddAny
    <3>2. ToSet(Append(d, e)) = ToSet(d) \cup {e} /\ Len(Append(d, e)) = Len(d) + 1
      BY <2>1, AppendSet
    <3>3. Range(g[n]) = Range(d) \cup {e} /\ Len(g[n]) = Len(d) + 1
      BY <3>1, <3>2 DEF Range, ToSet
    <3>4. {list[i] : i \in 1 .. n} \subseteq Range(g[n])
      BY <2>3, <2>4, <3>3
    <3>5. Len(g[n]) <= n
      BY <2>1, <2>3, <3>3
    <3> QED BY <2>1, <3>4, <3>5
  <2> QED BY <2>6, <2>7
<1> HIDE DEF Good
<1>6. 0 .. N \subseteq Good
  BY <1>3, <1>4, <1>5, PrefixInduction
<1>7. N \in Good
  BY <1>3, <1>6
<1>8. Range(list) = {list[i] : i \in 1 .. N}
  BY DEF Range
<1> QED BY <1>2, <1>7, <1>8 DEF Good

\* What is not query logic of a file.
PlainOf(chosen, f) == {e \in OfFile(chosen, f) : ~IsQueryLogic(e)}

\* The symbols of a list, and those of a file among them, are finitely many.
LEMMA ChosenFinite ==
  ASSUME NEW T, NEW c \in Seq(T)
  PROVE  /\ IsFiniteSet(Range(c)) /\ Cardinality(Range(c)) <= Len(c)
         /\ \A f : IsFiniteSet(OfFile(c, f)) /\ IsFiniteSet(PlainOf(c, f))
<1>1. c \in Surjection(1 .. Len(c), Range(c))
  BY DEF Surjection, Range
<1>2. IsFiniteSet(1 .. Len(c)) /\ Cardinality(1 .. Len(c)) = Len(c)
  <2>1. Len(c) \in Nat /\ Len(c) \in Int /\ 1 \in Int
    OBVIOUS
  <2> DEFINE n == Len(c)
  <2> HIDE DEF n
  <2>2. IsFiniteSet(1 .. n) /\ Cardinality(1 .. n) = IF 1 > n THEN 0 ELSE n - 1 + 1
    BY <2>1, FS_Interval DEF n
  <2> QED BY <2>1, <2>2 DEF n
<1>3. IsFiniteSet(Range(c)) /\ Cardinality(Range(c)) <= Len(c)
  BY <1>1, <1>2, FS_Surjection
<1>4. ASSUME NEW f
      PROVE  IsFiniteSet(OfFile(c, f)) /\ IsFiniteSet(PlainOf(c, f))
  <2>1. OfFile(c, f) \subseteq Range(c) /\ PlainOf(c, f) \subseteq Range(c)
    BY DEF OfFile, PlainOf
  <2> QED BY <1>3, <2>1, FS_Subset
<1> QED BY <1>3, <1>4
\* A file has its share, which is not empty.
LEMMA FileCapType == FileCap \in Nat \ {0}
<1>1. MaxSymbols \in Nat
  BY RetrievalAssumption DEF RetrievalAssumption
<1>2. MaxSymbols \div 2 \in Nat
  BY <1>1
<1> QED BY <1>2 DEF FileCap

\* A capped pass has taken a symbol, or has no room for it.
Dealt(c, e) ==
  \/ e \in Range(c)
  \/ Len(c) >= MaxSymbols
  \/ Cardinality(OfFile(c, NodeFile(e))) >= FileCap

\* Room does not come back.
LEMMA DealtStays ==
  ASSUME NEW T, NEW c \in Seq(T), NEW x \in T, NEW e, Dealt(c, e)
  PROVE  Dealt(Append(c, x), e)
<1> DEFINE d == Append(c, x)
<1>1. d \in Seq(T) /\ Len(d) = Len(c) + 1 /\ Range(d) = Range(c) \cup {x}
  <2>1. d \in Seq(T) /\ ToSet(d) = ToSet(c) \cup {x}
    BY AppendSet
  <2> QED BY <2>1 DEF Range, ToSet
<1>2. Len(c) \in Nat /\ MaxSymbols \in Nat /\ FileCap \in Nat
  BY RetrievalAssumption, FileCapType DEF RetrievalAssumption
<1> HIDE DEF d
<1>3. CASE e \in Range(c)
  BY <1>1, <1>3 DEF Dealt, d
<1>4. CASE Len(c) >= MaxSymbols
  BY <1>1, <1>2, <1>4 DEF Dealt, d
<1>5. CASE Cardinality(OfFile(c, NodeFile(e))) >= FileCap
  <2> DEFINE A == OfFile(c, NodeFile(e))
             B == OfFile(d, NodeFile(e))
  <2>1. A \subseteq B
    BY <1>1 DEF OfFile
  <2>2. IsFiniteSet(B) /\ IsFiniteSet(A)
    BY <1>1, ChosenFinite
  <2> HIDE DEF A, B
  <2>3. Cardinality(A) <= Cardinality(B) /\ Cardinality(A) \in Nat /\ Cardinality(B) \in Nat
    BY <2>1, <2>2, FS_Subset, FS_CardinalityType
  <2>4. Cardinality(B) >= FileCap
    BY <1>2, <1>5, <2>3 DEF A
  <2> QED BY <2>4 DEF Dealt, d, B
<1> QED BY <1>3, <1>4, <1>5 DEF Dealt

\* A symbol that is not query logic gets in only below the share of its file.
LEMMA ShareKept ==
  ASSUME NEW T, NEW c \in Seq(T), NEW e \in T, NEW f,
         Cardinality(PlainOf(c, f)) <= FileCap,
         IsQueryLogic(e) \/ Cardinality(OfFile(c, NodeFile(e))) < FileCap
  PROVE  Cardinality(PlainOf(Append(c, e), f)) <= FileCap
<1> DEFINE d == Append(c, e)
<1>1. Range(d) = Range(c) \cup {e}
  <2>1. ToSet(d) = ToSet(c) \cup {e}
    BY AppendSet
  <2> QED BY <2>1 DEF Range, ToSet
<1> HIDE DEF d
<1>2. CASE IsQueryLogic(e) \/ NodeFile(e) # f
  <2>1. PlainOf(d, f) = PlainOf(c, f)
    BY <1>1, <1>2 DEF PlainOf, OfFile
  <2> QED BY <2>1 DEF d
<1>3. CASE ~IsQueryLogic(e) /\ NodeFile(e) = f
  <2>1. PlainOf(d, f) = PlainOf(c, f) \cup {e}
    BY <1>1, <1>3 DEF PlainOf, OfFile
  <2>2. IsFiniteSet(PlainOf(c, f)) /\ IsFiniteSet(OfFile(c, f)) /\ PlainOf(c, f) \subseteq OfFile(c, f)
    BY ChosenFinite DEF PlainOf
  <2>3. Cardinality(PlainOf(c, f)) <= Cardinality(OfFile(c, f))
        /\ Cardinality(PlainOf(c, f)) \in Nat /\ Cardinality(OfFile(c, f)) \in Nat
    BY <2>2, FS_Subset, FS_CardinalityType
  <2>4. Cardinality(PlainOf(d, f)) <= Cardinality(PlainOf(c, f)) + 1
        /\ Cardinality(PlainOf(d, f)) \in Nat
    <3> DEFINE p == PlainOf(c, f)
    <3>1. IsFiniteSet(p) /\ Cardinality(p) \in Nat /\ PlainOf(d, f) = p \cup {e}
      BY <2>1, <2>2, <2>3
    <3> HIDE DEF p
    <3>2. Cardinality(p \cup {e}) = IF e \in p THEN Cardinality(p) ELSE Cardinality(p) + 1
      BY <3>1, FS_AddElement
    <3>3. Cardinality(p \cup {e}) <= Cardinality(p) + 1 /\ Cardinality(p \cup {e}) \in Nat
      BY <3>1, <3>2
    <3> QED BY <3>1, <3>3 DEF p
  <2>5. Cardinality(OfFile(c, f)) < FileCap
    BY <1>3
  <2> QED BY <2>3, <2>4, <2>5, FileCapType DEF d
<1> QED BY <1>2, <1>3

\* A capped pass keeps the shares, and deals with each symbol of the list.
LEMMA PassCaps ==
  ASSUME NEW T, NEW list \in Seq(T)
  PROVE  LET r == Pass(<<>>, list, TRUE)
         IN  /\ \A f : Cardinality(PlainOf(r, f)) <= FileCap
             /\ \A e \in Range(list) : Dealt(r, e)
<1> DEFINE N == Len(list)
<1>0. <<>> \in Seq(T) /\ TRUE \in BOOLEAN /\ Len(<<>>) = 0
  OBVIOUS
<1>1. PICK g : Adding(g, <<>>, list, TRUE, T)
  BY <1>0, PassUnfolds
<1>2. /\ g \in [0 .. N -> Seq(T)] /\ g[0] = <<>> /\ Pass(<<>>, list, TRUE) = g[N]
      /\ \A n \in 1 .. N : g[n] = AddCapped(g[n - 1], list[n])
  BY <1>1 DEF Adding
<1>3. N \in Nat /\ \A n \in 1 .. N : list[n] \in T
  OBVIOUS
<1> DEFINE Good == {n \in 0 .. N : /\ \A f : Cardinality(PlainOf(g[n], f)) <= FileCap
                                   /\ \A i \in 1 .. n : Dealt(g[n], list[i])}
<1>4. 0 \in Good
  <2>1. \A f : PlainOf(<<>>, f) = {}
    BY DEF PlainOf, OfFile, Range
  <2>2. \A f : Cardinality(PlainOf(g[0], f)) <= FileCap
    BY <1>2, <2>1, FS_EmptySet, FileCapType
  <2> QED BY <1>3, <2>2
<1>5. ASSUME NEW m \in 0 .. N - 1, m \in Good
      PROVE  m + 1 \in Good
  <2> DEFINE n == m + 1
             e == list[n]
             d == g[m]
  <2>1. n \in 1 .. N /\ n - 1 = m /\ n \in 0 .. N /\ m \in 0 .. N /\ e \in T /\ d \in Seq(T)
    BY <1>2, <1>3
  <2>2. g[n] = AddCapped(d, e)
    BY <1>2, <2>1
  <2>3. (\A f : Cardinality(PlainOf(d, f)) <= FileCap) /\ \A i \in 1 .. m : Dealt(d, list[i])
    BY <1>5, <2>1
  <2>4. \A i \in 1 .. n : i = n \/ i \in 1 .. m
    BY <2>1
  <2>5. SUFFICES (\A f : Cardinality(PlainOf(g[n], f)) <= FileCap)
                 /\ (\A i \in 1 .. m : Dealt(g[n], list[i])) /\ Dealt(g[n], e)
    BY <2>1, <2>4
  <2> HIDE DEF d, e
  <2>6. Cardinality(OfFile(d, NodeFile(e))) \in Nat /\ FileCap \in Nat
    BY <2>1, ChosenFinite, FS_CardinalityType, FileCapType
  <2>7. CASE g[n] = d
    <3>1. Dealt(d, e)
      <4>1. CASE Cardinality(OfFile(d, NodeFile(e))) >= FileCap
        BY <4>1 DEF Dealt
      <4>2. CASE ~(Cardinality(OfFile(d, NodeFile(e))) >= FileCap)
        <5>1. AddAny(d, e) = d
          BY <2>2, <2>7, <4>2 DEF AddCapped
        <5>2. Append(d, e) # d
          <6>1. Len(Append(d, e)) = Len(d) + 1 /\ Len(d) \in Nat
            BY <2>1
          <6> QED BY <6>1
        <5> QED BY <5>1, <5>2 DEF AddAny, Dealt
      <4> QED BY <4>1, <4>2
    <3> QED BY <2>3, <2>7, <3>1
  <2>8. CASE g[n] # d
    <3>1. g[n] = Append(d, e)
      BY <2>1, <2>2, <2>8, AddsOne
    <3>2. IsQueryLogic(e) \/ Cardinality(OfFile(d, NodeFile(e))) < FileCap
      <4>1. ~(Cardinality(OfFile(d, NodeFile(e))) >= FileCap /\ ~IsQueryLogic(e))
        BY <2>2, <2>8 DEF AddCapped
      <4> QED BY <2>6, <4>1
    <3>3. \A f : Cardinality(PlainOf(g[n], f)) <= FileCap
      BY <2>1, <2>3, <3>1, <3>2, ShareKept
    <3>4. \A i \in 1 .. m : Dealt(g[n], list[i])
      BY <2>1, <2>3, <3>1, DealtStays
    <3>5. e \in Range(g[n])
      <4>1. ToSet(Append(d, e)) = ToSet(d) \cup {e}
        BY <2>1, AppendSet
      <4> QED BY <3>1, <4>1 DEF Range, ToSet
    <3> QED BY <3>3, <3>4, <3>5 DEF Dealt
  <2> QED BY <2>7, <2>8
<1> HIDE DEF Good
<1>6. 0 .. N \subseteq Good
  BY <1>3, <1>4, <1>5, PrefixInduction
<1>7. N \in Good
  BY <1>3, <1>6
<1>8. \A e \in Range(list) : \E i \in 1 .. N : e = list[i]
  BY DEF Range
<1> QED BY <1>2, <1>7, <1>8 DEF Good
\* The first member of a list that is in a set.
LEMMA LeadingOne ==
  ASSUME NEW T, NEW order \in Seq(T), NEW S
  PROVE  /\ Leading(order, S) \in Seq(T) /\ Len(Leading(order, S)) <= 1
         /\ Range(Leading(order, S)) \subseteq Range(order) \cap S
         /\ Range(order) \cap S # {} => Range(Leading(order, S)) # {}
<1> DEFINE hits == Only(order, S)
<1>1. hits \in Seq(T) /\ Range(hits) = Range(order) \cap S
  <2>1. hits \in Seq(T) /\ ToSet(hits) = ToSet(order) \cap S
    BY OnlySelects
  <2> QED BY <2>1 DEF Range, ToSet
<1>2. Leading(order, S) = IF hits = <<>> THEN <<>> ELSE <<Head(hits)>>
  BY DEF Leading
<1> HIDE DEF hits
<1>3. CASE hits = <<>>
  <2>1. Range(<<>>) = {} /\ Len(<<>>) = 0 /\ <<>> \in Seq(T)
    BY DEF Range
  <2> QED BY <1>1, <1>2, <1>3, <2>1
<1>4. CASE hits # <<>>
  <2> DEFINE e == Head(hits)
  <2>1. e \in T /\ e \in Range(hits)
    <3>1. e = hits[1] /\ 1 \in DOMAIN hits /\ e \in T
      BY <1>1, <1>4
    <3> QED BY <3>1 DEF Range
  <2> HIDE DEF e
  <2>2. Leading(order, S) = <<e>>
    BY <1>2, <1>4 DEF e
  <2>3. <<e>> \in Seq(T) /\ Len(<<e>>) = 1 /\ Range(<<e>>) = {e}
    BY <2>1 DEF Range
  <2> DEFINE l == <<e>>
  <2>4. l \in Seq(T) /\ Len(l) <= 1 /\ Range(l) = {e} /\ Leading(order, S) = l
    BY <2>2, <2>3
  <2> HIDE DEF l
  <2> QED BY <1>1, <2>1, <2>4
<1> QED BY <1>3, <1>4

\* Two lists in a row hold what both hold.
LEMMA JoinedRange ==
  ASSUME NEW T, NEW a \in Seq(T), NEW b \in Seq(T)
  PROVE  a \o b \in Seq(T) /\ Len(a \o b) = Len(a) + Len(b) /\ Range(a \o b) = Range(a) \cup Range(b)
<1> DEFINE c == a \o b
<1>1. c \in Seq(T) /\ Len(c) = Len(a) + Len(b) /\ Len(a) \in Nat /\ Len(b) \in Nat
  OBVIOUS
<1>2. /\ \A i \in 1 .. Len(a) : c[i] = a[i]
      /\ \A i \in 1 .. Len(b) : c[Len(a) + i] = b[i]
  BY ConcatProperties
<1> HIDE DEF c
<1>3. ASSUME NEW x \in Range(c)
      PROVE  x \in Range(a) \cup Range(b)
  <2>1. PICK i \in 1 .. Len(c) : x = c[i]
    BY <1>1 DEF Range
  <2>2. CASE i <= Len(a)
    <3>1. i \in 1 .. Len(a)
      BY <1>1, <2>2
    <3> QED BY <1>2, <2>1, <3>1 DEF Range
  <2>3. CASE ~(i <= Len(a))
    <3>1. i - Len(a) \in 1 .. Len(b) /\ Len(a) + (i - Len(a)) = i
      BY <1>1, <2>3
    <3>2. c[Len(a) + (i - Len(a))] = b[i - Len(a)]
      BY <1>2, <3>1
    <3>3. x = b[i - Len(a)]
      BY <2>1, <3>1, <3>2
    <3> QED BY <3>1, <3>3 DEF Range
  <2> QED BY <2>2, <2>3
<1>4. \A i \in 1 .. Len(a) : i \in 1 .. Len(c)
  BY <1>1
<1>5. \A i \in 1 .. Len(b) : Len(a) + i \in 1 .. Len(c)
  BY <1>1
<1>6. Range(a) \subseteq Range(c)
  BY <1>1, <1>2, <1>4 DEF Range
<1>7. Range(b) \subseteq Range(c)
  <2>1. ASSUME NEW i \in 1 .. Len(b)
        PROVE  b[i] \in Range(c)
    BY <1>1, <1>2, <1>5 DEF Range
  <2> QED BY <2>1 DEF Range
<1> QED BY <1>1, <1>3, <1>6, <1>7 DEF c

\* What is protected: query logic and a view, when the ranking has any.
LEMMA ProtectedBoth ==
  ASSUME NEW T, NEW order \in Seq(T)
  PROVE  LET p == Protected(order)
         IN  /\ p \in Seq(T) /\ Len(p) <= 2 /\ Range(p) \subseteq Range(order)
             /\ ~viewTask => p = <<>>
             /\ viewTask /\ (\E e \in Range(order) : IsView(e)) => \E e \in Range(p) : IsView(e)
             /\ viewTask /\ (\E e \in Range(order) : IsQueryLogic(e)) =>
                  \E e \in Range(p) : IsQueryLogic(e)
<1> DEFINE L == LogicIn(order)
           logic == Leading(order, L)
           V == ViewsIn(order) \ Range(logic)
           view == Leading(order, V)
           p == Protected(order)
<1>1. CASE ~viewTask
  <2>1. p = <<>> /\ <<>> \in Seq(T) /\ Len(<<>>) = 0 /\ Range(<<>>) = {}
    BY <1>1 DEF Protected, Range
  <2> QED BY <1>1, <2>1
<1>2. CASE viewTask
  <2>1. /\ logic \in Seq(T) /\ Len(logic) <= 1 /\ Range(logic) \subseteq Range(order) \cap L
        /\ Range(order) \cap L # {} => Range(logic) # {}
    BY LeadingOne
  <2>2. /\ view \in Seq(T) /\ Len(view) <= 1 /\ Range(view) \subseteq Range(order) \cap V
        /\ Range(order) \cap V # {} => Range(view) # {}
    BY LeadingOne
  <2>3. p = logic \o view
    BY <1>2 DEF Protected
  <2>4. L = {e \in Range(order) : IsQueryLogic(e)}
    BY DEF LogicIn
  <2>5. V = {e \in Range(order) : IsView(e)} \ Range(logic)
    BY DEF ViewsIn
  <2> HIDE DEF p, logic, view, L, V
  <2>6. p \in Seq(T) /\ Len(p) = Len(logic) + Len(view) /\ Range(p) = Range(logic) \cup Range(view)
    BY <2>1, <2>2, <2>3, JoinedRange
  <2>7. Len(p) <= 2
    <3>1. Len(logic) \in Nat /\ Len(view) \in Nat
      BY <2>1, <2>2
    <3> QED BY <2>1, <2>2, <2>6, <3>1
  <2>8. Range(p) \subseteq Range(order)
    BY <2>1, <2>2, <2>6
  <2>9. ASSUME NEW v \in Range(order), IsView(v)
        PROVE  \E e \in Range(p) : IsView(e)
    <3>1. CASE v \in Range(logic)
      BY <2>6, <2>9, <3>1
    <3>2. CASE v \notin Range(logic)
      <4>1. Range(view) # {}
        BY <2>2, <2>5, <2>9, <3>2
      <4> QED BY <2>2, <2>5, <2>6, <4>1
    <3> QED BY <3>1, <3>2
  <2>10. ASSUME NEW v \in Range(order), IsQueryLogic(v)
         PROVE  \E e \in Range(p) : IsQueryLogic(e)
    <3>1. Range(logic) # {}
      BY <2>1, <2>4, <2>10
    <3> QED BY <2>1, <2>4, <2>6, <3>1
  <2> QED BY <1>2, <2>6, <2>7, <2>8, <2>9, <2>10 DEF p
<1> QED BY <1>1, <1>2
-----------------------------------------------------------------------------
(* What slot defense leaves.                                               *)

\* A ranking after slot defense: no more than MaxSymbols of its symbols, each once.
LEMMA DefendedShort ==
  ASSUME NEW T, NEW order \in Seq(T)
  PROVE  LET p == Pass(<<>>, Protected(order), FALSE)
             q == Pass(p, order, TRUE)
             r == SlotDefense(order)
         IN  /\ Grown(<<>>, p, T) /\ Grown(p, q, T) /\ Grown(q, r, T)
             /\ Len(p) <= 2
             /\ Range(p) \subseteq Range(order) /\ Range(r) \subseteq Range(order)
<1> DEFINE a == Protected(order)
           p == Pass(<<>>, a, FALSE)
           q == Pass(p, order, TRUE)
           r == Pass(q, order, FALSE)
<1>1. /\ <<>> \in Seq(T) /\ Len(<<>>) = 0 /\ Range(<<>>) = {}
      /\ \A i, j \in 1 .. Len(<<>>) : <<>>[i] = <<>>[j] => i = j
  BY DEF Range
<1>2. MaxSymbols \in Nat \ {0} /\ TRUE \in BOOLEAN /\ FALSE \in BOOLEAN
  BY RetrievalAssumption DEF RetrievalAssumption
<1>3. a \in Seq(T) /\ Len(a) <= 2 /\ Range(a) \subseteq Range(order)
  BY ProtectedBoth
<1>4. SlotDefense(order) = r
  BY DEF SlotDefense
<1>5. Grown(<<>>, p, T) /\ Range(p) \subseteq {} \cup Range(a) /\ Len(p) <= 0 + Len(a)
  <2> HIDE DEF a
  <2>1. Len(<<>>) <= MaxSymbols
    BY <1>1, <1>2
  <2> QED BY <1>1, <1>2, <1>3, <2>1, PassGrows
<1> HIDE DEF p
<1>6. p \in Seq(T) /\ Len(p) <= MaxSymbols /\ \A i, j \in 1 .. Len(p) : p[i] = p[j] => i = j
  BY <1>5 DEF Grown
<1>7. Grown(p, q, T) /\ Range(q) \subseteq Range(p) \cup Range(order)
  BY <1>2, <1>6, PassGrows
<1> HIDE DEF q
<1>8. q \in Seq(T) /\ Len(q) <= MaxSymbols /\ \A i, j \in 1 .. Len(q) : q[i] = q[j] => i = j
  BY <1>7 DEF Grown
<1>9. Grown(q, r, T) /\ Range(r) \subseteq Range(q) \cup Range(order)
  BY <1>2, <1>8, PassGrows
<1> HIDE DEF r
<1>10. Len(p) <= 2
  <2>1. Len(p) \in Nat /\ Len(a) \in Nat
    BY <1>3, <1>6
  <2> HIDE DEF a
  <2> QED BY <1>3, <1>5, <2>1
<1>11. Range(p) \subseteq Range(order) /\ Range(r) \subseteq Range(order)
  BY <1>3, <1>5, <1>7, <1>9
<1> QED BY <1>4, <1>5, <1>7, <1>9, <1>10, <1>11 DEF p, q, r

\* What is shown of a list.
Shown(chosen) == {chosen[i] : i \in {j \in DOMAIN chosen : j <= MaxEvidence}}

\* A place that is shown.
LEMMA ShownSmall ==
  ASSUME NEW T, NEW c \in Seq(T)
  PROVE  /\ Shown(c) \subseteq Range(c) /\ IsFiniteSet(Shown(c))
         /\ Cardinality(Shown(c)) <= MaxEvidence /\ Cardinality(Shown(c)) <= Len(c)
         /\ c # <<>> => Shown(c) # {}
<1>1. MaxEvidence \in Nat \ {0} /\ Len(c) \in Nat
  BY RetrievalAssumption DEF RetrievalAssumption
<1> DEFINE P == {j \in DOMAIN c : j <= MaxEvidence}
           f == [j \in P |-> c[j]]
<1>2. P \subseteq 1 .. MaxEvidence /\ P \subseteq 1 .. Len(c)
  BY <1>1
<1>3. /\ IsFiniteSet(1 .. MaxEvidence) /\ Cardinality(1 .. MaxEvidence) = MaxEvidence
      /\ IsFiniteSet(1 .. Len(c)) /\ Cardinality(1 .. Len(c)) = Len(c)
  <2>1. \A n \in Nat : IsFiniteSet(1 .. n) /\ Cardinality(1 .. n) = n
    <3>1. ASSUME NEW n \in Nat
          PROVE  IsFiniteSet(1 .. n) /\ Cardinality(1 .. n) = n
      <4>1. n \in Int /\ 1 \in Int
        OBVIOUS
      <4>2. IsFiniteSet(1 .. n) /\ Cardinality(1 .. n) = IF 1 > n THEN 0 ELSE n - 1 + 1
        BY <4>1, FS_Interval
      <4> QED BY <4>2
    <3> QED BY <3>1
  <2> QED BY <1>1, <2>1
<1>4. f \in Surjection(P, Shown(c))
  BY DEF Shown, Surjection
<1> HIDE DEF f, P
<1>5. IsFiniteSet(P) /\ Cardinality(P) <= MaxEvidence /\ Cardinality(P) <= Len(c)
  BY <1>2, <1>3, FS_Subset
<1>6. IsFiniteSet(Shown(c)) /\ Cardinality(Shown(c)) <= Cardinality(P)
  BY <1>4, <1>5, FS_Surjection
<1>7. Cardinality(Shown(c)) \in Nat /\ Cardinality(P) \in Nat
  BY <1>5, <1>6, FS_CardinalityType
<1>8. Shown(c) \subseteq Range(c)
  BY DEF Shown, Range
<1>9. ASSUME c # <<>>
      PROVE  Shown(c) # {}
  <2>1. 1 \in DOMAIN c /\ 1 <= MaxEvidence
    BY <1>1, <1>9
  <2> QED BY <2>1 DEF Shown
<1> QED BY <1>1, <1>5, <1>6, <1>7, <1>8, <1>9

\* What a list begins with is shown with it, when it is short.
LEMMA BeginningShown ==
  ASSUME NEW T, NEW c \in Seq(T), NEW d, Grown(c, d, T), Len(c) <= MaxEvidence
  PROVE  Range(c) \subseteq Shown(d)
<1>1. d \in Seq(T) /\ Len(d) \in Nat /\ Len(c) \in Nat /\ MaxEvidence \in Nat
  BY RetrievalAssumption DEF Grown, RetrievalAssumption
<1>2. \A i \in 1 .. Len(c) : i \in DOMAIN d /\ i <= MaxEvidence /\ d[i] = c[i]
  BY <1>1 DEF Grown
<1> QED BY <1>2 DEF Range, Shown

\* In a task about views, slot defense shows a view and query logic.
LEMMA DefendsBoth ==
  ASSUME NEW T, NEW order \in Seq(T), viewTask, MaxSymbols >= 2, MaxEvidence >= 2
  PROVE  LET shown == Shown(SlotDefense(order))
         IN  /\ (\E e \in Range(order) : IsView(e)) => \E e \in shown : IsView(e)
             /\ (\E e \in Range(order) : IsQueryLogic(e)) => \E e \in shown : IsQueryLogic(e)
<1> DEFINE a == Protected(order)
           p == Pass(<<>>, a, FALSE)
           q == Pass(p, order, TRUE)
           r == SlotDefense(order)
<1>1. Grown(<<>>, p, T) /\ Grown(p, q, T) /\ Grown(q, r, T) /\ Len(p) <= 2
  BY DefendedShort
<1>2. a \in Seq(T) /\ Len(a) <= 2
  BY ProtectedBoth
<1>3. MaxSymbols \in Nat /\ MaxEvidence \in Nat /\ Len(a) \in Nat /\ Len(p) \in Nat
  <2> HIDE DEF a, p, q, r
  <2>1. MaxSymbols \in Nat /\ MaxEvidence \in Nat
    BY RetrievalAssumption DEF RetrievalAssumption
  <2>2. p \in Seq(T)
    BY <1>1 DEF Grown
  <2> QED BY <1>2, <2>1, <2>2
<1>4. Range(a) \subseteq Range(p)
  <2>1. Len(a) <= MaxSymbols
    BY <1>2, <1>3
  <2> HIDE DEF a
  <2> QED BY <1>2, <2>1, PassAddsAll
<1>5. Range(a) \subseteq Shown(r)
  <2> HIDE DEF a, p, q, r
  <2>1. p \in Seq(T)
    BY <1>1 DEF Grown
  <2>2. Grown(p, r, T)
    BY <1>1, <2>1, GrowsOn
  <2>3. Len(p) <= MaxEvidence
    BY <1>1, <1>3
  <2> QED BY <1>4, <2>1, <2>2, <2>3, BeginningShown
<1>6. /\ (\E e \in Range(order) : IsView(e)) => \E e \in Range(a) : IsView(e)
      /\ (\E e \in Range(order) : IsQueryLogic(e)) => \E e \in Range(a) : IsQueryLogic(e)
  BY ProtectedBoth
<1> HIDE DEF a, r
<1> QED BY <1>5, <1>6 DEF r

\* In another task, a file has more than its share only when no file with room has
\* anything to show.
LEMMA DefendsFiles ==
  ASSUME NEW T, NEW order \in Seq(T), ~viewTask, NEW f,
         Cardinality({e \in Shown(SlotDefense(order)) : NodeFile(e) = f /\ ~IsQueryLogic(e)}) > FileCap,
         NEW e \in Range(order) \ Shown(SlotDefense(order))
  PROVE  Cardinality({d \in Shown(SlotDefense(order)) : NodeFile(d) = NodeFile(e)}) >= FileCap
<1> DEFINE p == Pass(<<>>, Protected(order), FALSE)
           q == Pass(p, order, TRUE)
           r == SlotDefense(order)
           plain == {d \in Shown(r) : NodeFile(d) = f /\ ~IsQueryLogic(d)}
           same == {d \in Shown(r) : NodeFile(d) = NodeFile(e)}
<1>1. Grown(<<>>, p, T) /\ Grown(p, q, T) /\ Grown(q, r, T)
  BY DefendedShort
<1>2. p = <<>>
  <2>1. Protected(order) = <<>> /\ <<>> \in Seq(T) /\ FALSE \in BOOLEAN /\ Len(<<>>) = 0
    BY ProtectedBoth
  <2>2. PICK g : Adding(g, <<>>, <<>>, FALSE, T)
    BY <2>1, PassUnfolds
  <2> QED BY <2>1, <2>2 DEF Adding
<1>3. (\A x : Cardinality(PlainOf(q, x)) <= FileCap) /\ \A x \in Range(order) : Dealt(q, x)
  BY <1>2, PassCaps
<1> HIDE DEF p, q, r
<1>4. /\ q \in Seq(T) /\ r \in Seq(T) /\ Len(q) \in Nat /\ Len(r) \in Nat
      /\ MaxEvidence \in Nat /\ MaxSymbols \in Nat /\ FileCap \in Nat
      /\ Len(q) <= Len(r) /\ Len(r) <= MaxSymbols /\ \A i \in 1 .. Len(q) : r[i] = q[i]
  BY <1>1, FileCapType, RetrievalAssumption DEF Grown, RetrievalAssumption
<1>5. ~(plain \subseteq PlainOf(q, f))
  <2>1. SUFFICES ASSUME plain \subseteq PlainOf(q, f)
                 PROVE  FALSE
    OBVIOUS
  <2>2. IsFiniteSet(PlainOf(q, f))
    BY <1>4, ChosenFinite
  <2> HIDE DEF plain
  <2>3. Cardinality(plain) <= Cardinality(PlainOf(q, f)) /\ Cardinality(plain) \in Nat
        /\ Cardinality(PlainOf(q, f)) \in Nat
    BY <2>1, <2>2, FS_Subset, FS_CardinalityType
  <2>4. Cardinality(plain) > FileCap
    BY DEF plain, r
  <2> QED BY <1>3, <1>4, <2>3, <2>4
<1>6. PICK x \in plain : x \notin Range(q)
  <2>1. PICK x \in plain : x \notin PlainOf(q, f)
    <3> HIDE DEF plain
    <3> QED BY <1>5
  <2>2. x \notin Range(q)
    BY <2>1 DEF PlainOf, OfFile
  <2> QED BY <2>1, <2>2
<1>7. PICK i \in DOMAIN r : i <= MaxEvidence /\ x = r[i]
  BY <1>6 DEF Shown
<1>8. Len(q) < i
  <2>1. SUFFICES ASSUME ~(Len(q) < i)
                 PROVE  FALSE
    OBVIOUS
  <2>2. i \in 1 .. Len(q)
    BY <1>4, <1>7, <2>1
  <2> QED BY <1>4, <1>6, <1>7, <2>2 DEF Range
<1>9. Len(q) <= MaxEvidence /\ Len(q) < MaxSymbols
  BY <1>4, <1>7, <1>8
<1>10. Range(q) \subseteq Shown(r)
  BY <1>1, <1>4, <1>9, BeginningShown
<1>11. Cardinality(OfFile(q, NodeFile(e))) >= FileCap
  <2>1. e \notin Range(q) /\ Dealt(q, e)
    BY <1>3, <1>10 DEF r
  <2> QED BY <1>4, <1>9, <2>1 DEF Dealt
<1>12. OfFile(q, NodeFile(e)) \subseteq same
  BY <1>10 DEF OfFile
<1>13. IsFiniteSet(same) /\ IsFiniteSet(OfFile(q, NodeFile(e)))
  <2>1. IsFiniteSet(Shown(r))
    BY <1>4, ShownSmall
  <2>2. same \subseteq Shown(r)
    OBVIOUS
  <2> QED BY <1>4, <2>1, <2>2, FS_Subset, ChosenFinite
<1> HIDE DEF same
<1>14. Cardinality(OfFile(q, NodeFile(e))) <= Cardinality(same)
       /\ Cardinality(same) \in Nat /\ Cardinality(OfFile(q, NodeFile(e))) \in Nat
  BY <1>12, <1>13, FS_Subset, FS_CardinalityType
<1>15. Cardinality(same) >= FileCap
  BY <1>4, <1>11, <1>14
<1> QED BY <1>15 DEF same, r
\* Slot defense leaves something of what it is given.
LEMMA DefendsSome ==
  ASSUME NEW T, NEW order \in Seq(T), order # <<>>
  PROVE  SlotDefense(order) # <<>>
<1> DEFINE p == Pass(<<>>, Protected(order), FALSE)
           q == Pass(p, order, TRUE)
           r == SlotDefense(order)
<1>1. Grown(<<>>, p, T) /\ Grown(p, q, T) /\ Grown(q, r, T)
  BY DefendedShort
<1>2. \E e : e \in Range(order)
  <2>1. 1 \in DOMAIN order
    OBVIOUS
  <2> QED BY <2>1 DEF Range
<1>3. p = <<>> => \A e \in Range(order) : Dealt(q, e)
  BY PassCaps
<1> HIDE DEF p, q, r
<1>4. /\ p \in Seq(T) /\ q \in Seq(T) /\ r \in Seq(T) /\ Len(p) <= Len(q) /\ Len(q) <= Len(r)
      /\ Len(p) \in Nat /\ Len(q) \in Nat /\ Len(r) \in Nat
  BY <1>1 DEF Grown
<1>5. Len(q) # 0
  <2>1. CASE p = <<>>
    <3>1. PICK e : Dealt(q, e)
      BY <1>2, <1>3, <2>1
    <3>2. SUFFICES ASSUME Len(q) = 0
                   PROVE  FALSE
      OBVIOUS
    <3>3. q = <<>> /\ Range(<<>>) = {}
      BY <1>4, <3>2 DEF Range
    <3>4. OfFile(q, NodeFile(e)) = {}
      BY <3>3 DEF OfFile
    <3>5. Cardinality(OfFile(q, NodeFile(e))) = 0
      BY <3>4, FS_EmptySet
    <3>6. MaxSymbols \in Nat \ {0} /\ FileCap \in Nat \ {0}
      BY FileCapType, RetrievalAssumption DEF RetrievalAssumption
    <3> QED BY <3>1, <3>2, <3>3, <3>5, <3>6 DEF Dealt
  <2>2. CASE p # <<>>
    <3>1. Len(p) # 0
      BY <1>4, <2>2
    <3> QED BY <1>4, <3>1
  <2> QED BY <2>1, <2>2
<1>6. Len(r) # 0 /\ Len(<<>>) = 0
  BY <1>4, <1>5
<1> QED BY <1>6 DEF r

-----------------------------------------------------------------------------
(* The index.                                                              *)

\* An entry is a symbol of a file at a line.
LEMMA EntryParts ==
  ASSUME NEW m, NEW e \in Entries(m)
  PROVE  /\ e[1] \in Symbols /\ FileOf(e) \in Files
         /\ \/ e = <<e[1], At(e[1], m.code[FileOf(e)])>>
            \/ e = <<e[1], At(e[1], m.sql[FileOf(e)])>>
         /\ e[2] # 0
<1>1. ASSUME NEW S \in SUBSET Symbols, NEW v, e \in Found(S, v)
      PROVE  e[1] \in Symbols /\ e = <<e[1], At(e[1], v[FileOf(e)])>> /\ e[2] # 0
  <2>1. PICK s \in S : e = <<s, At(s, v[Decl[s].file])>>
    BY <1>1 DEF Found
  <2>2. e[2] # 0
    BY <1>1 DEF Found
  <2> QED BY <2>1, <2>2 DEF FileOf
<1>2. CASE e \in CodeEntries(m)
  <2>1. e \in Found({s \in Symbols : Decl[s].code}, m.code)
    BY <1>2 DEF CodeEntries
  <2>2. {s \in Symbols : Decl[s].code} \in SUBSET Symbols
    OBVIOUS
  <2> QED BY <1>1, <2>1, <2>2, SymbolIndexAssumption DEF SymbolIndexAssumption, FileOf
<1>3. CASE e \in SqlEntries(m)
  <2>1. e \in Found({s \in Symbols : Decl[s].sql # "none"}, m.sql)
    BY <1>3 DEF SqlEntries
  <2>2. {s \in Symbols : Decl[s].sql # "none"} \in SUBSET Symbols
    OBVIOUS
  <2> QED BY <1>1, <2>1, <2>2, SymbolIndexAssumption DEF SymbolIndexAssumption, FileOf
<1> QED BY <1>2, <1>3 DEF Entries

\* What matches is in the map.
LEMMA MatchesFound ==
  ASSUME NEW m, NEW terms
  PROVE  Matches(m, terms) \subseteq Entries(m)
<1>1. \A S : EmbeddedParents(m, S) \subseteq Entries(m)
  BY DEF EmbeddedParents, ParentEdges
<1> QED BY <1>1 DEF Matches

-----------------------------------------------------------------------------
(* The project.                                                            *)

\* The state of the project: what a published map was read from was on disk.
ProjectTyped ==
  /\ disk \in [Files -> 1 .. Gone]
  /\ map \in Indexes \cup {NoMap}
  /\ map # NoMap => \A f \in Files : map.sql[f] <= disk[f]

\* Files get newer only.
Newer == \A f \in Files : disk[f] <= disk'[f]

\* A step of the project.
LEMMA ProjectKept ==
  ASSUME ProjectTyped, ProjectNext
  PROVE  ProjectTyped' /\ Newer
<1>0. MaxVersion \in Nat \ {0} /\ Gone \in Nat
  BY SymbolIndexAssumption DEF SymbolIndexAssumption, Gone
<1>1. CASE Publish
  <2>1. PICK m \in Indexes : (\A f \in Files : m.sql[f] <= disk[f]) /\ map' = m
    BY <1>1 DEF Publish
  <2>2. disk' = disk
    BY <1>1 DEF Publish
  <2>3. Newer
    BY <1>0, <2>2 DEF ProjectTyped, Newer
  <2> QED BY <2>1, <2>2, <2>3 DEF ProjectTyped
<1>2. ASSUME NEW f \in Files, Change(f)
      PROVE  ProjectTyped' /\ Newer
  <2>1. disk' = [disk EXCEPT ![f] = @ + 1] /\ map' = map /\ disk[f] < Gone
    BY <1>2 DEF Change
  <2>2. disk' \in [Files -> 1 .. Gone] /\ \A g \in Files : disk[g] <= disk'[g]
    BY <1>0, <2>1 DEF ProjectTyped
  <2>3. \A m \in Indexes, g \in Files : m.sql[g] \in 1 .. Gone
    BY <1>0 DEF Indexes, Versions, Gone
  <2>4. map # NoMap => \A g \in Files : map.sql[g] <= disk'[g]
    BY <1>0, <2>1, <2>2, <2>3 DEF ProjectTyped
  <2> QED BY <2>1, <2>2, <2>4 DEF ProjectTyped, Newer
<1> QED BY <1>1, <1>2 DEF ProjectNext

\* What does not touch the project keeps it.
LEMMA ProjectSame ==
  ASSUME ProjectTyped, UNCHANGED project
  PROVE  ProjectTyped' /\ Newer
<1>1. disk' = disk /\ map' = map
  BY DEF project
<1>2. Gone \in Nat
  BY SymbolIndexAssumption DEF SymbolIndexAssumption, Gone
<1> QED BY <1>1, <1>2 DEF ProjectTyped, Newer

-----------------------------------------------------------------------------
(* A call of codebase_retrieve.                                            *)

\* The lists of a call are what has been read so far.
Listed ==
  /\ RetrievalTypeOK
  /\ IsFiniteSet(nodes)
  /\ nodes # {} => pc \in {"ground", "fuse", "answered"}
  /\ answer # {} => pc = "answered"
  /\ reranked = FALSE \/ pc = "answered"

\* What the lookup found comes from its map.
LookedUp ==
  pc \in {"expand", "merge", "ground", "fuse", "answered"} =>
    /\ candidates \in Best(LookupLimit, Matches(looked, LookupTerms(bridge)))
    /\ looked \in Indexes

\* What was looked up and is not to be read any more was read, or cannot be; and what
\* was read is shown.
Accounted ==
  /\ pc \in {"expand", "merge"} => candidates \subseteq pending
  /\ pc \in {"ground", "fuse", "answered"} =>
       \A e \in candidates \ pending : e \in nodes \/ ~Readable(e)
  /\ pc \in {"fuse", "answered"} => pending = {} \/ nodes # {}
  /\ pc = "answered" => nodes = {} \/ answer # {}

RetrievalInv == Listed /\ LookedUp /\ Accounted /\ SlotsDefended

\* The limits of retrieval.
LEMMA Limits ==
  {CandidateLimit, LookupLimit, MaxSeeds, TopSymbols, MaxSymbols, MaxEvidence} \subseteq Nat \ {0}
  /\ Gone \in Nat
BY RetrievalAssumption, SymbolIndexAssumption DEF RetrievalAssumption, SymbolIndexAssumption, Gone

\* The files of candidates are files of the project.
LEMMA CandidateFiles ==
  ASSUME LookedUp, pc \in {"expand", "merge", "ground", "fuse", "answered"}
  PROVE  \A e \in candidates : FileOf(e) \in Files
<1>1. candidates \in Cuts(LookupLimit, Matches(looked, LookupTerms(bridge)))
  BY BestCuts, Limits DEF LookedUp
<1>2. candidates \subseteq Entries(looked)
  BY <1>1, MatchesFound DEF Cuts
<1> QED BY <1>2, EntryParts

\* What can be read is a matter of the files.
LEMMA ReadableSame ==
  ASSUME UNCHANGED disk
  PROVE  \A e : Readable(e)' <=> Readable(e)
BY DEF Readable

\* Retrieval does not mind that the project changes.
LEMMA RetrievalStays ==
  ASSUME RetrievalInv, ProjectTyped, ProjectTyped', Newer, UNCHANGED retrieval
  PROVE  RetrievalInv'
<1>1. /\ pc' = pc /\ bridge' = bridge /\ viewTask' = viewTask /\ candidates' = candidates
      /\ kinds' = kinds /\ pending' = pending /\ nodes' = nodes /\ answer' = answer
      /\ looked' = looked /\ reranked' = reranked
  BY DEF retrieval, call
<1>2. Listed'
  BY <1>1 DEF RetrievalInv, Listed, RetrievalTypeOK, ProjectTyped
<1>3. LookedUp'
  BY <1>1 DEF RetrievalInv, LookedUp
<1>4. Accounted'
  <2>1. ASSUME NEW e \in candidates, ~Readable(e)
        PROVE  ~Readable(e)'
    <3>1. CASE NodeFile(e) \in Files
      <4>1. disk[NodeFile(e)] = Gone
        BY <2>1, <3>1 DEF Readable
      <4>2. disk'[NodeFile(e)] \in 1 .. Gone /\ disk[NodeFile(e)] <= disk'[NodeFile(e)]
        BY <3>1 DEF ProjectTyped, Newer
      <4> QED BY <4>1, <4>2, Limits DEF Readable
    <3>2. CASE NodeFile(e) \notin Files
      BY <3>2 DEF Readable
    <3> QED BY <3>1, <3>2
  <2> QED BY <1>1, <2>1 DEF RetrievalInv, Accounted
<1>5. SlotsDefended'
  BY <1>1 DEF RetrievalInv, SlotsDefended, ViewKept, NoFileCrowdsOut, IsView, IsQueryLogic
<1> QED BY <1>2, <1>3, <1>4, <1>5 DEF RetrievalInv

\* What is not ordered by the reranker says nothing about slots.
LEMMA NoSlots ==
  ASSUME reranked' = FALSE
  PROVE  SlotsDefended'
BY DEF SlotsDefended, ViewKept, NoFileCrowdsOut

\* A new call.
LEMMA AskKeeps ==
  ASSUME RetrievalInv, ProjectTyped', UNCHANGED disk, Ask
  PROVE  RetrievalInv'
<1>1. /\ pc' = "lookup" /\ looked' = NoMap /\ reranked' = FALSE /\ candidates' = {}
      /\ kinds' = <<>> /\ pending' = {} /\ nodes' = {} /\ answer' = {}
  BY DEF Ask, NoCandidates
<1>2. Listed'
  <2>1. Cardinality({}) = 0 /\ IsFiniteSet({})
    BY FS_EmptySet
  <2>2. Cardinality(nodes') <= CandidateLimit
        /\ Cardinality(answer') <= MaxEvidence /\ Cardinality(answer') <= MaxSymbols
    BY <1>1, <2>1, Limits
  <2>3. looked' \in Indexes \cup {NoMap} /\ map' \in Indexes \cup {NoMap}
    BY <1>1 DEF ProjectTyped
  <2>4. RetrievalTypeOK'
    BY <1>1, <2>2, <2>3 DEF RetrievalTypeOK
  <2> QED BY <1>1, <2>1, <2>4 DEF Listed
<1>3. LookedUp'
  BY <1>1 DEF LookedUp
<1>4. Accounted'
  BY <1>1 DEF Accounted
<1> QED BY <1>1, <1>2, <1>3, <1>4, NoSlots DEF RetrievalInv

\* The lookup.
LEMMA LookupKeeps ==
  ASSUME RetrievalInv, ProjectTyped, ProjectTyped', UNCHANGED project, Lookup
  PROVE  RetrievalInv'
<1>1. /\ pc = "lookup" /\ pc' = "expand" /\ map \in Indexes /\ looked' = map
      /\ candidates' \in Best(LookupLimit, Matches(map, LookupTerms(bridge)))
      /\ kinds' = KindsOf(map, candidates') /\ pending' = candidates'
      /\ bridge' = bridge /\ nodes' = nodes /\ answer' = answer /\ reranked' = reranked
  BY DEF Lookup, ProjectTyped
<1>2. nodes = {} /\ answer = {} /\ reranked = FALSE
  BY <1>1 DEF RetrievalInv, Listed
<1>3. DOMAIN kinds' = candidates'
  BY <1>1 DEF KindsOf
<1>4. Listed'
  <2>1. RetrievalTypeOK'
    BY <1>1, <1>2, <1>3 DEF RetrievalInv, Listed, RetrievalTypeOK, ProjectTyped
  <2> QED BY <1>1, <1>2, <2>1 DEF RetrievalInv, Listed
<1>5. LookedUp'
  BY <1>1 DEF LookedUp
<1>6. Accounted'
  BY <1>1 DEF Accounted
<1> QED BY <1>1, <1>2, <1>4, <1>5, <1>6, NoSlots DEF RetrievalInv

\* The expansion, or none.
LEMMA ExpandKeeps ==
  ASSUME RetrievalInv, ProjectTyped', UNCHANGED project, Expand \/ SkipExpand
  PROVE  RetrievalInv'
<1>1. /\ pc = "expand" /\ pc' \in {"merge", "raised"} /\ looked' = looked
      /\ candidates' = candidates /\ kinds' = kinds
      /\ bridge' = bridge /\ nodes' = nodes /\ answer' = answer /\ reranked' = reranked
      /\ pc' = "raised" => pending' = pending
      /\ pc' = "merge" => pending' = pending \/ candidates \subseteq pending'
  <2>1. CASE Expand
    <3>1. CASE ~walked /\ Frames(map) > StackLimit
      BY <2>1, <3>1 DEF Expand
    <3>2. CASE ~(~walked /\ Frames(map) > StackLimit)
      BY <2>1, <3>2 DEF Expand
    <3> QED BY <3>1, <3>2
  <2>2. CASE SkipExpand
    BY <2>2 DEF SkipExpand, call
  <2> QED BY <2>1, <2>2
<1>2. nodes = {} /\ answer = {} /\ reranked = FALSE
  BY <1>1 DEF RetrievalInv, Listed
<1>3. map' = map
  BY DEF project
<1>4. Listed'
  <2>1. RetrievalTypeOK'
    BY <1>1, <1>2, <1>3 DEF RetrievalInv, Listed, RetrievalTypeOK, ProjectTyped
  <2> QED BY <1>1, <1>2, <2>1 DEF RetrievalInv, Listed
<1>5. LookedUp'
  BY <1>1 DEF RetrievalInv, LookedUp
<1>6. Accounted'
  BY <1>1 DEF RetrievalInv, Accounted
<1> QED BY <1>1, <1>2, <1>4, <1>5, <1>6, NoSlots DEF RetrievalInv

\* The merge.
LEMMA MergeKeeps ==
  ASSUME RetrievalInv, ProjectTyped', UNCHANGED project, Merge
  PROVE  RetrievalInv'
<1>1. /\ pc = "merge" /\ pc' = "ground" /\ looked' = looked /\ candidates' = candidates
      /\ pending' = candidates \cup (pending \cap Entries(map))
      /\ kinds' = WithKindsOf(map, pending')
      /\ bridge' = bridge /\ nodes' = nodes /\ answer' = answer /\ reranked' = reranked
  BY DEF Merge
<1>2. nodes = {} /\ answer = {} /\ reranked = FALSE
  BY <1>1 DEF RetrievalInv, Listed
<1>3. DOMAIN kinds' = DOMAIN kinds \cup pending'
  BY <1>1 DEF WithKindsOf
<1>4. Listed'
  <2>1. RetrievalTypeOK'
    BY <1>1, <1>2, <1>3 DEF RetrievalInv, Listed, RetrievalTypeOK, ProjectTyped
  <2> QED BY <1>1, <1>2, <2>1 DEF RetrievalInv, Listed
<1>5. LookedUp'
  BY <1>1 DEF RetrievalInv, LookedUp
<1>6. Accounted'
  BY <1>1 DEF RetrievalInv, Accounted
<1> QED BY <1>1, <1>2, <1>4, <1>5, <1>6, NoSlots DEF RetrievalInv

\* A candidate is read.
LEMMA GroundKeeps ==
  ASSUME RetrievalInv, ProjectTyped', UNCHANGED project, Ground
  PROVE  RetrievalInv'
<1>1. PICK e \in First(1, OrElse(pending \cap candidates, pending)) :
        /\ pending' = pending \ {e}
        /\ nodes' = IF Readable(e) THEN nodes \cup {e} ELSE nodes
  BY DEF Ground
<1>2. /\ pc = "ground" /\ pc' = pc /\ looked' = looked /\ candidates' = candidates
      /\ kinds' = kinds /\ Cardinality(nodes) < CandidateLimit
      /\ bridge' = bridge /\ answer' = answer /\ reranked' = reranked
  BY DEF Ground
<1>3. e \in pending
  BY DEF First, OrElse
<1>4. answer = {} /\ reranked = FALSE /\ IsFiniteSet(nodes) /\ RetrievalTypeOK
  BY <1>2 DEF RetrievalInv, Listed
<1>5. disk' = disk /\ map' = map
  BY DEF project
<1>6. IsFiniteSet(nodes') /\ Cardinality(nodes') <= CandidateLimit
  <2> DEFINE n == nodes \cup {e}
  <2>1. IsFiniteSet(n) /\ Cardinality(n) <= Cardinality(nodes) + 1 /\ Cardinality(n) \in Nat
        /\ Cardinality(nodes) \in Nat
    <3>1. IsFiniteSet(n) /\ Cardinality(n) = IF e \in nodes THEN Cardinality(nodes) ELSE Cardinality(nodes) + 1
      BY <1>4, FS_AddElement
    <3>2. Cardinality(nodes) \in Nat
      BY <1>4, FS_CardinalityType
    <3> HIDE DEF n
    <3> QED BY <3>1, <3>2
  <2>2. nodes' \in {nodes, n}
    BY <1>1
  <2>3. Cardinality(n) <= CandidateLimit
    <3> HIDE DEF n
    <3> QED BY <1>2, <2>1, Limits
  <2> HIDE DEF n
  <2> QED BY <1>2, <1>4, <2>1, <2>2, <2>3, Limits
<1>7. Listed'
  <2>1. nodes' \subseteq DOMAIN kinds /\ pending' \subseteq DOMAIN kinds
    BY <1>1, <1>2, <1>3, <1>4 DEF RetrievalTypeOK
  <2>2. RetrievalTypeOK'
    BY <1>2, <1>4, <1>5, <1>6, <2>1 DEF RetrievalTypeOK
  <2> QED BY <1>2, <1>4, <1>6, <2>2 DEF RetrievalInv, Listed
<1>8. LookedUp'
  BY <1>2 DEF RetrievalInv, LookedUp
<1>9. Accounted'
  <2>1. \A d \in candidates \ pending' : d \in nodes' \/ ~Readable(d)
    BY <1>1, <1>2, <1>3 DEF RetrievalInv, Accounted
  <2> QED BY <1>2, <1>5, <2>1, ReadableSame DEF Accounted
<1> QED BY <1>2, <1>4, <1>7, <1>8, <1>9, NoSlots DEF RetrievalInv

\* Enough was read, or all.
LEMMA GroundedKeeps ==
  ASSUME RetrievalInv, ProjectTyped', UNCHANGED project, Grounded
  PROVE  RetrievalInv'
<1>1. /\ pc = "ground" /\ pc' = "fuse" /\ looked' = looked /\ candidates' = candidates
      /\ kinds' = kinds /\ pending' = pending /\ nodes' = nodes
      /\ bridge' = bridge /\ answer' = answer /\ reranked' = reranked
      /\ pending = {} \/ Cardinality(nodes) = CandidateLimit
  BY DEF Grounded, call
<1>2. disk' = disk /\ map' = map
  BY DEF project
<1>3. answer = {} /\ reranked = FALSE
  BY <1>1 DEF RetrievalInv, Listed
<1>4. Listed'
  BY <1>1, <1>2, <1>3 DEF RetrievalInv, Listed, RetrievalTypeOK
<1>5. LookedUp'
  BY <1>1 DEF RetrievalInv, LookedUp
<1>6. pending = {} \/ nodes # {}
  BY <1>1, FS_EmptySet, Limits
<1>7. Accounted'
  BY <1>1, <1>2, <1>6, ReadableSame DEF RetrievalInv, Accounted
<1> QED BY <1>1, <1>3, <1>4, <1>5, <1>7, NoSlots DEF RetrievalInv
\* The reranker orders what was read, and slot defense cuts it.
LEMMA FuseRerankedKeeps ==
  ASSUME RetrievalInv, ProjectTyped', UNCHANGED project, FuseReranked
  PROVE  RetrievalInv'
<1>1. PICK S \in Best(Saturated, nodes) : \E o \in SetToSeqs(S) : answer' = Shown(SlotDefense(o))
  BY DEF FuseReranked, Shown
<1>2. PICK order \in SetToSeqs(S) : answer' = Shown(SlotDefense(order))
  BY <1>1
<1>3. /\ pc = "fuse" /\ pc' = "answered" /\ looked' = looked /\ candidates' = candidates
      /\ kinds' = kinds /\ pending' = pending /\ nodes' = nodes
      /\ bridge' = bridge /\ viewTask' = viewTask /\ reranked' = TRUE
  BY DEF FuseReranked
<1>4. disk' = disk /\ map' = map
  BY DEF project
<1>5. IsFiniteSet(nodes) /\ RetrievalTypeOK
  BY DEF RetrievalInv, Listed
<1>6. Saturated \in Nat \ {0}
  BY Limits DEF Saturated
<1>7. /\ S \subseteq nodes /\ IsFiniteSet(S) /\ (nodes # {} => S # {})
      /\ Cardinality(nodes) <= Saturated => S = nodes
  <2>1. S \in Cuts(Saturated, nodes)
    BY <1>6, BestCuts
  <2> QED BY <1>5, <2>1 DEF Cuts
<1>8. order \in Seq(S) /\ Range(order) = S /\ Len(order) = Cardinality(S)
  BY <1>7, ArrangementsList
<1> DEFINE r == SlotDefense(order)
<1>9. r \in Seq(S) /\ Len(r) <= MaxSymbols /\ Range(r) \subseteq S
  BY <1>8, DefendedShort DEF Grown
<1>10. S # {} => r # <<>>
  <2>1. S # {} => order # <<>>
    BY <1>8 DEF Range
  <2> QED BY <1>8, <2>1, DefendsSome
<1>11. /\ answer' = Shown(r)
  BY <1>2
<1> HIDE DEF r
<1>12. /\ answer' \subseteq S /\ IsFiniteSet(answer') /\ Cardinality(answer') <= MaxEvidence
       /\ Cardinality(answer') <= MaxSymbols /\ (S # {} => answer' # {})
  <2>1. /\ Shown(r) \subseteq Range(r) /\ IsFiniteSet(Shown(r)) /\ Cardinality(Shown(r)) <= MaxEvidence
        /\ Cardinality(Shown(r)) <= Len(r) /\ (r # <<>> => Shown(r) # {})
    BY <1>9, ShownSmall
  <2>2. Cardinality(Shown(r)) \in Nat /\ Len(r) \in Nat
    BY <1>9, <2>1, FS_CardinalityType
  <2>3. Cardinality(Shown(r)) <= MaxSymbols
    BY <1>9, <2>1, <2>2, Limits
  <2> QED BY <1>9, <1>10, <1>11, <2>1, <2>3
<1>13. Listed'
  <2>1. RetrievalTypeOK'
    BY <1>3, <1>4, <1>5, <1>7, <1>12 DEF RetrievalTypeOK
  <2> QED BY <1>3, <1>5, <2>1 DEF Listed
<1>14. LookedUp'
  BY <1>3 DEF RetrievalInv, LookedUp
<1>15. Accounted'
  BY <1>3, <1>4, <1>7, <1>12, ReadableSame DEF RetrievalInv, Accounted
<1>16. ViewKept'
  <2>1. SUFFICES ASSUME viewTask, MaxSymbols >= 2, MaxEvidence >= 2, Cardinality(nodes) <= Saturated
                 PROVE  /\ (\E e \in nodes : IsView(e)) => \E e \in answer' : IsView(e)
                        /\ (\E e \in nodes : IsQueryLogic(e)) => \E e \in answer' : IsQueryLogic(e)
    BY <1>3 DEF ViewKept, IsView, IsQueryLogic
  <2>2. Range(order) = nodes
    BY <1>7, <1>8, <2>1
  <2> QED BY <1>2, <1>8, <2>1, <2>2, DefendsBoth
<1>17. NoFileCrowdsOut'
  <2>1. SUFFICES ASSUME ~viewTask, Cardinality(nodes) <= Saturated, NEW f \in Files,
                        Cardinality({e \in answer' : NodeFile(e) = f /\ ~IsQueryLogic(e)}) > FileCap,
                        NEW e \in nodes \ answer'
                 PROVE  Cardinality({d \in answer' : NodeFile(d) = NodeFile(e)}) >= FileCap
    BY <1>3 DEF NoFileCrowdsOut, IsQueryLogic
  <2>2. Range(order) = nodes
    BY <1>7, <1>8, <2>1
  <2>3. e \in Range(order) \ Shown(SlotDefense(order))
    BY <1>2, <2>1, <2>2
  <2>4. Cardinality({d \in Shown(SlotDefense(order)) : NodeFile(d) = f /\ ~IsQueryLogic(d)}) > FileCap
    BY <1>2, <2>1
  <2>5. Cardinality({d \in Shown(SlotDefense(order)) : NodeFile(d) = NodeFile(e)}) >= FileCap
    BY <1>8, <2>1, <2>3, <2>4, DefendsFiles
  <2> QED BY <1>2, <2>5
<1> QED BY <1>13, <1>14, <1>15, <1>16, <1>17 DEF RetrievalInv, SlotsDefended

\* The local scores cut what was read.
LEMMA FuseLocallyKeeps ==
  ASSUME RetrievalInv, ProjectTyped', UNCHANGED project, FuseLocally
  PROVE  RetrievalInv'
<1>1. PICK S \in Best(MaxSymbols, nodes) : answer' \in Best(MaxEvidence, S)
  BY DEF FuseLocally
<1>2. /\ pc = "fuse" /\ pc' = "answered" /\ looked' = looked /\ candidates' = candidates
      /\ kinds' = kinds /\ pending' = pending /\ nodes' = nodes
      /\ bridge' = bridge /\ reranked' = reranked
  BY DEF FuseLocally
<1>3. disk' = disk /\ map' = map
  BY DEF project
<1>4. IsFiniteSet(nodes) /\ RetrievalTypeOK /\ reranked = FALSE
  BY <1>2 DEF RetrievalInv, Listed
<1>5. S \subseteq nodes /\ IsFiniteSet(S) /\ (nodes # {} => S # {}) /\ Cardinality(S) <= MaxSymbols
  <2>1. S \in Cuts(MaxSymbols, nodes)
    BY Limits, BestCuts
  <2> QED BY <1>4, <2>1 DEF Cuts
<1>6. /\ answer' \subseteq S /\ IsFiniteSet(answer') /\ (S # {} => answer' # {})
      /\ Cardinality(answer') <= MaxEvidence
  <2>1. answer' \in Cuts(MaxEvidence, S)
    BY <1>1, Limits, BestCuts
  <2> QED BY <1>5, <2>1 DEF Cuts
<1>7. Cardinality(answer') <= MaxSymbols
  <2>1. Cardinality(answer') <= Cardinality(S) /\ Cardinality(answer') \in Nat /\ Cardinality(S) \in Nat
    BY <1>5, <1>6, FS_Subset, FS_CardinalityType
  <2> QED BY <1>5, <2>1, Limits
<1>8. Listed'
  <2>1. RetrievalTypeOK'
    BY <1>2, <1>3, <1>4, <1>5, <1>6, <1>7 DEF RetrievalTypeOK
  <2> QED BY <1>2, <1>4, <2>1 DEF Listed
<1>9. LookedUp'
  BY <1>2 DEF RetrievalInv, LookedUp
<1>10. Accounted'
  BY <1>2, <1>3, <1>5, <1>6, ReadableSame DEF RetrievalInv, Accounted
<1> QED BY <1>2, <1>4, <1>8, <1>9, <1>10, NoSlots DEF RetrievalInv

\* A call of codebase_retrieve keeps the invariant.
LEMMA RetrievalKeeps ==
  ASSUME RetrievalInv, ProjectTyped, ProjectTyped', UNCHANGED project, Ask \/ RetrievalStep
  PROVE  RetrievalInv'
<1>1. UNCHANGED disk
  BY DEF project
<1>2. CASE Ask
  BY <1>1, <1>2, AskKeeps
<1>3. CASE Lookup
  BY <1>3, LookupKeeps
<1>4. CASE Expand \/ SkipExpand
  BY <1>4, ExpandKeeps
<1>5. CASE Merge
  BY <1>5, MergeKeeps
<1>6. CASE Ground
  BY <1>6, GroundKeeps
<1>7. CASE Grounded
  BY <1>7, GroundedKeeps
<1>8. CASE FuseReranked
  BY <1>8, FuseRerankedKeeps
<1>9. CASE FuseLocally
  BY <1>9, FuseLocallyKeeps
<1> QED BY <1>2, <1>3, <1>4, <1>5, <1>6, <1>7, <1>8, <1>9 DEF RetrievalStep

\* An empty answer follows from the invariant.
LEMMA EmptyAnswer ==
  ASSUME RetrievalInv
  PROVE  EmptyMeansNothing
<1> DEFINE matching == Matches(looked, LookupTerms(bridge))
<1>1. SUFFICES ASSUME pc = "answered", answer = {}, Cardinality(matching) <= LookupLimit,
                      NEW e \in matching
               PROVE  disk[FileOf(e)] = Gone \/ NodeFile(e) # FileOf(e)
  BY DEF EmptyMeansNothing
<1>2. candidates = matching
  <2>1. candidates \in Cuts(LookupLimit, matching)
    BY <1>1, Limits, BestCuts DEF RetrievalInv, LookedUp
  <2> HIDE DEF matching
  <2> QED BY <1>1, <2>1 DEF Cuts
<1>3. nodes = {} /\ pending = {}
  BY <1>1 DEF RetrievalInv, Accounted
<1>4. ~Readable(e) /\ FileOf(e) \in Files
  BY <1>1, <1>2, <1>3, CandidateFiles DEF RetrievalInv, Accounted
<1> QED BY <1>4 DEF Readable

-----------------------------------------------------------------------------
(* Ranks.                                                                  *)

\* The members of a set that an order, as a set of pairs, puts before x.
Under(S, O, x) == {y \in S : <<y, x>> \in O}

\* A strict order of a finite set in which any two members are comparable.
Orders(S, O) ==
  /\ \A x \in S : <<x, x>> \notin O
  /\ \A x, y \in S : x # y => <<x, y>> \in O \/ <<y, x>> \in O
  /\ \A x, y, z \in S : <<x, y>> \in O /\ <<y, z>> \in O => <<x, z>> \in O

\* The number of the members below grows along the order.
LEMMA RankGrows ==
  ASSUME NEW S, IsFiniteSet(S), NEW O, Orders(S, O), NEW x \in S, NEW y \in S, <<x, y>> \in O
  PROVE  Cardinality(Under(S, O, x)) < Cardinality(Under(S, O, y))
<1> DEFINE A == Under(S, O, x)
           B == Under(S, O, y)
<1>1. A \subseteq B /\ x \in B /\ x \notin A
  BY DEF Under, Orders
<1>2. IsFiniteSet(B)
  <2>1. B \subseteq S
    BY DEF Under
  <2> HIDE DEF B
  <2> QED BY <2>1, FS_Subset
<1> HIDE DEF A, B
<1>3. IsFiniteSet(A) /\ Cardinality(A) <= Cardinality(B) /\ (Cardinality(A) = Cardinality(B) => A = B)
  BY <1>1, <1>2, FS_Subset
<1>4. Cardinality(A) \in Nat /\ Cardinality(B) \in Nat
  BY <1>2, <1>3, FS_CardinalityType
<1>5. Cardinality(A) < Cardinality(B)
  BY <1>1, <1>3, <1>4
<1> QED BY <1>5 DEF A, B

\* Each number below the size of the set is the rank of a member.
LEMMA RankTaken ==
  ASSUME NEW S, IsFiniteSet(S), NEW O, Orders(S, O), NEW n \in 1 .. Cardinality(S)
  PROVE  \E x \in S : Cardinality(Under(S, O, x)) = n - 1
<1> DEFINE N == Cardinality(S)
           r == [x \in S |-> Cardinality(Under(S, O, x)) + 1]
<1>1. N \in Nat
  BY FS_CardinalityType
<1>2. ASSUME NEW x \in S
      PROVE  r[x] \in 1 .. N /\ r[x] = Cardinality(Under(S, O, x)) + 1
             /\ Cardinality(Under(S, O, x)) \in Nat
  <2> DEFINE A == Under(S, O, x)
  <2>1. A \subseteq S /\ A # S
    BY DEF Under, Orders
  <2>2. r[x] = Cardinality(A) + 1
    OBVIOUS
  <2> HIDE DEF A, r
  <2>3. IsFiniteSet(A) /\ Cardinality(A) <= N /\ Cardinality(A) # N
    BY <2>1, FS_Subset
  <2>4. Cardinality(A) \in Nat
    BY <2>3, FS_CardinalityType
  <2>5. r[x] \in 1 .. N /\ Cardinality(A) \in Nat
    <3> HIDE DEF N
    <3> QED BY <1>1, <2>2, <2>3, <2>4
  <2> QED BY <2>2, <2>5 DEF A
<1>3. ASSUME NEW x \in S, NEW y \in S, r[x] = r[y]
      PROVE  x = y
  <2>1. Cardinality(Under(S, O, x)) = Cardinality(Under(S, O, y))
        /\ Cardinality(Under(S, O, x)) \in Nat
    <3> HIDE DEF r
    <3> QED BY <1>2, <1>3
  <2>2. <<x, y>> \notin O /\ <<y, x>> \notin O
    BY <2>1, RankGrows
  <2> QED BY <2>2 DEF Orders
<1>4. r \in [S -> 1 .. N]
  <2>1. r = [x \in S |-> r[x]]
    OBVIOUS
  <2> HIDE DEF r
  <2> QED BY <1>2, <2>1
<1>5. r \in Injection(S, 1 .. N)
  <2> HIDE DEF r
  <2> QED BY <1>3, <1>4 DEF Injection, IsInjective
<1>6. IsFiniteSet(1 .. N) /\ Cardinality(1 .. N) = N
  BY <1>1, FS_Interval
<1>7. r \in Surjection(S, 1 .. N)
  <2> HIDE DEF r
  <2> QED BY <1>5, <1>6, FS_Injection
<1>8. PICK x \in S : r[x] = n
  <2> HIDE DEF r
  <2> QED BY <1>7 DEF Surjection
<1> HIDE DEF r
<1> QED BY <1>2, <1>8

-----------------------------------------------------------------------------
(* Lines.                                                                  *)

\* The lines of the project, in all versions up to those on disk.
Written == UNION {LinesOf(p[1], p[2]) : p \in {q \in Files \X (1 .. Gone) : q[2] <= disk[q[1]]}}

\* What is known of a line: it declares a symbol of the file, or its form is
\* another.
LEMMA LineParts ==
  ASSUME NEW f \in Files, NEW v \in 1 .. Gone
  PROVE  /\ IsFiniteSet(LinesOf(f, v))
         /\ \A l \in LinesOf(f, v) :
              /\ l.file = f /\ l.at \in Nat /\ l.form \in DOMAIN KindOfForm
              /\ l.form \in {"def", "ddl"} =>
                   \E s \in Symbols : Decl[s].file = f /\ At(s, v) # 0 /\ Decl[s].name = l.name
<1> DEFINE S == {t \in Symbols : Decl[t].file = f /\ At(t, v) # 0}
           R == {k \in DOMAIN Rest : Rest[k].file = f /\ v # Gone /\ RestLine[<<k, v>>] # 0}
           ls == [s \in S |-> LineOf(s, v)]
           lr == [n \in R |-> OtherLine(n, v)]
           A == {LineOf(s, v) : s \in S}
           B == {OtherLine(n, v) : n \in R}
<1>1. Gone \in Nat /\ v \in Versions \cup {Gone} /\ (v # Gone => v \in Versions)
  BY SymbolIndexAssumption DEF SymbolIndexAssumption, Gone, Versions
<1>2. LinesOf(f, v) = A \cup B
  BY <1>1 DEF LinesOf, Contents
<1>3. IsFiniteSet(S) /\ IsFiniteSet(R)
  <2>1. IsFiniteSet(Symbols)
    <3>1. Len(Decl) \in Nat /\ Symbols = 1 .. Len(Decl)
      BY SymbolIndexAssumption DEF SymbolIndexAssumption
    <3>2. IsFiniteSet(1 .. Len(Decl))
      BY <3>1, FS_Interval
    <3> QED BY <3>1, <3>2
  <2>2. IsFiniteSet(DOMAIN Rest)
    BY GrepAssumption DEF GrepAssumption
  <2>3. S \subseteq Symbols /\ R \subseteq DOMAIN Rest
    OBVIOUS
  <2> HIDE DEF S, R
  <2> QED BY <2>1, <2>2, <2>3, FS_Subset
<1>4. IsFiniteSet(A)
  <2>1. ls \in Surjection(S, A)
    BY DEF Surjection
  <2> HIDE DEF ls, S, A
  <2> QED BY <1>3, <2>1, FS_Surjection
<1>5. IsFiniteSet(B)
  <2>1. lr \in Surjection(R, B)
    BY DEF Surjection
  <2> HIDE DEF lr, R, B
  <2> QED BY <1>3, <2>1, FS_Surjection
<1>6. IsFiniteSet(LinesOf(f, v))
  <2> HIDE DEF A, B
  <2> QED BY <1>2, <1>4, <1>5, FS_Union
<1>7. ASSUME NEW s \in S
      PROVE  LET l == LineOf(s, v) IN
             /\ l.file = f /\ l.at \in Nat /\ l.form \in DOMAIN KindOfForm
             /\ \E t \in Symbols : Decl[t].file = f /\ At(t, v) # 0 /\ Decl[t].name = l.name
  <2>1. At(s, v) \in Nat
    BY <1>1, SymbolIndexAssumption DEF SymbolIndexAssumption, At
  <2>2. FormOf(s) \in {"def", "text", "ddl"}
    BY DEF FormOf
  <2> QED BY <2>1, <2>2 DEF LineOf, KindOfForm
<1>8. ASSUME NEW n \in R
      PROVE  LET l == OtherLine(n, v) IN
             l.file = f /\ l.at \in Nat /\ l.form \in DOMAIN KindOfForm \ {"def", "ddl"}
  <2>1. v \in Versions
    BY <1>1
  <2>2. RestLine[<<n, v>>] \in Nat /\ Rest[n].form \in DOMAIN KindOfForm \ {"def", "ddl"}
    BY <2>1, GrepAssumption DEF GrepAssumption
  <2> QED BY <2>2 DEF OtherLine
<1>9. ASSUME NEW l \in LinesOf(f, v)
      PROVE  /\ l.file = f /\ l.at \in Nat /\ l.form \in DOMAIN KindOfForm
             /\ l.form \in {"def", "ddl"} =>
                   \E s \in Symbols : Decl[s].file = f /\ At(s, v) # 0 /\ Decl[s].name = l.name
  <2>1. CASE l \in A
    BY <1>7, <2>1
  <2>2. CASE l \in B
    BY <1>8, <2>2
  <2> QED BY <1>2, <2>1, <2>2
<1> QED BY <1>6, <1>9

\* A deleted file has no lines, and those of a file are at different places.
LEMMA LinesDiffer ==
  ASSUME NEW f \in Files, NEW v \in 1 .. Gone, NEW k \in LinesOf(f, v), NEW l \in LinesOf(f, v),
         k.at = l.at
  PROVE  k = l
<1>1. Gone \in Nat /\ v \in Versions \cup {Gone}
  BY SymbolIndexAssumption DEF SymbolIndexAssumption, Gone, Versions
<1>2. v # Gone
  BY <1>1 DEF LinesOf, Contents, At
<1> QED BY <1>1, <1>2, LinesApart

\* What ripgrep prints of a file are lines of it, some if one is hit, and when a
\* word is searched for nothing but hits.
LEMMA PrintedLines ==
  ASSUME NEW f \in Files, NEW v \in 1 .. Gone, NEW p, NEW mode
  PROVE  /\ Printed(f, v, p, mode) \in Seq([line : LinesOf(f, v), hit : BOOLEAN])
         /\ (\E l \in LinesOf(f, v) : Hits(l, p, mode, request.caseless)) => Printed(f, v, p, mode) # <<>>
         /\ p.kind = "word" =>
              \A n \in 1 .. Len(Printed(f, v, p, mode)) :
                /\ Printed(f, v, p, mode)[n].hit
                /\ Hits(Printed(f, v, p, mode)[n].line, p, mode, request.caseless)
<1> DEFINE lines == LinesOf(f, v)
           hits == {l \in lines : Hits(l, p, mode, request.caseless)}
           after == {l \in lines \ hits : \E h \in hits : l.at - h.at \in 1 .. 2}
           wiring == p.kind = "wiring" /\ mode \in {"default", "structure"}
           printed == hits \cup (IF wiring THEN after ELSE {})
           Nth(n) == CHOOSE l \in printed : Cardinality({k \in printed : k.at < l.at}) = n - 1
           O == {q \in printed \X printed : q[1].at < q[2].at}
           N == Cardinality(printed)
           r == [n \in 1 .. N |-> [line |-> Nth(n), hit |-> Nth(n) \in hits]]
<1>1. Printed(f, v, p, mode) = r
  BY DEF Printed
<1>2. printed \subseteq lines /\ hits \subseteq printed
  OBVIOUS
<1>3. p.kind = "word" => printed = hits
  OBVIOUS
<1>4. \A l \in lines : l.at \in Nat
  BY LineParts
<1>5. IsFiniteSet(printed) /\ N \in Nat
  <2>1. IsFiniteSet(lines)
    BY LineParts
  <2> HIDE DEF printed, lines
  <2> QED BY <1>2, <2>1, FS_Subset, FS_CardinalityType
<1>6. Orders(printed, O)
  <2> HIDE DEF printed
  <2>1. \A k, l \in printed : k # l => k.at # l.at
    BY <1>2, LinesDiffer
  <2>2. \A k \in printed : k.at \in Nat
    BY <1>2, <1>4
  <2>3. \A k, l \in printed : <<k, l>> \in O <=> k.at < l.at
    OBVIOUS
  <2> HIDE DEF O
  <2>4. \A k \in printed : <<k, k>> \notin O
    BY <2>2, <2>3
  <2>5. \A k, l \in printed : k # l => <<k, l>> \in O \/ <<l, k>> \in O
    BY <2>1, <2>2, <2>3
  <2>6. \A j, k, l \in printed : <<j, k>> \in O /\ <<k, l>> \in O => <<j, l>> \in O
    BY <2>2, <2>3
  <2> QED BY <2>4, <2>5, <2>6 DEF Orders
<1>7. ASSUME NEW n \in 1 .. N
      PROVE  Nth(n) \in printed
  <2>1. \A l \in printed : Under(printed, O, l) = {k \in printed : k.at < l.at}
    BY DEF Under
  <2> HIDE DEF printed, O
  <2>2. PICK l \in printed : Cardinality(Under(printed, O, l)) = n - 1
    BY <1>5, <1>6, RankTaken
  <2> QED BY <2>1, <2>2
<1> HIDE DEF Nth
<1>8. /\ Len(r) = N /\ r \in Seq([line : lines, hit : BOOLEAN])
      /\ \A n \in 1 .. N : r[n].line = Nth(n) /\ r[n].hit = (Nth(n) \in hits)
  <2>1. \A n \in 1 .. N : [line |-> Nth(n), hit |-> Nth(n) \in hits] \in [line : lines, hit : BOOLEAN]
    <3>1. ASSUME NEW n \in 1 .. N
          PROVE  Nth(n) \in lines /\ (Nth(n) \in hits) \in BOOLEAN
      <4>1. Nth(n) \in lines
        <5> HIDE DEF printed, lines, hits
        <5> QED BY <1>2, <1>7
      <4>2. (Nth(n) \in hits) \in BOOLEAN
        OBVIOUS
      <4> QED BY <4>1, <4>2
    <3> HIDE DEF lines, hits, N
    <3> QED BY <3>1
  <2> HIDE DEF lines, hits, N
  <2> QED BY <1>5, <2>1
<1> HIDE DEF r
<1>9. (\E l \in lines : Hits(l, p, mode, request.caseless)) => r # <<>>
  <2>1. SUFFICES ASSUME hits # {}
                 PROVE  r # <<>>
    OBVIOUS
  <2> HIDE DEF hits, printed
  <2>2. N # 0
    BY <1>2, <1>5, <2>1, FS_EmptySet
  <2> HIDE DEF N
  <2> QED BY <1>5, <1>8, <2>2
<1>10. ASSUME p.kind = "word", NEW n \in 1 .. N
       PROVE  r[n].hit /\ Hits(r[n].line, p, mode, request.caseless)
  <2>1. Nth(n) \in hits
    <3> HIDE DEF hits, printed
    <3> QED BY <1>3, <1>7, <1>10
  <2> QED BY <1>8, <2>1
<1> HIDE DEF lines, hits, printed, N
<1> QED BY <1>1, <1>8, <1>9, <1>10 DEF lines

\* A sequence over a set is one over a larger set.
LEMMA SeqWider ==
  ASSUME NEW S, NEW T, S \subseteq T, NEW q \in Seq(S)
  PROVE  q \in Seq(T)
<1>1. q \in [1 .. Len(q) -> S] /\ Len(q) \in Nat
  OBVIOUS
<1>2. q \in [1 .. Len(q) -> T]
  BY <1>1
<1> QED BY <1>1, <1>2

\* What a run of ripgrep prints.
Prints == [line : Written, hit : BOOLEAN]

\* The place a search is made in has files of the project, finitely many.
LEMMA ScopeFiles ==
  ASSUME request \in Requests
  PROVE  Scope(request.path) \subseteq Files /\ IsFiniteSet(Scope(request.path))
<1>1. Scope(request.path) \subseteq Files
  BY GrepAssumption DEF GrepAssumption, Scope
<1>2. IsFiniteSet(Files)
  BY SymbolIndexAssumption DEF SymbolIndexAssumption
<1> QED BY <1>1, <1>2, FS_Subset

\* The lines of a file as it is now are written somewhere.
LEMMA NowWritten ==
  ASSUME ProjectTyped, NEW f \in Files, NEW v \in 1 .. disk[f]
  PROVE  LinesOf(f, v) \subseteq Written /\ v \in 1 .. Gone
<1>1. Gone \in Nat /\ disk[f] \in 1 .. Gone
  BY SymbolIndexAssumption DEF SymbolIndexAssumption, Gone, ProjectTyped
<1>2. <<f, v>> \in {q \in Files \X (1 .. Gone) : q[2] <= disk[q[1]]}
  BY <1>1
<1> QED BY <1>1, <1>2 DEF Written

\* A run prints lines of the files in scope; when it prints none, none is hit, and
\* when a word is searched for it prints hits only.
LEMMA OutputLines ==
  ASSUME ProjectTyped, request \in Requests, NEW p, NEW mode, NEW x \in Outputs(p, mode)
  PROVE  /\ x \in Seq(Prints)
         /\ x = <<>> => \A f \in Scope(request.path) :
              \A l \in LinesOf(f, disk[f]) : ~Hits(l, p, mode, request.caseless)
         /\ p.kind = "word" =>
              \A n \in 1 .. Len(x) : x[n].hit /\ Hits(x[n].line, p, mode, request.caseless)
<1>1. PICK order \in SetToSeqs(Scope(request.path)) :
        x = FlattenSeq([i \in DOMAIN order |-> Printed(order[i], disk[order[i]], p, mode)])
  BY DEF Outputs
<1> DEFINE q == [i \in DOMAIN order |-> Printed(order[i], disk[order[i]], p, mode)]
<1>2. /\ order \in Seq(Files) /\ Len(order) \in Nat /\ DOMAIN order = 1 .. Len(order)
      /\ \A f \in Scope(request.path) : \E i \in 1 .. Len(order) : order[i] = f
      /\ \A i \in 1 .. Len(order) : order[i] \in Files
  <2>1. order \in Seq(Scope(request.path)) /\ Range(order) = Scope(request.path)
    BY ScopeFiles, ArrangementsList
  <2>2. order \in Seq(Files)
    BY <2>1, ScopeFiles
  <2> QED BY <2>1, <2>2 DEF Range
<1>3. ASSUME NEW i \in 1 .. Len(order)
      PROVE  /\ q[i] = Printed(order[i], disk[order[i]], p, mode)
             /\ q[i] \in Seq(Prints)
             /\ (\E l \in LinesOf(order[i], disk[order[i]]) : Hits(l, p, mode, request.caseless)) => q[i] # <<>>
             /\ p.kind = "word" =>
                  \A n \in 1 .. Len(q[i]) : q[i][n].hit /\ Hits(q[i][n].line, p, mode, request.caseless)
  <2>1. order[i] \in Files /\ disk[order[i]] \in 1 .. disk[order[i]]
    BY <1>2, SymbolIndexAssumption DEF ProjectTyped, SymbolIndexAssumption, Gone
  <2>2. LinesOf(order[i], disk[order[i]]) \subseteq Written /\ disk[order[i]] \in 1 .. Gone
    BY <2>1, NowWritten
  <2>3. q[i] = Printed(order[i], disk[order[i]], p, mode)
    BY <1>2
  <2> HIDE DEF q
  <2>4. q[i] \in Seq([line : LinesOf(order[i], disk[order[i]]), hit : BOOLEAN])
    BY <2>1, <2>2, <2>3, PrintedLines
  <2>5. q[i] \in Seq(Prints)
    <3>1. [line : LinesOf(order[i], disk[order[i]]), hit : BOOLEAN] \subseteq Prints
      BY <2>2 DEF Prints
    <3> QED BY <2>4, <3>1, SeqWider
  <2>6. (\E l \in LinesOf(order[i], disk[order[i]]) : Hits(l, p, mode, request.caseless)) => q[i] # <<>>
    BY <2>1, <2>2, <2>3, PrintedLines
  <2>7. p.kind = "word" =>
          \A n \in 1 .. Len(q[i]) : q[i][n].hit /\ Hits(q[i][n].line, p, mode, request.caseless)
    BY <2>1, <2>2, <2>3, PrintedLines
  <2> QED BY <2>3, <2>5, <2>6, <2>7
<1>4. q \in Seq(Seq(Prints)) /\ Len(q) = Len(order)
  <2>1. q = [i \in 1 .. Len(order) |-> q[i]]
    BY <1>2
  <2> HIDE DEF q
  <2> QED BY <1>2, <1>3, <2>1
<1> HIDE DEF q
<1>5. PICK o : ComesFrom(FlattenSeq(q), o, q, Len(q))
  BY <1>4, FlattenOrigins
<1>6. x \in Seq(Prints) /\ x = FlattenSeq(q)
  BY <1>1, <1>4, FlattenOrigins DEF q
<1>7. ASSUME x = <<>>, NEW f \in Scope(request.path), NEW l \in LinesOf(f, disk[f])
      PROVE  ~Hits(l, p, mode, request.caseless)
  <2>1. PICK i \in 1 .. Len(q) : order[i] = f
    BY <1>2, <1>4
  <2>2. SUFFICES q[i] = <<>>
    BY <1>3, <1>4, <2>1
  <2>3. SUFFICES ASSUME q[i] # <<>>
                 PROVE  FALSE
    OBVIOUS
  <2>4. q[i] \in Seq(Prints)
    BY <1>3, <1>4
  <2>5. 1 \in 1 .. Len(q[i])
    BY <2>3, <2>4
  <2>6. PICK j \in 1 .. Len(x) : o[j] = <<i, 1>>
    BY <1>5, <1>6, <2>5 DEF ComesFrom
  <2> QED BY <1>7, <2>6
<1>8. ASSUME p.kind = "word", NEW n \in 1 .. Len(x)
      PROVE  x[n].hit /\ Hits(x[n].line, p, mode, request.caseless)
  <2>1. /\ o[n][1] \in 1 .. Len(q) /\ o[n][2] \in 1 .. Len(q[o[n][1]])
        /\ x[n] = q[o[n][1]][o[n][2]]
    BY <1>5, <1>6 DEF ComesFrom
  <2> QED BY <1>3, <1>4, <1>8, <2>1
<1> QED BY <1>6, <1>7, <1>8

-----------------------------------------------------------------------------
(* What the runs brought.                                                  *)

\* A run, and what the runs of a pattern bring.
Ran == [ok : BOOLEAN, lines : Seq(Prints)]
Brought == [raw : Prints, pattern : Range(request.patterns)]
RunsTyped == request \in Requests /\ runs \in [DOMAIN request.patterns -> Seq(Ran)]

\* The patterns of a call are a list that is not empty.
LEMMA PatternList ==
  ASSUME request \in Requests
  PROVE  /\ Len(request.patterns) \in Nat \ {0} /\ DOMAIN request.patterns = 1 .. Len(request.patterns)
         /\ 1 \in DOMAIN request.patterns
  <1>1. Len(request.patterns) \in Nat \ {0} /\ DOMAIN request.patterns = 1 .. Len(request.patterns)
    BY GrepAssumption DEF GrepAssumption
  <1> QED BY <1>1

\* The lines of a pattern are those of its runs, from the first on.
LEMMA LinesBrought ==
  ASSUME RunsTyped, NEW i \in DOMAIN request.patterns
  PROVE  /\ Lines(i) \in Seq(Brought)
         /\ Lines(i) = <<>> => \A k \in 1 .. Len(runs[i]) : runs[i][k].lines = <<>>
         /\ runs[i] # <<>> /\ runs[i][1].lines # <<>> =>
              Lines(i) # <<>> /\ Lines(i)[1] = [raw |-> runs[i][1].lines[1], pattern |-> request.patterns[i]]
<1> DEFINE q == [k \in DOMAIN runs[i] |-> runs[i][k].lines]
           printed == FlattenSeq(q)
           r == [j \in DOMAIN printed |-> [raw |-> printed[j], pattern |-> request.patterns[i]]]
<1>1. /\ runs[i] \in Seq(Ran) /\ Len(runs[i]) \in Nat /\ DOMAIN runs[i] = 1 .. Len(runs[i])
      /\ \A k \in 1 .. Len(runs[i]) : runs[i][k].lines \in Seq(Prints)
  <2>1. runs[i] \in Seq(Ran)
    BY DEF RunsTyped
  <2>2. Len(runs[i]) \in Nat /\ DOMAIN runs[i] = 1 .. Len(runs[i])
        /\ \A k \in 1 .. Len(runs[i]) : runs[i][k] \in Ran
    BY <2>1
  <2> QED BY <2>1, <2>2 DEF Ran
<1>2. q \in Seq(Seq(Prints)) /\ Len(q) = Len(runs[i]) /\ \A k \in 1 .. Len(q) : q[k] = runs[i][k].lines
  BY <1>1
<1> HIDE DEF q
<1>3. printed \in Seq(Prints) /\ \E o : ComesFrom(printed, o, q, Len(q))
  BY <1>2, FlattenOrigins
<1>4. Lines(i) = r
  BY DEF Lines, q
<1> HIDE DEF printed
<1>5. Len(printed) \in Nat /\ DOMAIN printed = 1 .. Len(printed)
      /\ \A j \in 1 .. Len(printed) : printed[j] \in Prints
  BY <1>3
<1>6. r \in Seq(Brought) /\ Len(r) = Len(printed)
      /\ \A j \in 1 .. Len(printed) : r[j] = [raw |-> printed[j], pattern |-> request.patterns[i]]
  <2>1. request.patterns[i] \in Range(request.patterns)
    BY DEF Range
  <2>2. \A j \in 1 .. Len(printed) :
          r[j] = [raw |-> printed[j], pattern |-> request.patterns[i]] /\ r[j] \in Brought
    BY <1>5, <2>1 DEF Brought
  <2>3. r = [j \in 1 .. Len(printed) |-> r[j]]
    BY <1>5
  <2> HIDE DEF r
  <2> QED BY <1>5, <2>2, <2>3
<1> HIDE DEF r
<1>7. ASSUME r = <<>>, NEW k \in 1 .. Len(runs[i])
      PROVE  runs[i][k].lines = <<>>
  <2>1. SUFFICES ASSUME q[k] # <<>>
                 PROVE  FALSE
    BY <1>2
  <2>2. 1 \in 1 .. Len(q[k]) /\ k \in 1 .. Len(q)
    BY <1>2, <2>1
  <2>3. PICK o : ComesFrom(printed, o, q, Len(q))
    BY <1>3
  <2>4. PICK j \in 1 .. Len(printed) : o[j] = <<k, 1>>
    BY <2>2, <2>3 DEF ComesFrom
  <2> QED BY <1>6, <1>7, <2>4
<1>8. ASSUME runs[i] # <<>>, runs[i][1].lines # <<>>
      PROVE  r # <<>> /\ r[1] = [raw |-> runs[i][1].lines[1], pattern |-> request.patterns[i]]
  <2>1. 1 \in 1 .. Len(q) /\ q # <<>> /\ q[1] = runs[i][1].lines
    BY <1>1, <1>2, <1>8
  <2>2. printed # <<>> /\ printed[1] = runs[i][1].lines[1]
    BY <1>2, <1>8, <2>1, FlattenFirst DEF printed
  <2>3. 1 \in 1 .. Len(printed)
    BY <1>3, <2>2
  <2> QED BY <1>6, <2>2, <2>3
<1> QED BY <1>4, <1>6, <1>7, <1>8

\* The lines that are gone through are those of the patterns, each once, from the
\* first on.
LEMMA RawBrought ==
  ASSUME RunsTyped
  PROVE  /\ Raw \in Seq(Brought)
         /\ Raw = <<>> => \A i \in DOMAIN request.patterns : Lines(i) = <<>>
         /\ Lines(1) # <<>> => Raw # <<>> /\ Raw[1] = Lines(1)[1]
<1> DEFINE q == [i \in DOMAIN runs |-> Lines(i)]
           all == FlattenSeq(q)
           P == {n \in DOMAIN all : \A k \in 1 .. n - 1 : all[k].raw # all[n].raw}
           N == Len(request.patterns)
<1>1. N \in Nat \ {0} /\ DOMAIN request.patterns = 1 .. N /\ DOMAIN runs = 1 .. N
  BY PatternList DEF RunsTyped
<1>2. \A i \in 1 .. N : Lines(i) \in Seq(Brought)
  BY <1>1, LinesBrought
<1>3. q \in Seq(Seq(Brought)) /\ Len(q) = N /\ \A i \in 1 .. N : q[i] = Lines(i)
  <2> HIDE DEF N
  <2> QED BY <1>1, <1>2
<1>4. Raw = OnlyAt(all, P)
  BY DEF Raw
<1> HIDE DEF q
<1>5. all \in Seq(Brought) /\ \E o : ComesFrom(all, o, q, Len(q))
  BY <1>3, FlattenOrigins
<1>6. q[1] # <<>> => all # <<>> /\ all[1] = q[1][1]
  <2>1. q # <<>>
    <3> HIDE DEF N
    <3> QED BY <1>1, <1>3
  <2> QED BY <1>3, <2>1, FlattenFirst
<1> HIDE DEF all
<1>7. all # <<>> => 1 \in P
  <2>1. SUFFICES ASSUME all # <<>>
                 PROVE  1 \in P
    OBVIOUS
  <2>2. 1 \in DOMAIN all
    BY <1>5, <2>1
  <2> QED BY <2>2
<1> HIDE DEF P
<1>8. /\ OnlyAt(all, P) \in Seq(Brought)
      /\ all # <<>> => OnlyAt(all, P) # <<>> /\ OnlyAt(all, P)[1] = all[1]
  BY <1>5, <1>7, OnlyAtSelects
<1>9. ASSUME Raw = <<>>, NEW i \in 1 .. N
      PROVE  Lines(i) = <<>>
  <2>1. all = <<>>
    BY <1>4, <1>8, <1>9
  <2>2. SUFFICES ASSUME q[i] # <<>>
                 PROVE  FALSE
    BY <1>3
  <2>3. 1 \in 1 .. Len(q[i]) /\ i \in 1 .. Len(q)
    BY <1>2, <1>3, <2>2
  <2>4. PICK o : ComesFrom(all, o, q, Len(q))
    BY <1>5
  <2>5. PICK j \in 1 .. Len(all) : o[j] = <<i, 1>>
    BY <2>3, <2>4 DEF ComesFrom
  <2> QED BY <2>1, <2>5
<1>10. 1 \in 1 .. N
  BY <1>1
<1> HIDE DEF N
<1> QED BY <1>1, <1>3, <1>4, <1>6, <1>8, <1>9, <1>10

-----------------------------------------------------------------------------
(* Matches.                                                                *)

\* A symbol was declared in a file, up to now.
Declared(file, symbol) ==
  \E n \in 1 .. disk[file], s \in Symbols :
    At(s, n) # 0 /\ Decl[s].file = file /\ Decl[s].name = symbol

\* A symbol that may be shown.
Leads(file, symbol, from) ==
  \/ from = "mount"
  \/ \E i \in DOMAIN request.patterns :
       request.patterns[i].kind = "word" /\ symbol \in request.patterns[i].words
  \/ Declared(file, symbol)

\* A match that leads somewhere, if it has a symbol.
GoodMatch(m) ==
  /\ DOMAIN m = {"file", "line", "kind", "from", "symbol"}
  /\ m.file \in Files /\ m.line \in Written /\ m.line.file = m.file
  /\ m.kind \in DOMAIN Priority
  /\ m.symbol = Nothing \/ Leads(m.file, m.symbol, m.from)

\* A line that names a symbol declares it.
LEMMA WrittenDeclares ==
  ASSUME ProjectTyped, NEW l \in Written
  PROVE  /\ l.file \in Files /\ l.form \in DOMAIN KindOfForm
         /\ SymbolIn(l) # Nothing => Declared(l.file, SymbolIn(l))
<1>1. PICK p \in {q \in Files \X (1 .. Gone) : q[2] <= disk[q[1]]} : l \in LinesOf(p[1], p[2])
  BY DEF Written
<1>2. p[1] \in Files /\ p[2] \in 1 .. Gone /\ p[2] <= disk[p[1]]
  BY <1>1
<1>3. p[2] \in 1 .. disk[p[1]]
  BY <1>2, SymbolIndexAssumption DEF ProjectTyped, SymbolIndexAssumption, Gone
<1>4. /\ l.file = p[1] /\ l.form \in DOMAIN KindOfForm
      /\ l.form \in {"def", "ddl"} =>
           \E s \in Symbols : Decl[s].file = p[1] /\ At(s, p[2]) # 0 /\ Decl[s].name = l.name
  BY <1>1, <1>2, LineParts
<1>5. ASSUME SymbolIn(l) # Nothing
      PROVE  Declared(l.file, SymbolIn(l))
  <2>1. l.form \in {"def", "ddl"} /\ SymbolIn(l) = l.name
    BY <1>5 DEF SymbolIn
  <2> QED BY <1>3, <1>4, <2>1 DEF Declared
<1> QED BY <1>2, <1>4, <1>5

\* A line that was brought makes a match that leads somewhere; a definition makes
\* one of that kind.
LEMMA MatchLeads ==
  ASSUME ProjectTyped, request \in Requests, NEW b \in Brought
  PROVE  /\ GoodMatch(Match(b.raw.line, b.pattern))
         /\ Match(b.raw.line, b.pattern).line = b.raw.line
         /\ b.raw.line.form = "def" => Match(b.raw.line, b.pattern).kind = "definition"
<1> DEFINE l == b.raw.line
           p == b.pattern
           kind == Kind(l, p)
           symbol == IF kind = "call_site" THEN CHOOSE w \in p.words : TRUE ELSE SymbolIn(l)
           m == [file |-> l.file, line |-> l, kind |-> kind, from |-> "match", symbol |-> symbol]
<1>1. Match(l, p) = m
  BY DEF Match
<1>2. l \in Written /\ p \in Range(request.patterns)
  BY DEF Brought, Prints
<1> HIDE DEF l, p
<1>3. /\ l.file \in Files /\ l.form \in DOMAIN KindOfForm
      /\ SymbolIn(l) # Nothing => Declared(l.file, SymbolIn(l))
  BY <1>2, WrittenDeclares
<1>4. /\ kind \in DOMAIN Priority /\ (kind = "call_site" => p.kind = "word")
      /\ l.form = "def" => kind = "definition"
  BY <1>3 DEF Kind, KindOfForm, Priority
<1> HIDE DEF kind
<1>5. symbol = Nothing \/ Leads(l.file, symbol, "match")
  <2>1. CASE kind = "call_site"
    <3>1. PICK i \in DOMAIN request.patterns : p = request.patterns[i]
      BY <1>2 DEF Range
    <3>2. p.kind = "word" /\ Cardinality(p.words) = 1
      BY <1>4, <2>1, <3>1, GrepAssumption DEF GrepAssumption
    <3>3. p.words # {}
      BY <3>2, FS_EmptySet
    <3>4. symbol \in p.words
      BY <2>1, <3>3
    <3> HIDE DEF symbol
    <3> QED BY <3>1, <3>2, <3>4 DEF Leads
  <2>2. CASE kind # "call_site"
    BY <1>3, <2>2 DEF Leads
  <2> QED BY <2>1, <2>2
<1> HIDE DEF symbol
<1>6. m.file = l.file /\ m.line = l /\ m.kind = kind /\ m.from = "match" /\ m.symbol = symbol
      /\ DOMAIN m = {"file", "line", "kind", "from", "symbol"}
  OBVIOUS
<1> HIDE DEF m
<1>7. GoodMatch(m)
  BY <1>2, <1>3, <1>4, <1>5, <1>6 DEF GoodMatch
<1> QED BY <1>1, <1>4, <1>6, <1>7 DEF l, p

\* The first declaration among some lines, when there is one, declares its symbol.
LEMMA FirstDeclares ==
  ASSUME ProjectTyped, NEW lines, lines \subseteq Written, FirstDeclared(lines) # {}
  PROVE  LET l == CHOOSE k \in FirstDeclared(lines) : TRUE
         IN  l \in lines /\ Declared(l.file, SymbolIn(l))
<1> DEFINE l == CHOOSE k \in FirstDeclared(lines) : TRUE
<1>1. l \in FirstDeclared(lines)
  OBVIOUS
<1> HIDE DEF l
<1>2. l \in lines /\ SymbolIn(l) # Nothing
  BY <1>1 DEF FirstDeclared
<1>3. Declared(l.file, SymbolIn(l))
  BY <1>2, WrittenDeclares
<1> QED BY <1>2, <1>3 DEF l

\* A match is enriched: it keeps its line and its kind, and leads somewhere.
Enriches(n, m) ==
  GoodMatch(n) /\ n.file = m.file /\ n.line = m.line /\ n.kind = m.kind

\* By the match below it.
LEMMA FilledLeads ==
  ASSUME ProjectTyped, NEW matches, \A d \in Range(matches) : GoodMatch(d), NEW m, GoodMatch(m)
  PROVE  Enriches(Filled(matches, m), m)
<1> DEFINE lines == Neighbours(matches, m)
           l == CHOOSE k \in FirstDeclared(lines) : TRUE
           n == [m EXCEPT !.symbol = SymbolIn(l)]
<1>1. lines \subseteq Written /\ \A k \in lines : k.file = m.file
  BY DEF Neighbours, GoodMatch
<1>2. CASE m.symbol = Nothing /\ m.kind = "decorator" /\ FirstDeclared(lines) # {}
  <2>1. Filled(matches, m) = n
    BY <1>2 DEF Filled
  <2> HIDE DEF lines
  <2>2. l \in lines /\ Declared(l.file, SymbolIn(l))
    BY <1>1, <1>2, FirstDeclares
  <2>3. Declared(m.file, SymbolIn(l))
    BY <1>1, <2>2
  <2> HIDE DEF l
  <2>4. n.file = m.file /\ n.line = m.line /\ n.kind = m.kind /\ n.symbol = SymbolIn(l)
        /\ DOMAIN n = DOMAIN m
    BY DEF GoodMatch
  <2> HIDE DEF n
  <2> QED BY <2>1, <2>3, <2>4 DEF Enriches, GoodMatch, Leads
<1>3. CASE ~(m.symbol = Nothing /\ m.kind = "decorator" /\ FirstDeclared(lines) # {})
  <2>1. Filled(matches, m) = m
    BY <1>3 DEF Filled
  <2> QED BY <2>1 DEF Enriches
<1> QED BY <1>2, <1>3

\* By the lines below it.
LEMMA DecoratedLeads ==
  ASSUME ProjectTyped, NEW m, GoodMatch(m)
  PROVE  Enriches(Decorated(m), m)
<1> DEFINE lines == {l \in LinesOf(m.file, disk[m.file]) : l.at - m.line.at \in 1 .. 4}
           first == CHOOSE k \in FirstDeclared(lines) : TRUE
           n == [m EXCEPT !.symbol = SymbolIn(first), !.from = "decorator"]
<1>1. lines \subseteq Written /\ \A k \in lines : k.file = m.file
  <2>1. m.file \in Files /\ disk[m.file] \in 1 .. disk[m.file]
    BY SymbolIndexAssumption DEF GoodMatch, ProjectTyped, SymbolIndexAssumption, Gone
  <2>2. LinesOf(m.file, disk[m.file]) \subseteq Written /\ disk[m.file] \in 1 .. Gone
    BY <2>1, NowWritten
  <2>3. \A k \in LinesOf(m.file, disk[m.file]) : k.file = m.file
    BY <2>1, <2>2, LineParts
  <2> QED BY <2>2, <2>3
<1>2. CASE m.symbol = Nothing /\ m.line.form = "handler" /\ FirstDeclared(lines) # {}
  <2>1. Decorated(m) = n
    BY <1>2 DEF Decorated
  <2> HIDE DEF lines
  <2>2. first \in lines /\ Declared(first.file, SymbolIn(first))
    BY <1>1, <1>2, FirstDeclares
  <2>3. Declared(m.file, SymbolIn(first))
    BY <1>1, <2>2
  <2> HIDE DEF first
  <2>4. n.file = m.file /\ n.line = m.line /\ n.kind = m.kind /\ n.symbol = SymbolIn(first)
        /\ DOMAIN n = DOMAIN m
    BY DEF GoodMatch
  <2> HIDE DEF n
  <2> QED BY <2>1, <2>3, <2>4 DEF Enriches, GoodMatch, Leads
<1>3. CASE ~(m.symbol = Nothing /\ m.line.form = "handler" /\ FirstDeclared(lines) # {})
  <2>1. Decorated(m) = m
    BY <1>3 DEF Decorated
  <2> QED BY <2>1 DEF Enriches
<1> QED BY <1>2, <1>3

\* By the function that mounts it.
LEMMA MountedLeads ==
  ASSUME ProjectTyped, NEW m, GoodMatch(m)
  PROVE  Enriches(Mounted(m), m)
<1>1. Mounted(m) = m \/ \E symbol : Mounted(m) = [m EXCEPT !.from = "mount", !.symbol = symbol]
  BY Zenon DEF Mounted
<1>2. CASE Mounted(m) = m
  BY <1>2 DEF Enriches
<1>3. ASSUME NEW symbol, Mounted(m) = [m EXCEPT !.from = "mount", !.symbol = symbol]
      PROVE  Enriches(Mounted(m), m)
  <2> DEFINE n == [m EXCEPT !.from = "mount", !.symbol = symbol]
  <2>1. n.file = m.file /\ n.line = m.line /\ n.kind = m.kind /\ n.from = "mount"
        /\ DOMAIN n = DOMAIN m
    BY DEF GoodMatch
  <2>2. Mounted(m) = n
    BY <1>3
  <2> HIDE DEF n
  <2> QED BY <2>1, <2>2 DEF Enriches, GoodMatch, Leads
<1> QED BY <1>1, <1>2, <1>3

-----------------------------------------------------------------------------
(* The list of matches.                                                    *)

\* x is a sequence.
Lists(x) == x \in Seq(Range(x))

\* A sequence over some set is one over its members.
LEMMA ListsIt ==
  ASSUME NEW T, NEW x \in Seq(T)
  PROVE  Lists(x) /\ Range(x) \subseteq T /\ Range(x) = {x[n] : n \in 1 .. Len(x)}
<1>1. Len(x) \in Nat /\ DOMAIN x = 1 .. Len(x) /\ \A n \in 1 .. Len(x) : x[n] \in T
  OBVIOUS
<1>2. Range(x) = {x[n] : n \in 1 .. Len(x)}
  BY <1>1 DEF Range
<1>3. x = [n \in 1 .. Len(x) |-> x[n]] /\ \A n \in 1 .. Len(x) : x[n] \in Range(x)
  BY <1>1, <1>2
<1>4. x \in Seq(Range(x))
  BY <1>1, <1>3
<1> QED BY <1>1, <1>2, <1>4 DEF Lists

\* A sequence that is given place by place.
LEMMA ListMade ==
  ASSUME NEW n \in Nat, NEW x, x = [i \in 1 .. n |-> x[i]]
  PROVE  Lists(x) /\ Len(x) = n /\ Range(x) = {x[i] : i \in 1 .. n}
<1>1. \A i \in 1 .. n : x[i] \in {x[k] : k \in 1 .. n}
  OBVIOUS
<1>2. x \in Seq({x[k] : k \in 1 .. n}) /\ Len(x) = n
  BY <1>1
<1> QED BY <1>2, ListsIt

\* What is cut keeps its beginning.
LEMMA CutTakes ==
  ASSUME NEW T, NEW s \in Seq(T), NEW n \in Nat \ {0}
  PROVE  /\ Cut(n, s) \in Seq(T) /\ Len(Cut(n, s)) <= Len(s) /\ Len(Cut(n, s)) <= n
         /\ \A i \in 1 .. Len(Cut(n, s)) : Cut(n, s)[i] = s[i]
         /\ Len(Cut(n, s)) = n \/ Len(Cut(n, s)) = Len(s)
<1> DEFINE k == Min({n, Len(s)})
<1>1. Len(s) \in Nat
  OBVIOUS
<1>2. k \in Nat /\ k <= Len(s) /\ k <= n /\ (k = n \/ k = Len(s))
  <2>1. \E x \in {n, Len(s)} : \A y \in {n, Len(s)} : x <= y
    BY <1>1
  <2>2. k \in {n, Len(s)} /\ \A y \in {n, Len(s)} : k <= y
    BY <2>1 DEF Min
  <2> HIDE DEF k
  <2> QED BY <1>1, <2>2
<1>3. Cut(n, s) = SubSeq(s, 1, k)
  BY DEF Cut
<1> HIDE DEF k
<1>4. /\ SubSeq(s, 1, k) \in Seq(T) /\ Len(SubSeq(s, 1, k)) = k
      /\ \A i \in 1 .. k : SubSeq(s, 1, k)[i] = s[i]
  BY <1>1, <1>2
<1> QED BY <1>2, <1>3, <1>4

\* Hits are parsed into matches that lead somewhere, the first of them first.
LEMMA ParsedLeads ==
  ASSUME ProjectTyped, request \in Requests, NEW raw \in Seq(Brought)
  PROVE  /\ Lists(Parsed(raw)) /\ Len(Parsed(raw)) <= Len(raw)
         /\ \A m \in Range(Parsed(raw)) : GoodMatch(m)
         /\ raw # <<>> /\ raw[1].raw.hit /\ request.path \notin Files =>
              Match(raw[1].raw.line, raw[1].pattern) \in Range(Parsed(raw))
<1> DEFINE S == {r \in Range(raw) : r.raw.hit /\ request.path \notin Files}
           hits == Only(raw, S)
           x == [i \in DOMAIN hits |-> Match(hits[i].raw.line, hits[i].pattern)]
<1>1. Parsed(raw) = x
  BY DEF Parsed
<1>2. hits \in Seq(Brought) /\ Len(hits) <= Len(raw)
  <2> HIDE DEF S
  <2> QED BY OnlySelects
<1>3. ASSUME raw # <<>>, raw[1].raw.hit, request.path \notin Files
      PROVE  hits # <<>> /\ hits[1] = raw[1]
  <2>1. raw[1] \in S
    BY <1>3 DEF Range
  <2> HIDE DEF S
  <2> QED BY <1>3, <2>1, OnlyFirst
<1> HIDE DEF hits
<1>4. Len(hits) \in Nat /\ DOMAIN hits = 1 .. Len(hits) /\ \A i \in 1 .. Len(hits) : hits[i] \in Brought
  BY <1>2
<1>5. \A i \in 1 .. Len(hits) : x[i] = Match(hits[i].raw.line, hits[i].pattern) /\ GoodMatch(x[i])
  BY <1>4, MatchLeads
<1>6. x = [i \in 1 .. Len(hits) |-> x[i]]
  BY <1>4
<1> HIDE DEF x
<1>7. Lists(x) /\ Len(x) = Len(hits) /\ Range(x) = {x[i] : i \in 1 .. Len(hits)}
  BY <1>4, <1>6, ListMade
<1>8. ASSUME raw # <<>>, raw[1].raw.hit, request.path \notin Files
      PROVE  Match(raw[1].raw.line, raw[1].pattern) \in Range(x)
  <2>1. 1 \in 1 .. Len(hits)
    BY <1>2, <1>3, <1>8
  <2>2. x[1] = Match(raw[1].raw.line, raw[1].pattern)
    BY <1>3, <1>5, <1>8, <2>1
  <2> QED BY <1>7, <2>1, <2>2
<1> QED BY <1>1, <1>2, <1>5, <1>7, <1>8

\* Files have places in the order of ranking.
LEMMA PlaceNumber ==
  ASSUME NEW f \in Files
  PROVE  Place(f) \in Nat
<1> DEFINE N == Cardinality(Files)
<1>1. IsFiniteSet(Files) /\ N \in Nat
  BY SymbolIndexAssumption, FS_CardinalityType DEF SymbolIndexAssumption
<1>2. FileOrder \in [1 .. N -> Files] /\ IsInjective(FileOrder)
  <2>1. ExistsBijection(1 .. N, Files)
    <3>1. PICK n \in Nat : ExistsBijection(1 .. n, Files)
      BY <1>1, FS_NatBijection
    <3>2. N = n
      BY <3>1, FS_CountingElements
    <3> QED BY <3>1, <3>2
  <2>2. PICK g : g \in Bijection(1 .. N, Files)
    BY <2>1 DEF ExistsBijection
  <2>3. g \in [1 .. N -> Files] /\ IsInjective(g)
    BY <2>2 DEF Bijection, Injection
  <2> HIDE DEF N
  <2>4. FileOrder = CHOOSE h \in [1 .. N -> Files] : IsInjective(h)
    BY DEF FileOrder, SetToSeq, N
  <2> QED BY <2>3, <2>4
<1> HIDE DEF N
<1>3. FileOrder \in Injection(1 .. N, Files)
  BY <1>2 DEF Injection
<1>4. IsFiniteSet(1 .. N) /\ Cardinality(1 .. N) = N
  BY <1>1, FS_Interval
<1>5. FileOrder \in Surjection(1 .. N, Files)
  BY <1>1, <1>3, <1>4, FS_Injection DEF N
<1>6. PICK i \in 1 .. N : FileOrder[i] = f
  BY <1>5 DEF Surjection
<1>7. DOMAIN FileOrder = 1 .. N
  BY <1>2
<1>8. Place(f) \in 1 .. N
  BY <1>6, <1>7 DEF Place
<1> QED BY <1>1, <1>8

\* Matches are compared by two numbers.
LEMMA BeforeNumbers ==
  ASSUME NEW a, NEW b, NEW c, GoodMatch(a), GoodMatch(b), GoodMatch(c)
  PROVE  /\ ~Before(a, a)
         /\ ~(Before(a, b) /\ Before(b, a))
         /\ Before(a, b) /\ Before(b, c) => Before(a, c)
         /\ ~Before(b, a) /\ ~Before(c, b) => ~Before(c, a)
         /\ a.kind = "definition" /\ ~Before(a, b) => b.kind = "definition"
<1>1. /\ Priority[a.kind] \in Nat /\ Priority[b.kind] \in Nat /\ Priority[c.kind] \in Nat
      /\ Priority["definition"] = 0
      /\ Priority[b.kind] = 0 => b.kind = "definition"
  BY DEF GoodMatch, Priority
<1>2. Place(a.file) \in Nat /\ Place(b.file) \in Nat /\ Place(c.file) \in Nat
  BY PlaceNumber DEF GoodMatch
<1>3. /\ ~Before(a, a)
      /\ ~(Before(a, b) /\ Before(b, a))
      /\ Before(a, b) /\ Before(b, c) => Before(a, c)
      /\ ~Before(b, a) /\ ~Before(c, b) => ~Before(c, a)
  BY <1>1, <1>2 DEF Before
<1>4. a.kind = "definition" /\ ~Before(a, b) => b.kind = "definition"
  BY <1>1, <1>2 DEF Before
<1> QED BY <1>3, <1>4

\* The order of the places of a list of matches: the matches are compared, and equal
\* ones stay as they are.
Sorting(kept) ==
  {q \in (1 .. Len(kept)) \X (1 .. Len(kept)) :
     \/ Before(kept[q[1]], kept[q[2]])
     \/ ~Before(kept[q[2]], kept[q[1]]) /\ q[1] < q[2]}

\* It is one.
LEMMA SortingOrders ==
  ASSUME NEW kept, Lists(kept), \A m \in Range(kept) : GoodMatch(m)
  PROVE  Orders(1 .. Len(kept), Sorting(kept))
<1> DEFINE D == 1 .. Len(kept)
           O == Sorting(kept)
<1>1. D \subseteq Nat /\ \A i \in D : GoodMatch(kept[i])
  <2>1. kept \in Seq(Range(kept))
    BY DEF Lists
  <2>2. DOMAIN kept = 1 .. Len(kept) /\ Len(kept) \in Nat
    BY <2>1
  <2> QED BY <2>2 DEF Range
<1>2. \A i, j \in D : <<i, j>> \in O <=> \/ Before(kept[i], kept[j])
                                         \/ ~Before(kept[j], kept[i]) /\ i < j
  BY DEF Sorting
<1> HIDE DEF D, O
<1>3. ASSUME NEW i \in D
      PROVE  <<i, i>> \notin O
  <2>1. ~Before(kept[i], kept[i])
    BY <1>1, BeforeNumbers
  <2>2. ~(i < i)
    BY <1>1
  <2> QED BY <1>2, <2>1, <2>2
<1>4. ASSUME NEW i \in D, NEW j \in D, i # j
      PROVE  <<i, j>> \in O \/ <<j, i>> \in O
  BY <1>1, <1>2, <1>4
<1>5. ASSUME NEW i \in D, NEW j \in D, NEW k \in D, <<i, j>> \in O, <<j, k>> \in O
      PROVE  <<i, k>> \in O
  <2>1. /\ Before(kept[i], kept[j]) \/ (~Before(kept[j], kept[i]) /\ i < j)
        /\ Before(kept[j], kept[k]) \/ (~Before(kept[k], kept[j]) /\ j < k)
    BY <1>2, <1>5
  <2>2. GoodMatch(kept[i]) /\ GoodMatch(kept[j]) /\ GoodMatch(kept[k])
    BY <1>1
  <2>3. ~Before(kept[j], kept[i]) /\ ~Before(kept[k], kept[j])
    BY <2>1, <2>2, BeforeNumbers
  <2>4. ~Before(kept[k], kept[i])
    BY <2>2, <2>3, BeforeNumbers
  <2>5. SUFFICES ASSUME ~Before(kept[i], kept[k])
                 PROVE  i < k
    BY <1>2, <2>4
  <2>6. ~Before(kept[i], kept[j])
    BY <2>2, <2>3, <2>5, BeforeNumbers
  <2>7. ~Before(kept[j], kept[k])
    BY <2>2, <2>3, <2>5, BeforeNumbers
  <2> QED BY <1>1, <2>1, <2>6, <2>7
<1> QED BY <1>3, <1>4, <1>5 DEF Orders, D, O

\* Ranking reorders what is kept: each place is that of one match, and a match has no
\* other but definitions before it when it is one.
LEMMA RankedLeads ==
  ASSUME NEW matches, Lists(matches), \A m \in Range(matches) : GoodMatch(m)
  PROVE  /\ Lists(Ranked(matches)) /\ Len(Ranked(matches)) <= Len(matches)
         /\ Range(Ranked(matches)) \subseteq Range(matches)
         /\ \A m \in Range(matches) : m.kind = "definition" =>
              \E n \in 1 .. Len(Ranked(matches)) :
                /\ Ranked(matches)[n] = m
                /\ \A k \in 1 .. n - 1 : Ranked(matches)[k].kind = "definition"
<1> DEFINE S == {m \in Range(matches) : ~Needless(matches, m)}
           kept == Only(matches, S)
           N == Len(kept)
           D == 1 .. N
           O == Sorting(kept)
           Ahead(i) == {j \in DOMAIN kept :
                          Before(kept[j], kept[i]) \/ (~Before(kept[i], kept[j]) /\ j < i)}
           I(n) == CHOOSE i \in DOMAIN kept : Cardinality(Ahead(i)) = n - 1
           x == [n \in DOMAIN kept |-> kept[I(n)]]
<1>1. Ranked(matches) = x
  BY DEF Ranked
<1>2. /\ kept \in Seq(Range(matches)) /\ Len(kept) <= Len(matches)
      /\ ToSet(kept) = ToSet(matches) \cap S
  <2>1. matches \in Seq(Range(matches))
    BY DEF Lists
  <2> HIDE DEF S
  <2> QED BY <2>1, OnlySelects
<1>3. Range(matches) = ToSet(matches)
  <2>1. matches \in Seq(Range(matches))
    BY DEF Lists
  <2>2. DOMAIN matches = 1 .. Len(matches)
    BY <2>1
  <2> QED BY <2>2 DEF Range, ToSet
<1>4. \A m \in Range(matches) : m.kind = "definition" => \E i \in D : kept[i] = m
  <2>1. ASSUME NEW m \in Range(matches), m.kind = "definition"
        PROVE  m \in ToSet(kept)
    BY <1>2, <1>3, <2>1 DEF Needless
  <2> HIDE DEF kept
  <2> QED BY <2>1 DEF ToSet
<1> HIDE DEF kept
<1>5. N \in Nat /\ DOMAIN kept = D /\ \A i \in D : kept[i] \in Range(matches) /\ GoodMatch(kept[i])
  <2>1. N \in Nat /\ DOMAIN kept = D /\ \A i \in D : kept[i] \in Range(matches)
    BY <1>2
  <2> QED BY <2>1
<1>6. Orders(D, O)
  <2>1. Lists(kept) /\ Range(kept) \subseteq Range(matches)
    BY <1>2, ListsIt
  <2> QED BY <2>1, SortingOrders
<1>7. ASSUME NEW i \in D
      PROVE  Ahead(i) = Under(D, O, i)
  <2>1. ASSUME NEW j \in D
        PROVE  j \in Ahead(i) <=> <<j, i>> \in O
    <3>1. <<j, i>> \in O <=> Before(kept[j], kept[i]) \/ (~Before(kept[i], kept[j]) /\ j < i)
      BY DEF Sorting
    <3> HIDE DEF O
    <3> QED BY <1>5, <3>1
  <2>2. Ahead(i) \subseteq D
    BY <1>5
  <2> HIDE DEF Ahead, D, O
  <2> QED BY <2>1, <2>2 DEF Under
<1> DEFINE rank(i) == Cardinality(Under(D, O, i))
<1>8. IsFiniteSet(D) /\ Cardinality(D) = N
  BY <1>5, FS_Interval
<1>9. ASSUME NEW n \in D
      PROVE  I(n) \in D /\ rank(I(n)) = n - 1
  <2> HIDE DEF Ahead, O
  <2>1. n \in 1 .. Cardinality(D)
    BY <1>8
  <2> HIDE DEF D
  <2>2. PICK i \in D : Cardinality(Under(D, O, i)) = n - 1
    BY <1>6, <1>8, <2>1, RankTaken
  <2>3. Cardinality(Ahead(i)) = n - 1
    BY <1>7, <2>2
  <2>4. I(n) \in D /\ Cardinality(Ahead(I(n))) = n - 1
    BY <1>5, <2>3
  <2> HIDE DEF I
  <2> QED BY <1>7, <2>4
<1> HIDE DEF I, Ahead
<1>10. \A n \in D : x[n] = kept[I(n)] /\ x[n] \in Range(matches)
  BY <1>5, <1>9
<1>11. Lists(x) /\ Len(x) = N /\ Range(x) = {x[n] : n \in D}
  <2>1. x = [n \in 1 .. N |-> x[n]]
    BY <1>5
  <2> HIDE DEF x, N
  <2> QED BY <1>5, <2>1, ListMade
<1> HIDE DEF x
<1>12. ASSUME NEW m \in Range(matches), m.kind = "definition"
       PROVE  \E n \in D : /\ x[n] = m
                           /\ \A k \in 1 .. n - 1 : x[k].kind = "definition"
  <2> HIDE DEF O
  <2>1. PICK i \in D : kept[i] = m
    BY <1>4, <1>12
  <2> DEFINE n == rank(i) + 1
  <2>2. rank(i) \in Nat /\ rank(i) < N
    <3> DEFINE A == Under(D, O, i)
    <3>1. A \subseteq D /\ A # D
      BY <1>6 DEF Under, Orders
    <3> HIDE DEF A, D
    <3>2. IsFiniteSet(A) /\ Cardinality(A) <= N /\ Cardinality(A) # N
      BY <1>8, <3>1, FS_Subset
    <3>3. Cardinality(A) \in Nat
      BY <3>2, FS_CardinalityType
    <3> HIDE DEF N
    <3> QED BY <1>5, <3>2, <3>3 DEF A
  <2>3. n \in D /\ n - 1 = rank(i)
    <3> HIDE DEF rank, N
    <3> QED BY <1>5, <2>2
  <2>4. \A j \in D : rank(j) \in Nat
    <3>1. ASSUME NEW j \in D
          PROVE  rank(j) \in Nat
      <4>1. Under(D, O, j) \subseteq D
        BY DEF Under
      <4> HIDE DEF D
      <4> QED BY <1>8, <4>1, FS_Subset, FS_CardinalityType
    <3> QED BY <3>1
  <2>5. \A j, k \in D : <<j, k>> \in O => rank(j) < rank(k)
    <3> HIDE DEF D
    <3> QED BY <1>6, <1>8, RankGrows
  <2> HIDE DEF rank
  <2>6. I(n) = i
    <3>1. I(n) \in D /\ rank(I(n)) = rank(i)
      BY <1>9, <2>3
    <3>2. <<I(n), i>> \notin O /\ <<i, I(n)>> \notin O
      BY <2>4, <2>5, <3>1
    <3> QED BY <1>6, <3>1, <3>2 DEF Orders
  <2>7. ASSUME NEW k \in 1 .. n - 1
        PROVE  x[k].kind = "definition"
    <3>1. k \in D /\ k - 1 < n - 1
      <4> HIDE DEF n, N
      <4> QED BY <1>5, <2>3, <2>7
    <3> DEFINE j == I(k)
    <3>2. j \in D /\ rank(j) = k - 1
      BY <1>9, <3>1
    <3>3. rank(j) < rank(i)
      <4> HIDE DEF n, j
      <4> QED BY <2>3, <3>1, <3>2
    <3> HIDE DEF j
    <3>4. <<i, j>> \notin O
      BY <2>4, <2>5, <3>2, <3>3
    <3>5. ~Before(kept[i], kept[j]) \/ i = j
      <4>1. Before(kept[i], kept[j]) => <<i, j>> \in O
        BY <3>2 DEF Sorting, O
      <4> QED BY <3>4, <4>1
    <3>6. i # j
      BY <2>4, <3>2, <3>3
    <3>7. kept[j].kind = "definition"
      BY <1>5, <1>12, <2>1, <3>2, <3>5, <3>6, BeforeNumbers
    <3> QED BY <1>10, <3>1, <3>7 DEF j
  <2> HIDE DEF n
  <2> QED BY <1>10, <2>1, <2>3, <2>6, <2>7
<1> QED BY <1>1, <1>2, <1>10, <1>11, <1>12

\* Enriching keeps what ranking gives.
LEMMA EnrichedLeads ==
  ASSUME ProjectTyped, NEW matches, Lists(matches), \A m \in Range(matches) : GoodMatch(m)
  PROVE  /\ Lists(Enriched(matches)) /\ Len(Enriched(matches)) <= Len(matches)
         /\ \A m \in Range(Enriched(matches)) : GoodMatch(m)
         /\ \A m \in Range(matches) : m.kind = "definition" =>
              \E n \in 1 .. Len(Enriched(matches)) :
                /\ Enriched(matches)[n].line = m.line
                /\ \A k \in 1 .. n - 1 : Enriched(matches)[k].kind = "definition"
<1> DEFINE ranked == Ranked(matches)
           N == Len(ranked)
           E(m) == Mounted(Decorated(Filled(ranked, m)))
           x == [i \in DOMAIN ranked |-> E(ranked[i])]
<1>1. Enriched(matches) = x
  BY DEF Enriched
<1>2. /\ Lists(ranked) /\ N <= Len(matches)
      /\ Range(ranked) \subseteq Range(matches)
      /\ \A m \in Range(matches) : m.kind = "definition" =>
           \E n \in 1 .. N : ranked[n] = m /\ \A k \in 1 .. n - 1 : ranked[k].kind = "definition"
  BY RankedLeads
<1>3. N \in Nat /\ DOMAIN ranked = 1 .. N
      /\ \A i \in 1 .. N : ranked[i] \in Range(ranked) /\ GoodMatch(ranked[i])
  <2> HIDE DEF ranked
  <2>1. ranked \in Seq(Range(ranked))
    BY <1>2 DEF Lists
  <2>2. N \in Nat /\ DOMAIN ranked = 1 .. N
    BY <2>1
  <2> QED BY <1>2, <2>2 DEF Range
<1> HIDE DEF ranked
<1>4. ASSUME NEW m, GoodMatch(m)
      PROVE  Enriches(E(m), m)
  <2>1. Enriches(Filled(ranked, m), m)
    BY <1>2, <1>4, FilledLeads
  <2>2. Enriches(Decorated(Filled(ranked, m)), Filled(ranked, m))
    BY <2>1, DecoratedLeads DEF Enriches
  <2>3. Enriches(E(m), Decorated(Filled(ranked, m)))
    BY <2>2, MountedLeads DEF Enriches
  <2> HIDE DEF E
  <2> QED BY <2>1, <2>2, <2>3 DEF Enriches
<1> HIDE DEF E
<1>5. \A i \in 1 .. N : x[i] = E(ranked[i]) /\ Enriches(x[i], ranked[i])
  BY <1>3, <1>4
<1>6. x = [i \in 1 .. N |-> x[i]]
  BY <1>3
<1> HIDE DEF x, N
<1>7. Lists(x) /\ Len(x) = N /\ Range(x) = {x[i] : i \in 1 .. N}
  BY <1>3, <1>6, ListMade
<1>8. \A m \in Range(x) : GoodMatch(m)
  BY <1>5, <1>7 DEF Enriches
<1>9. ASSUME NEW m \in Range(matches), m.kind = "definition"
      PROVE  \E n \in 1 .. N : /\ x[n].line = m.line
                               /\ \A k \in 1 .. n - 1 : x[k].kind = "definition"
  <2>1. PICK n \in 1 .. N : ranked[n] = m /\ \A k \in 1 .. n - 1 : ranked[k].kind = "definition"
    BY <1>2, <1>9
  <2>2. \A k \in 1 .. n - 1 : k \in 1 .. N
    BY <1>3
  <2> QED BY <1>5, <2>1, <2>2 DEF Enriches
<1> QED BY <1>1, <1>2, <1>7, <1>8, <1>9

-----------------------------------------------------------------------------
(* References and views.                                                   *)

\* The functions of one name in one file have a last.
LEMMA CallerFound ==
  ASSUME NEW m \in Indexes, NEW e \in CodeEntries(m)
  PROVE  Caller(m, e) \in CodeEntries(m)
<1> DEFINE C == {c \in CodeEntries(m) : FileOf(c) = FileOf(e) /\ NameOf(c) = NameOf(e)}
           N == Len(Decl)
           S == {s \in 0 .. N : \E c \in C : c[1] = s}
           P(c) == /\ FileOf(c) = FileOf(e) /\ NameOf(c) = NameOf(e)
                   /\ \A d \in CodeEntries(m) :
                        FileOf(d) = FileOf(e) /\ NameOf(d) = NameOf(e) => ~Earlier(c, d)
<1>1. N \in Nat /\ Symbols = 1 .. N
  BY SymbolIndexAssumption DEF SymbolIndexAssumption
<1>2. ASSUME NEW c \in CodeEntries(m)
      PROVE  c[1] \in 1 .. N /\ c[2] = At(c[1], m.code[FileOf(c)]) /\ FileOf(c) \in Files
  <2>1. PICK s \in {t \in Symbols : Decl[t].code} : c = <<s, At(s, m.code[Decl[s].file])>>
    BY DEF CodeEntries, Found
  <2>2. s \in 1 .. N /\ c[1] = s
    BY <1>1, <2>1
  <2> QED BY <2>1, <2>2, SymbolIndexAssumption DEF FileOf, SymbolIndexAssumption
<1>3. S \in SUBSET (0 .. N) /\ S # {}
  <2>1. e[1] \in S
    BY <1>1, <1>2
  <2> QED BY <2>1
<1>4. PICK s \in S : \A t \in S : t <= s
  <2> HIDE DEF S, N
  <2> QED BY <1>1, <1>3, LastNumber
<1>5. PICK c \in C : c[1] = s
  BY <1>4
<1>6. ASSUME NEW d \in CodeEntries(m), FileOf(d) = FileOf(e), NameOf(d) = NameOf(e)
      PROVE  ~Earlier(c, d)
  <2>1. d[1] \in S /\ d[1] \in Nat /\ c[1] \in Nat
    BY <1>1, <1>2, <1>5, <1>6
  <2>2. d[1] <= c[1]
    <3> HIDE DEF S
    <3> QED BY <1>4, <1>5, <2>1
  <2>3. CASE d[1] = c[1]
    <3>1. FileOf(c) = FileOf(d)
      BY <1>5, <1>6
    <3>2. c[2] = d[2] /\ c[2] = At(c[1], m.code[FileOf(c)])
      <4>1. c[2] = At(c[1], m.code[FileOf(c)]) /\ d[2] = At(d[1], m.code[FileOf(d)])
        BY <1>2, <1>5
      <4> QED BY <2>3, <3>1, <4>1, Zenon
    <3>3. m.code[FileOf(c)] \in Versions \cup {Gone}
      <4>1. FileOf(c) \in Files
        BY <1>2, <1>5
      <4> QED BY <4>1 DEF Indexes
    <3>4. At(c[1], m.code[FileOf(c)]) \in Nat
      <4>1. c[1] \in Symbols
        BY <1>1, <1>2, <1>5
      <4> QED BY <3>3, <4>1, SymbolIndexAssumption DEF SymbolIndexAssumption, At
    <3>5. ~(c[2] < d[2])
      BY <3>2, <3>4
    <3> QED BY <2>1, <2>3, <3>5 DEF Earlier
  <2>4. CASE d[1] # c[1]
    BY <2>1, <2>2, <2>4 DEF Earlier
  <2> QED BY <2>3, <2>4
<1>7. c \in CodeEntries(m) /\ P(c)
  BY <1>5, <1>6
<1>8. Caller(m, e) = CHOOSE d \in CodeEntries(m) : P(d)
  BY DEF Caller
<1> HIDE DEF P
<1> QED BY <1>7, <1>8

\* A reference joins two entries.
LEMMA ReferencesJoin ==
  ASSUME NEW m \in Indexes, NEW r \in References(m)
  PROVE  r[1] \in Entries(m) /\ r[2] \in Entries(m)
<1>1. \A n, f, S : NameTargets(m, n, f, S) \subseteq Entries(m)
  BY DEF NameTargets, First
<1>2. CASE r \in CallEdges(m)
  <2>1. PICK e \in CodeEntries(m) :
          r \in {<<Caller(m, e), t>> :
                   t \in UNION {NameTargets(m, n, FileOf(e), Imports[FileOf(e)]) : n \in Decl[e[1]].calls}}
    BY <1>2 DEF CallEdges
  <2>2. Caller(m, e) \in Entries(m)
    BY CallerFound DEF Entries
  <2> QED BY <1>1, <2>1, <2>2
<1>3. CASE r \in BaseEdges(m)
  <2>1. PICK e \in CodeEntries(m) :
          r \in {<<e, t>> : t \in UNION {NameTargets(m, n, FileOf(e), {}) : n \in Decl[e[1]].bases}}
    BY <1>3 DEF BaseEdges
  <2>2. e \in Entries(m)
    BY DEF Entries
  <2> QED BY <1>1, <2>1, <2>2
<1>4. CASE r \in ParentEdges(m)
  BY <1>4 DEF ParentEdges, Entries
<1> QED BY <1>2, <1>3, <1>4 DEF References

\* The map a call was given was read before now.
GivenTyped ==
  /\ given \in Indexes \cup {NoMap}
  /\ given # NoMap => \A f \in Files : given.sql[f] <= disk[f]

\* An entry of the map is declared in its file.
LEMMA EntryDeclared ==
  ASSUME ProjectTyped, GivenTyped, given # NoMap, NEW e \in Entries(given)
  PROVE  FileOf(e) \in Files /\ Declared(FileOf(e), NameOf(e))
<1> DEFINE f == FileOf(e)
<1>1. /\ e[1] \in Symbols /\ f \in Files
      /\ \/ e[2] = At(e[1], given.code[f])
         \/ e[2] = At(e[1], given.sql[f])
      /\ e[2] # 0
  <2>1. /\ e[1] \in Symbols /\ f \in Files /\ e[2] # 0
        /\ e = <<e[1], At(e[1], given.code[f])>> \/ e = <<e[1], At(e[1], given.sql[f])>>
    BY EntryParts
  <2>2. \A a, b, x : x = <<a, b>> => x[2] = b
    OBVIOUS
  <2> HIDE DEF f
  <2>3. CASE e = <<e[1], At(e[1], given.code[f])>>
    <3>1. e[2] = At(e[1], given.code[f])
      BY <2>2, <2>3
    <3> QED BY <2>1, <3>1
  <2>4. CASE e = <<e[1], At(e[1], given.sql[f])>>
    <3>1. e[2] = At(e[1], given.sql[f])
      BY <2>2, <2>4
    <3> QED BY <2>1, <3>1
  <2> QED BY <2>1, <2>3, <2>4
<1>2. /\ given.code[f] \in 1 .. Gone /\ given.sql[f] \in 1 .. Gone /\ disk[f] \in 1 .. Gone
      /\ given.code[f] <= given.sql[f] /\ given.sql[f] <= disk[f] /\ Gone \in Nat
  <2>1. MaxVersion \in Nat \ {0} /\ Versions \cup {Gone} = 1 .. Gone
    BY SymbolIndexAssumption DEF SymbolIndexAssumption, Versions, Gone
  <2>2. given \in Indexes
    BY DEF GivenTyped
  <2>3. given.code \in [Files -> 1 .. Gone] /\ given.sql \in [Files -> 1 .. Gone]
        /\ \A g \in Files : given.code[g] <= given.sql[g]
    BY <2>1, <2>2 DEF Indexes
  <2>4. f \in Files
    BY <1>1
  <2> HIDE DEF f
  <2> QED BY <2>1, <2>3, <2>4 DEF GivenTyped, ProjectTyped, Gone
<1>3. given.code[f] \in 1 .. disk[f] /\ given.sql[f] \in 1 .. disk[f]
  <2> HIDE DEF f
  <2> QED BY <1>2
<1>4. Decl[e[1]].file = f /\ Decl[e[1]].name = NameOf(e)
  BY DEF FileOf, NameOf
<1> HIDE DEF f
<1>5. f \in Files /\ Declared(f, NameOf(e))
  BY <1>1, <1>3, <1>4 DEF Declared
<1> QED BY <1>5 DEF f

\* The views of good matches lead to symbols, and are cut.
LEMMA ViewsGood ==
  ASSUME ProjectTyped, GivenTyped,
         NEW matches, Lists(matches), \A m \in Range(matches) : GoodMatch(m),
         NEW views \in Views(matches)
  PROVE  /\ Cardinality(views) <= ViewLimit
         /\ \A v \in views : v.file \in Files /\ Leads(v.file, v.symbol, v.from)
<1> DEFINE good(v) == v.file \in Files /\ Leads(v.file, v.symbol, v.from)
           New(own, refs) == {v \in refs : \A w \in own : <<w.file, w.symbol>> # <<v.file, v.symbol>>}
<1>0. ViewLimit \in Nat \ {0} /\ RefLimit \in Nat \ {0}
  BY GrepAssumption DEF GrepAssumption
<1>1. PICK own \in BestOf(ViewLimit, Suggested(matches)) :
        views \in UNION {BestOf(ViewLimit, own \cup New(own, refs)) :
                           refs \in BestOf(RefLimit, Referring(matches))}
  BY DEF Views
<1>2. PICK refs \in BestOf(RefLimit, Referring(matches)) :
        views \in BestOf(ViewLimit, own \cup New(own, refs))
  BY <1>1
<1>3. own \subseteq Suggested(matches)
  BY <1>0, BestOfCuts DEF Cuts
<1>4. refs \subseteq Referring(matches)
  BY <1>0, BestOfCuts DEF Cuts
<1>5. views \subseteq own \cup refs /\ Cardinality(views) <= ViewLimit
  <2>1. views \in Cuts(ViewLimit, own \cup New(own, refs))
    BY <1>0, <1>2, BestOfCuts
  <2>2. New(own, refs) \subseteq refs
    OBVIOUS
  <2> DEFINE X == own \cup New(own, refs)
  <2>3. Cardinality(views) <= ViewLimit
    <3>1. CASE Cardinality(X) <= ViewLimit
      BY <1>2, <3>1 DEF BestOf
    <3>2. CASE ~(Cardinality(X) <= ViewLimit)
      <4>1. Cardinality(views) = ViewLimit
        BY <1>2, <3>2 DEF BestOf, kSubset
      <4> QED BY <1>0, <4>1
    <3> QED BY <3>1, <3>2
  <2>4. views \subseteq X /\ X \subseteq own \cup refs
    BY <2>1, <2>2 DEF Cuts
  <2> HIDE DEF New, X
  <2> QED BY <2>3, <2>4
<1>6. ASSUME NEW v \in Suggested(matches)
      PROVE  good(v)
  <2>1. PICK i \in DOMAIN matches :
          matches[i].symbol # Nothing /\ v = View(matches[i].file, matches[i].symbol, matches[i].from)
    BY DEF Suggested
  <2>2. GoodMatch(matches[i])
    BY DEF Range
  <2>3. v.file = matches[i].file /\ v.symbol = matches[i].symbol /\ v.from = matches[i].from
    BY <2>1 DEF View
  <2> QED BY <2>1, <2>2, <2>3 DEF GoodMatch
<1>7. ASSUME NEW v \in Referring(matches)
      PROVE  good(v)
  <2>1. given # NoMap /\ given \in Indexes
    BY DEF Referring, GivenTyped
  <2>2. PICK e : e \in {r[1] : r \in References(given)} \cup {r[2] : r \in References(given)}
                 /\ v = View(FileOf(e), NameOf(e), "reference")
    BY <2>1 DEF Referring
  <2>3. e \in Entries(given)
    BY <2>1, <2>2, ReferencesJoin
  <2>4. FileOf(e) \in Files /\ Declared(FileOf(e), NameOf(e))
    BY <2>1, <2>3, EntryDeclared
  <2>5. v.file = FileOf(e) /\ v.symbol = NameOf(e)
    BY <2>2 DEF View
  <2> QED BY <2>4, <2>5 DEF Leads
<1> HIDE DEF good
<1>8. \A v \in views : good(v)
  BY <1>3, <1>4, <1>5, <1>6, <1>7
<1> QED BY <1>5, <1>8 DEF good

-----------------------------------------------------------------------------
(* A call of grep_search.                                                  *)

\* No line that is hit, at some time.
Absent(p, mode, caseless, f, versions) ==
  \E v \in versions : \A l \in LinesOf(f, v) : ~Hits(l, p, mode, caseless)

\* The types, and what the steps of a call leave.
GrepTyped ==
  /\ GrepTypeOK
  /\ GivenTyped
  /\ began \in [Files -> 1 .. Gone] /\ \A f \in Files : began[f] <= disk[f]
  /\ gpc = "idle" => runs = <<>>
  /\ gpc # "idle" => RunsTyped
  /\ \A i \in DOMAIN runs : Len(runs[i]) <= Len(Modes(request.patterns[i]))
  /\ gpc \in {"gate", "search"} => found = NotFound
  /\ found.total \in Nat

\* A run that went well and printed nothing saw no hit in any file, and one for a
\* word printed nothing but hits.
RunsTrue ==
  \A i \in DOMAIN runs : \A k \in 1 .. Len(runs[i]) :
    LET p == request.patterns[i]
        mode == Modes(p)[k]
        r == runs[i][k]
    IN  /\ r.ok /\ r.lines = <<>> =>
             \A f \in Files \cap Scope(request.path) :
               Absent(p, mode, request.caseless, f, began[f] .. disk[f])
        /\ p.kind = "word" =>
             \A n \in 1 .. Len(r.lines) :
               r.lines[n].hit /\ Hits(r.lines[n].line, p, mode, request.caseless)

\* An empty answer is true, and so is a remembered one.
EmptyTrue ==
  gpc = "answered" /\ found.total = 0 =>
    \A i \in DOMAIN request.patterns, f \in Files \cap Scope(request.path) :
      Absent(request.patterns[i], request.mode, request.caseless, f, began[f] .. disk[f])

PastTrue ==
  \A h \in past : h.empty =>
    \A p \in h.patterns, f \in Files \cap Scope(h.path) : Absent(p, h.mode, FALSE, f, 1 .. disk[f])

RepeatedTrue ==
  refusal = "repeated" =>
    /\ gpc = "refused"
    /\ \A p \in Range(request.patterns), f \in Files \cap Scope(request.path) :
         Absent(p, request.mode, FALSE, f, 1 .. disk[f])

\* The views of an answer lead to symbols.
ViewsTrue == \A v \in found.views : v.file \in Files /\ Leads(v.file, v.symbol, v.from)

GrepInv ==
  GrepTyped /\ RunsTrue /\ EmptyTrue /\ PastTrue /\ RepeatedTrue /\ ViewsTrue /\ DefinitionShown

\* The modes of a pattern end with that of the call.
LEMMA ModesEnd ==
  ASSUME request \in Requests, NEW p
  PROVE  Len(Modes(p)) \in {1, 2} /\ Modes(p)[Len(Modes(p))] = request.mode
<1>1. CASE request.mode = "default" /\ p.kind = "word"
  <2>1. Modes(p) = <<"symbol", "default">>
    BY <1>1 DEF Modes
  <2> QED BY <1>1, <2>1
<1>2. CASE ~(request.mode = "default" /\ p.kind = "word")
  <2>1. Modes(p) = <<request.mode>>
    BY <1>2 DEF Modes
  <2> QED BY <2>1
<1> QED BY <1>1, <1>2

\* What was absent at some time up to now was so at some time up to then.
LEMMA AbsentGrows ==
  ASSUME ProjectTyped, ProjectTyped', Newer, NEW f \in Files, NEW a \in Nat, NEW p, NEW mode, NEW caseless,
         Absent(p, mode, caseless, f, a .. disk[f])
  PROVE  Absent(p, mode, caseless, f, a .. disk'[f])
<1>1. disk[f] \in Nat /\ disk'[f] \in Nat /\ disk[f] <= disk'[f]
  BY SymbolIndexAssumption DEF ProjectTyped, Newer, SymbolIndexAssumption, Gone
<1>2. a .. disk[f] \subseteq a .. disk'[f]
  BY <1>1
<1> QED BY <1>2 DEF Absent

\* Lines that were written stay so, and so do runs that printed them.
LEMMA WrittenGrows ==
  ASSUME ProjectTyped, ProjectTyped', Newer, UNCHANGED <<request, runs>>
  PROVE  Written \subseteq Written' /\ (RunsTyped => RunsTyped')
<1>1. Written \subseteq Written'
  <2>1. \A f \in Files : disk[f] \in Nat /\ disk'[f] \in Nat /\ disk[f] <= disk'[f]
    BY SymbolIndexAssumption DEF ProjectTyped, Newer, SymbolIndexAssumption, Gone
  <2>2. ASSUME NEW p \in Files \X (1 .. Gone), p[2] <= disk[p[1]]
        PROVE  p[2] <= disk'[p[1]]
    <3>1. Gone \in Nat
      BY Limits
    <3>2. p[1] \in Files /\ p[2] \in Nat
      BY <3>1
    <3> QED BY <2>1, <2>2, <3>2
  <2> QED BY <2>2 DEF Written
<1>2. Prints \subseteq Prints'
  BY <1>1 DEF Prints
<1>3. Ran \subseteq Ran'
  <2>1. ASSUME NEW r \in Ran
        PROVE  r \in Ran'
    <3>1. r.lines \in Seq(Prints)
      BY DEF Ran
    <3>2. r.lines \in Seq(Prints')
      <4> HIDE DEF Prints
      <4> QED BY <1>2, <3>1, SeqWider
    <3>3. r = [ok |-> r.ok, lines |-> r.lines] /\ r.ok \in BOOLEAN
      BY DEF Ran
    <3> HIDE DEF Prints
    <3> QED BY <3>2, <3>3 DEF Ran
  <2> QED BY <2>1
<1>4. ASSUME RunsTyped
      PROVE  RunsTyped'
  <2>1. \A s \in Seq(Ran) : s \in Seq(Ran')
    BY <1>3, SeqWider
  <2>2. runs \in [DOMAIN request.patterns -> Seq(Ran)] /\ request \in Requests
    BY <1>4 DEF RunsTyped
  <2>3. runs \in [DOMAIN request.patterns -> Seq(Ran')]
    BY <2>1, <2>2
  <2> QED BY <2>2, <2>3 DEF RunsTyped
<1> QED BY <1>1, <1>4

\* A symbol that leads somewhere goes on doing so.
LEMMA LeadsOn ==
  ASSUME ProjectTyped, ProjectTyped', Newer, UNCHANGED request, NEW f \in Files, NEW s, NEW from,
         Leads(f, s, from)
  PROVE  Leads(f, s, from)'
<1>1. disk[f] \in Nat /\ disk'[f] \in Nat /\ disk[f] <= disk'[f]
  BY SymbolIndexAssumption DEF ProjectTyped, Newer, SymbolIndexAssumption, Gone
<1>2. 1 .. disk[f] \subseteq 1 .. disk'[f]
  BY <1>1
<1>3. Declared(f, s) => Declared(f, s)'
  BY <1>2 DEF Declared
<1> QED BY <1>3 DEF Leads

\* A call does not mind that the project changes: what it knows stays true.
LEMMA GrepStays ==
  ASSUME GrepInv, ProjectTyped, ProjectTyped', Newer, UNCHANGED grep
  PROVE  GrepInv'
<1>1. /\ gpc' = gpc /\ request' = request /\ given' = given /\ runs' = runs /\ past' = past
      /\ found' = found /\ refusal' = refusal /\ began' = began
  BY DEF grep
<1>2. \A f \in Files : disk[f] \in Nat /\ disk'[f] \in Nat /\ disk[f] <= disk'[f]
  BY SymbolIndexAssumption DEF ProjectTyped, Newer, SymbolIndexAssumption, Gone
<1>3. \A f \in Files : began[f] \in Nat
  BY SymbolIndexAssumption DEF GrepInv, GrepTyped, SymbolIndexAssumption, Gone
<1>4. GrepTyped'
  <2>1. GrepTypeOK'
    BY <1>1 DEF GrepInv, GrepTyped, GrepTypeOK
  <2>2. GivenTyped'
    <3>1. ASSUME given # NoMap, NEW f \in Files
          PROVE  given.sql[f] <= disk'[f]
      <4>1. given \in Indexes /\ given.sql[f] <= disk[f]
        BY <3>1 DEF GrepInv, GrepTyped, GivenTyped
      <4>2. given.sql[f] \in Nat
        <5>1. Versions \cup {Gone} \subseteq Nat
          BY SymbolIndexAssumption DEF SymbolIndexAssumption, Versions, Gone
        <5> QED BY <4>1, <5>1 DEF Indexes
      <4> QED BY <1>2, <4>1, <4>2
    <3> QED BY <1>1, <3>1 DEF GrepInv, GrepTyped, GivenTyped
  <2>3. \A f \in Files : began[f] <= disk'[f]
    BY <1>2, <1>3 DEF GrepInv, GrepTyped
  <2>4. RunsTyped => RunsTyped'
    BY <1>1, WrittenGrows
  <2>5. \A i \in DOMAIN runs' : Len(runs'[i]) <= Len(Modes(request.patterns[i])')
    BY <1>1 DEF GrepInv, GrepTyped, Modes
  <2> QED BY <1>1, <2>1, <2>2, <2>3, <2>4, <2>5 DEF GrepInv, GrepTyped
<1>5. RunsTrue'
  <2>1. ASSUME NEW i \in DOMAIN runs, NEW k \in 1 .. Len(runs[i])
        PROVE  LET p == request.patterns[i]
                   mode == Modes(p)[k]
                   r == runs[i][k]
               IN  /\ r.ok /\ r.lines = <<>> =>
                        \A f \in Files \cap Scope(request.path) :
                          Absent(p, mode, request.caseless, f, began[f] .. disk'[f])
                   /\ p.kind = "word" =>
                        \A n \in 1 .. Len(r.lines) :
                          r.lines[n].hit /\ Hits(r.lines[n].line, p, mode, request.caseless)
    BY <1>3, AbsentGrows DEF GrepInv, RunsTrue
  <2>2. \A p : Modes(p)' = Modes(p)
    BY <1>1 DEF Modes
  <2> QED BY <1>1, <2>1, <2>2 DEF RunsTrue
<1>6. EmptyTrue'
  BY <1>1, <1>3, AbsentGrows DEF GrepInv, EmptyTrue
<1>7. PastTrue'
  BY <1>1, AbsentGrows DEF GrepInv, PastTrue
<1>8. RepeatedTrue'
  BY <1>1, AbsentGrows DEF GrepInv, RepeatedTrue
<1>9. ViewsTrue'
  BY <1>1, LeadsOn DEF GrepInv, ViewsTrue
<1>10. DefinitionShown'
  BY <1>1 DEF GrepInv, DefinitionShown
<1> QED BY <1>4, <1>5, <1>6, <1>7, <1>8, <1>9, <1>10 DEF GrepInv

\* A new call.
LEMMA AskGrepKeeps ==
  ASSUME GrepInv, ProjectTyped, UNCHANGED project, AskGrep
  PROVE  GrepInv'
<1>1. /\ request' \in Requests /\ runs' = [i \in DOMAIN request'.patterns |-> <<>>]
      /\ given' = map /\ found' = NotFound /\ refusal' = "none" /\ began' = disk
      /\ gpc' = "gate" /\ past' = past
  BY DEF AskGrep
<1>2. disk' = disk
  BY DEF project
<1>3. /\ \A i \in DOMAIN runs' : runs'[i] = <<>> /\ Len(runs'[i]) = 0
      /\ DOMAIN runs' = DOMAIN request'.patterns
      /\ runs' \in [DOMAIN request'.patterns -> Seq(Ran')]
  <2>1. <<>> \in Seq(Ran') /\ Len(<<>>) = 0
    OBVIOUS
  <2> QED BY <1>1, <2>1
<1>4. found'.matches = <<>> /\ found'.views = {} /\ found'.total = 0
  BY <1>1 DEF NotFound
<1>5. \A f \in Files : disk[f] \in 1 .. Gone /\ disk[f] <= disk[f]
  BY SymbolIndexAssumption DEF ProjectTyped, SymbolIndexAssumption, Gone
<1>6. GrepTyped'
  <2>1. GrepTypeOK'
    <3>1. ViewLimit \in Nat
      BY GrepAssumption DEF GrepAssumption
    <3>2. Cardinality({}) = 0 /\ Len(<<>>) = 0
      BY FS_EmptySet
    <3>3. Len(found'.matches) <= found'.total /\ Cardinality(found'.views) <= ViewLimit
      BY <1>4, <3>1, <3>2
    <3>4. given' \in Indexes \cup {NoMap}
      BY <1>1 DEF ProjectTyped
    <3>5. \A i \in DOMAIN runs' : Len(runs'[i]) <= 2
      BY <1>3
    <3> QED BY <1>1, <3>3, <3>4, <3>5 DEF GrepTypeOK
  <2>2. GivenTyped'
    BY <1>1, <1>2 DEF GivenTyped, ProjectTyped
  <2>3. RunsTyped'
    BY <1>1, <1>3 DEF RunsTyped
  <2>4. \A i \in DOMAIN runs' : Len(runs'[i]) <= Len(Modes(request.patterns[i])')
    <3>1. \A p : Len(Modes(p)') \in {1, 2}
      <4>1. ASSUME NEW p
            PROVE  Len(Modes(p)') \in {1, 2}
        BY DEF Modes
      <4> QED BY <4>1
    <3> QED BY <1>3, <3>1
  <2>5. began' \in [Files -> 1 .. Gone] /\ \A f \in Files : began'[f] <= disk'[f]
    BY <1>1, <1>2, <1>5 DEF ProjectTyped
  <2> QED BY <1>1, <1>4, <2>1, <2>2, <2>3, <2>4, <2>5 DEF GrepTyped
<1>7. RunsTrue'
  BY <1>3 DEF RunsTrue
<1>8. EmptyTrue' /\ RepeatedTrue' /\ DefinitionShown'
  BY <1>1 DEF EmptyTrue, RepeatedTrue, DefinitionShown
<1>9. PastTrue'
  BY <1>1, <1>2 DEF GrepInv, PastTrue
<1>10. ViewsTrue'
  BY <1>4 DEF ViewsTrue
<1> QED BY <1>6, <1>7, <1>8, <1>9, <1>10 DEF GrepInv

\* What does not touch the call nor its answer keeps what is known of both.
LEMMA CallSame ==
  ASSUME GrepInv, UNCHANGED project, UNCHANGED <<request, given, runs, found, began>>, gpc # "idle",
         gpc' \in {"gate", "search", "answered", "refused", "failed"},
         refusal' \in {"none", "repeated", "redundant", "similar"},
         gpc' \in {"gate", "search"} => gpc \in {"gate", "search"}
  PROVE  GrepTyped' /\ RunsTrue' /\ ViewsTrue'
<1>1. disk' = disk
  BY DEF project
<1>2. GrepTyped'
  <2>1. GrepTypeOK' /\ GivenTyped'
    BY <1>1 DEF GrepInv, GrepTyped, GrepTypeOK, GivenTyped
  <2>2. RunsTyped'
    BY <1>1 DEF GrepInv, GrepTyped, RunsTyped, Ran, Prints, Written
  <2>3. \A i \in DOMAIN runs' : Len(runs'[i]) <= Len(Modes(request.patterns[i])')
    BY DEF GrepInv, GrepTyped, Modes
  <2> QED BY <1>1, <2>1, <2>2, <2>3 DEF GrepInv, GrepTyped
<1>3. RunsTrue'
  BY <1>1 DEF GrepInv, RunsTrue, Modes
<1>4. ViewsTrue'
  BY <1>1 DEF GrepInv, ViewsTrue, Leads, Declared
<1> QED BY <1>2, <1>3, <1>4

\* The fact lock calls a search repeated when it knows what it finds.
LEMMA GateKeeps ==
  ASSUME GrepInv, UNCHANGED project, Gate
  PROVE  GrepInv'
<1>1. /\ gpc = "gate" /\ gpc' = IF refusal' = "none" THEN "search" ELSE "refused"
      /\ UNCHANGED <<request, given, runs, past, found, began>>
  BY DEF Gate
<1>2. /\ refusal' \in {"none", "repeated", "redundant", "similar"}
      /\ refusal' = "repeated" => Repeated(request)
  BY DEF Gate
<1>3. disk' = disk
  BY DEF project
<1>4. GrepTyped' /\ RunsTrue' /\ ViewsTrue'
  BY <1>1, <1>2, CallSame
<1>5. EmptyTrue' /\ DefinitionShown'
  BY <1>1 DEF EmptyTrue, DefinitionShown
<1>6. PastTrue'
  BY <1>1, <1>3 DEF GrepInv, PastTrue
<1>7. RepeatedTrue'
  <2>1. SUFFICES ASSUME refusal' = "repeated"
                 PROVE  /\ gpc' = "refused"
                        /\ \A p \in Range(request.patterns), f \in Files \cap Scope(request.path) :
                             Absent(p, request.mode, FALSE, f, 1 .. disk[f])
    BY <1>1, <1>3 DEF RepeatedTrue
  <2>2. PICK h \in past : /\ h.empty /\ h.patterns = Range(request.patterns)
                          /\ h.path = request.path /\ h.mode = request.mode
    BY <1>2, <2>1 DEF Repeated
  <2>3. \A p \in h.patterns, f \in Files \cap Scope(h.path) : Absent(p, h.mode, FALSE, f, 1 .. disk[f])
    BY <2>2 DEF GrepInv, PastTrue
  <2> QED BY <1>1, <2>1, <2>2, <2>3
<1> QED BY <1>4, <1>5, <1>6, <1>7 DEF GrepInv

\* A call fails.
LEMMA FailKeeps ==
  ASSUME GrepInv, UNCHANGED project, Fail
  PROVE  GrepInv'
<1>1. /\ gpc = "search" /\ gpc' = "failed"
      /\ UNCHANGED <<request, given, runs, past, found, refusal, began>>
  BY DEF Fail
<1>2. disk' = disk
  BY DEF project
<1>3. GrepTyped' /\ RunsTrue' /\ ViewsTrue'
  BY <1>1, CallSame DEF GrepInv, GrepTyped, GrepTypeOK
<1>4. EmptyTrue' /\ DefinitionShown'
  BY <1>1 DEF EmptyTrue, DefinitionShown
<1>5. PastTrue'
  BY <1>1, <1>2 DEF GrepInv, PastTrue
<1>6. RepeatedTrue'
  BY <1>1 DEF GrepInv, RepeatedTrue
<1> QED BY <1>3, <1>4, <1>5, <1>6 DEF GrepInv

\* A new request.
LEMMA NewRequestKeeps ==
  ASSUME GrepInv, UNCHANGED project, NewRequest
  PROVE  GrepInv'
<1>1. /\ gpc \in {"answered", "refused", "failed"} /\ gpc' = gpc /\ past' = {}
      /\ UNCHANGED <<request, given, runs, found, refusal, began>>
  BY DEF NewRequest
<1>2. disk' = disk
  BY DEF project
<1>3. GrepTyped' /\ RunsTrue' /\ ViewsTrue'
  BY <1>1, CallSame DEF GrepInv, GrepTyped, GrepTypeOK
<1>4. EmptyTrue' /\ DefinitionShown' /\ RepeatedTrue'
  BY <1>1, <1>2 DEF GrepInv, EmptyTrue, DefinitionShown, RepeatedTrue
<1>5. PastTrue'
  BY <1>1 DEF PastTrue
<1> QED BY <1>3, <1>4, <1>5 DEF GrepInv

\* A run of ripgrep tells the truth about the files as they are.
LEMMA RunRgKeeps ==
  ASSUME GrepInv, ProjectTyped, UNCHANGED project, RunRg
  PROVE  GrepInv'
<1>1. PICK i \in DOMAIN runs :
        /\ Running(i)
        /\ LET p == request.patterns[i]
               lines == Outputs(p, Modes(p)[Len(runs[i]) + 1])
           IN  \E r \in {[ok |-> TRUE, lines |-> x] : x \in lines} \cup {[ok |-> FALSE, lines |-> <<>>]} :
                 runs' = [runs EXCEPT ![i] = Append(@, r)]
  BY DEF RunRg
<1> DEFINE p == request.patterns[i]
           N == Len(runs[i])
           mode == Modes(p)[N + 1]
<1>2. PICK r \in {[ok |-> TRUE, lines |-> x] : x \in Outputs(p, mode)} \cup {[ok |-> FALSE, lines |-> <<>>]} :
        runs' = [runs EXCEPT ![i] = Append(@, r)]
  BY <1>1
<1>3. /\ gpc = "search" /\ gpc' = gpc
      /\ UNCHANGED <<request, given, past, found, refusal, began>>
  BY DEF RunRg
<1>4. disk' = disk
  BY DEF project
<1>5. RunsTyped /\ request \in Requests
  BY <1>3 DEF GrepInv, GrepTyped, RunsTyped
<1>6. /\ r \in Ran
      /\ r.ok /\ r.lines = <<>> =>
           \A f \in Scope(request.path) : \A l \in LinesOf(f, disk[f]) : ~Hits(l, p, mode, request.caseless)
      /\ p.kind = "word" =>
           \A n \in 1 .. Len(r.lines) :
             r.lines[n].hit /\ Hits(r.lines[n].line, p, mode, request.caseless)
  <2> HIDE DEF p, mode
  <2>1. CASE r = [ok |-> FALSE, lines |-> <<>>]
    <3>1. <<>> \in Seq(Prints) /\ Len(<<>>) = 0
      OBVIOUS
    <3> HIDE DEF Prints
    <3> QED BY <2>1, <3>1 DEF Ran
  <2>2. ASSUME NEW x \in Outputs(p, mode), r = [ok |-> TRUE, lines |-> x]
        PROVE  /\ r \in Ran
               /\ r.lines = <<>> =>
                    \A f \in Scope(request.path) : \A l \in LinesOf(f, disk[f]) : ~Hits(l, p, mode, request.caseless)
               /\ p.kind = "word" =>
                    \A n \in 1 .. Len(r.lines) :
                      r.lines[n].hit /\ Hits(r.lines[n].line, p, mode, request.caseless)
    <3>1. /\ x \in Seq(Prints)
          /\ x = <<>> => \A f \in Scope(request.path) :
               \A l \in LinesOf(f, disk[f]) : ~Hits(l, p, mode, request.caseless)
          /\ p.kind = "word" =>
               \A n \in 1 .. Len(x) : x[n].hit /\ Hits(x[n].line, p, mode, request.caseless)
      BY <1>5, OutputLines
    <3>2. r.lines = x
      BY <2>2
    <3>3. r \in Ran
      <4> HIDE DEF Prints
      <4> QED BY <2>2, <3>1 DEF Ran
    <3> QED BY <3>1, <3>2, <3>3
  <2> QED BY <2>1, <2>2
<1>7. /\ runs \in [DOMAIN request.patterns -> Seq(Ran)] /\ i \in DOMAIN request.patterns
      /\ runs[i] \in Seq(Ran) /\ N \in Nat
  <2>1. runs \in [DOMAIN request.patterns -> Seq(Ran)]
    BY <1>5 DEF RunsTyped
  <2>2. runs[i] \in Seq(Ran)
    BY <2>1
  <2> QED BY <2>1, <2>2
<1> DEFINE s == Append(runs[i], r)
<1>8. /\ s \in Seq(Ran) /\ Len(s) = N + 1 /\ s[N + 1] = r
      /\ \A k \in 1 .. N : s[k] = runs[i][k]
  BY <1>6, <1>7
<1>9. /\ DOMAIN runs' = DOMAIN runs /\ runs'[i] = s
      /\ \A j \in DOMAIN runs : j # i => runs'[j] = runs[j]
      /\ runs' \in [DOMAIN request.patterns -> Seq(Ran)]
  <2>1. runs' = [runs EXCEPT ![i] = s]
    BY <1>2
  <2> HIDE DEF s
  <2> QED BY <1>7, <1>8, <2>1
<1>10. N + 1 <= Len(Modes(p)) /\ N + 1 <= 2
  <2>1. N < Len(Modes(p))
    BY <1>1 DEF Running
  <2>2. Len(Modes(p)) \in {1, 2}
    BY <1>5, ModesEnd
  <2> DEFINE L == Len(Modes(p))
  <2>3. N \in Nat /\ L \in {1, 2} /\ N < L
    BY <1>7, <2>1, <2>2
  <2> HIDE DEF N, L
  <2>4. N + 1 <= L /\ N + 1 <= 2
    BY <2>3
  <2> QED BY <2>4 DEF L
<1>11. \A x : Modes(x)' = Modes(x)
  BY <1>3 DEF Modes
<1> HIDE DEF s, mode, p, N
<1>12. GrepTyped'
  <2>1. \A j \in DOMAIN runs' : Len(runs'[j]) <= 2 /\ Len(runs'[j]) <= Len(Modes(request.patterns[j]))
    <3>1. \A j \in DOMAIN runs : Len(runs[j]) <= 2 /\ Len(runs[j]) <= Len(Modes(request.patterns[j]))
      BY DEF GrepInv, GrepTyped, GrepTypeOK
    <3> QED BY <1>8, <1>9, <1>10, <3>1 DEF p
  <2>2. GrepTypeOK' /\ GivenTyped'
    BY <1>3, <1>4, <2>1 DEF GrepInv, GrepTyped, GrepTypeOK, GivenTyped
  <2>3. RunsTyped'
    BY <1>3, <1>4, <1>5, <1>9 DEF RunsTyped, Ran, Prints, Written
  <2>4. \A j \in DOMAIN runs' : Len(runs'[j]) <= Len(Modes(request.patterns[j])')
    BY <1>3, <1>11, <2>1
  <2> QED BY <1>3, <1>4, <2>2, <2>3, <2>4 DEF GrepInv, GrepTyped
<1>13. RunsTrue'
  <2> DEFINE true(j, k, y) ==
               LET q == request.patterns[j]
                   m == Modes(q)[k]
               IN  /\ y.ok /\ y.lines = <<>> =>
                        \A f \in Files \cap Scope(request.path) :
                          Absent(q, m, request.caseless, f, began[f] .. disk[f])
                   /\ q.kind = "word" =>
                        \A n \in 1 .. Len(y.lines) :
                          y.lines[n].hit /\ Hits(y.lines[n].line, q, m, request.caseless)
  <2>1. \A j \in DOMAIN runs : \A k \in 1 .. Len(runs[j]) : true(j, k, runs[j][k])
    BY DEF GrepInv, RunsTrue
  <2>2. true(i, N + 1, r)
    <3>1. ASSUME r.ok, r.lines = <<>>, NEW f \in Files \cap Scope(request.path)
          PROVE  Absent(p, mode, request.caseless, f, began[f] .. disk[f])
      <4>1. disk[f] \in began[f] .. disk[f]
        BY SymbolIndexAssumption DEF GrepInv, GrepTyped, ProjectTyped, SymbolIndexAssumption, Gone
      <4> QED BY <1>6, <3>1, <4>1 DEF Absent
    <3> QED BY <1>6, <3>1 DEF p, mode
  <2> HIDE DEF true
  <2>3. ASSUME NEW j \in DOMAIN runs', NEW k \in 1 .. Len(runs'[j])
        PROVE  true(j, k, runs'[j][k])
    <3>1. CASE j # i
      BY <1>9, <2>1, <2>3, <3>1
    <3>2. CASE j = i /\ k = N + 1
      BY <1>8, <1>9, <2>2, <3>2
    <3>3. CASE j = i /\ k # N + 1
      <4>1. k \in 1 .. N
        BY <1>7, <1>8, <1>9, <3>3
      <4>2. runs'[j][k] = runs[i][k]
        BY <1>8, <1>9, <3>3, <4>1
      <4> QED BY <2>1, <3>3, <4>1, <4>2 DEF N
    <3> QED BY <3>1, <3>2, <3>3
  <2> QED BY <1>3, <1>4, <1>11, <2>3 DEF RunsTrue, true
<1>14. EmptyTrue' /\ DefinitionShown'
  BY <1>3 DEF EmptyTrue, DefinitionShown
<1>15. PastTrue' /\ RepeatedTrue'
  BY <1>3, <1>4 DEF GrepInv, PastTrue, RepeatedTrue
<1>16. ViewsTrue'
  BY <1>3, <1>4 DEF GrepInv, ViewsTrue, Leads, Declared
<1> QED BY <1>12, <1>13, <1>14, <1>15, <1>16 DEF GrepInv

\* What is not found however it is written is not found as it is written.
LEMMA HitsFold ==
  ASSUME NEW l, NEW p, NEW mode, NEW caseless \in BOOLEAN, Hits(l, p, mode, FALSE)
  PROVE  Hits(l, p, mode, caseless)
<1>1. \A words, w : Says(words, w, FALSE) => Says(words, w, caseless)
  BY DEF Says
<1>2. CASE mode = "symbol"
  BY <1>1, <1>2 DEF Hits
<1>3. CASE mode = "import"
  BY <1>1, <1>3 DEF Hits
<1>4. CASE mode # "symbol" /\ mode # "import" /\ p.kind = "all"
  BY <1>1, <1>4 DEF Hits
<1>5. CASE mode # "symbol" /\ mode # "import" /\ p.kind # "all"
  BY <1>1, <1>5 DEF Hits
<1> QED BY <1>2, <1>3, <1>4, <1>5

\* All runs of a pattern have been made, one at least.
LEMMA AllRan ==
  ASSUME GrepInv, gpc = "search", AllRun, NEW i \in DOMAIN request.patterns
  PROVE  /\ RunsTyped /\ request \in Requests
         /\ i \in DOMAIN runs /\ runs[i] \in Seq(Ran) /\ Len(runs[i]) \in {1, 2}
         /\ Len(runs[i]) = Len(Modes(request.patterns[i]))
<1> DEFINE p == request.patterns[i]
           N == Len(runs[i])
<1>1. RunsTyped /\ request \in Requests
  BY DEF GrepInv, GrepTyped, RunsTyped
<1>2. i \in DOMAIN runs /\ runs[i] \in Seq(Ran) /\ N \in Nat
  <2>1. runs \in [DOMAIN request.patterns -> Seq(Ran)]
    BY <1>1 DEF RunsTyped
  <2>2. i \in DOMAIN runs /\ runs[i] \in Seq(Ran)
    BY <2>1
  <2> QED BY <2>2
<1>3. N = Len(Modes(p)) /\ N \in {1, 2}
  <2>1. ~(N < Len(Modes(p))) /\ N <= Len(Modes(p))
    BY <1>2 DEF AllRun, Running, GrepInv, GrepTyped
  <2>2. Len(Modes(p)) \in {1, 2}
    BY <1>1, ModesEnd
  <2> DEFINE L == Len(Modes(p))
  <2>3. N \in Nat /\ L \in {1, 2} /\ ~(N < L) /\ N <= L
    BY <1>2, <2>1, <2>2
  <2> HIDE DEF N, L
  <2>4. N = L /\ N \in {1, 2}
    BY <2>3
  <2> QED BY <2>4 DEF L
<1> QED BY <1>1, <1>2, <1>3

\* When all has run and nothing failed nor was found, nothing was there.
LEMMA NothingThere ==
  ASSUME GrepInv, ProjectTyped, gpc = "search", AllRun, FindNothing
  PROVE  \A i \in DOMAIN request.patterns, f \in Files \cap Scope(request.path) :
           Absent(request.patterns[i], request.mode, request.caseless, f, began[f] .. disk[f])
<1> SUFFICES ASSUME NEW i \in DOMAIN request.patterns, NEW f \in Files \cap Scope(request.path)
             PROVE  Absent(request.patterns[i], request.mode, request.caseless, f, began[f] .. disk[f])
  OBVIOUS
<1> DEFINE p == request.patterns[i]
           N == Len(runs[i])
<1>1. RunsTyped /\ request \in Requests /\ i \in DOMAIN runs
  BY AllRan
<1>2. runs[i] \in Seq(Ran) /\ N \in {1, 2} /\ N = Len(Modes(p))
  BY AllRan
<1>3. Lines(i) = <<>> /\ ~Failed(i)
  BY <1>1, RawBrought DEF FindNothing
<1>5. runs[i][N].ok
  BY <1>3 DEF Failed, Last
<1>6. N \in 1 .. N
  <2>1. N \in {1, 2}
    BY <1>2
  <2> HIDE DEF N
  <2> QED BY <2>1
<1>7. runs[i][N].lines = <<>>
  BY <1>1, <1>3, <1>6, LinesBrought
<1>8. Modes(p)[N] = request.mode
  BY <1>1, <1>2, ModesEnd
<1>9. Absent(p, Modes(p)[N], request.caseless, f, began[f] .. disk[f])
  BY <1>1, <1>5, <1>6, <1>7 DEF GrepInv, RunsTrue
<1> QED BY <1>8, <1>9

\* An empty answer, and what is remembered of it, are true.
LEMMA FindNothingKeeps ==
  ASSUME GrepInv, ProjectTyped, UNCHANGED project, Find, FindNothing
  PROVE  GrepInv'
<1>1. /\ gpc = "search" /\ AllRun /\ gpc' = "answered"
      /\ UNCHANGED <<request, given, runs, refusal, began, found>>
  BY DEF Find, FindNothing
<1>2. /\ disk' = disk /\ request \in Requests
      /\ refusal \in {"none", "repeated", "redundant", "similar"}
      /\ \A f \in Files : began[f] \in 1 .. Gone
  BY <1>1 DEF project, GrepInv, GrepTyped, GrepTypeOK, RunsTyped
<1>3. GrepTyped' /\ RunsTrue' /\ ViewsTrue'
  BY <1>1, <1>2, CallSame
<1>4. \A i \in DOMAIN request.patterns, f \in Files \cap Scope(request.path) :
        Absent(request.patterns[i], request.mode, request.caseless, f, began[f] .. disk[f])
  BY <1>1, NothingThere
<1>5. EmptyTrue'
  BY <1>1, <1>2, <1>4 DEF EmptyTrue
<1>6. PastTrue'
  <2> SUFFICES ASSUME NEW h \in past', h.empty, NEW p \in h.patterns, NEW f \in Files \cap Scope(h.path)
               PROVE  Absent(p, h.mode, FALSE, f, 1 .. disk[f])
    BY <1>2 DEF PastTrue
  <2>1. CASE h \in past
    BY <2>1 DEF GrepInv, PastTrue
  <2>2. CASE h \notin past
    <3>1. h = [patterns |-> Range(request.patterns), path |-> request.path, mode |-> request.mode,
               empty |-> TRUE]
      BY <2>2 DEF FindNothing, Remembered
    <3>2. h.patterns = Range(request.patterns) /\ h.path = request.path /\ h.mode = request.mode
      BY <3>1
    <3>3. PICK i \in DOMAIN request.patterns : p = request.patterns[i]
      BY <3>2 DEF Range
    <3>4. PICK v \in began[f] .. disk[f] :
            \A l \in LinesOf(f, v) : ~Hits(l, p, request.mode, request.caseless)
      BY <1>4, <3>2, <3>3 DEF Absent
    <3>5. v \in 1 .. disk[f]
      BY <1>2, SymbolIndexAssumption DEF ProjectTyped, SymbolIndexAssumption, Gone
    <3>6. request.caseless \in BOOLEAN
      BY <1>2, GrepAssumption DEF GrepAssumption
    <3> QED BY <3>2, <3>4, <3>5, <3>6, HitsFold DEF Absent
  <2> QED BY <2>1, <2>2
<1>7. RepeatedTrue'
  BY <1>1 DEF GrepInv, RepeatedTrue
<1>8. DefinitionShown'
  <2>1. 1 \in DOMAIN request.patterns
    BY <1>2, PatternList
  <2>2. Lines(1) = <<>> /\ RunsTyped /\ Len(runs[1]) \in {1, 2}
    BY <1>1, <2>1, AllRan, RawBrought DEF FindNothing
  <2>3. 1 \in 1 .. Len(runs[1])
    BY <2>2
  <2>4. runs[1][1].lines = <<>>
    BY <2>1, <2>2, <2>3, LinesBrought
  <2> QED BY <1>1, <2>4 DEF DefinitionShown
<1> QED BY <1>3, <1>5, <1>6, <1>7, <1>8 DEF GrepInv

\* What is made into matches are lines that were brought, the first of them first
\* unless the structure of a file is asked for.
Taken == IF request.mode = "structure" THEN Seeds(Raw) ELSE Cut(request.max, Raw)

\* They begin with the first line that was brought.
LEMMA TakenBegins ==
  ASSUME RunsTyped, request \in Requests
  PROVE  /\ Taken \in Seq(Brought) /\ Len(Taken) <= Len(Raw)
         /\ Raw # <<>> /\ request.mode = "default" => Taken # <<>> /\ Taken[1] = Raw[1]
<1> DEFINE raw == Raw
<1>1. raw \in Seq(Brought)
  BY RawBrought
<1>2. request.max \in Nat \ {0} /\ SeedLimit \in Nat \ {0}
  BY GrepAssumption DEF GrepAssumption
<1> HIDE DEF raw
<1>3. CASE request.mode = "structure"
  <2> DEFINE P == {n \in DOMAIN raw :
                     raw[n].raw.hit => \A k \in 1 .. n - 1 :
                       raw[k].raw.hit => raw[k].raw.line.file # raw[n].raw.line.file}
             q == OnlyAt(raw, P)
  <2>1. q \in Seq(Brought) /\ Len(q) <= Len(raw)
    <3> HIDE DEF P
    <3> QED BY <1>1, OnlyAtSelects
  <2>2. Seeds(raw) = Cut(SeedLimit, q)
    BY DEF Seeds
  <2> HIDE DEF q
  <2>3. Seeds(raw) \in Seq(Brought) /\ Len(Seeds(raw)) <= Len(q)
    BY <1>2, <2>1, <2>2, CutTakes
  <2>4. Taken = Seeds(raw)
    BY <1>3 DEF Taken, raw
  <2>5. Len(Seeds(raw)) \in Nat /\ Len(q) \in Nat /\ Len(raw) \in Nat
    BY <1>1, <2>1, <2>3
  <2> QED BY <1>3, <2>1, <2>3, <2>4, <2>5 DEF raw
<1>4. CASE request.mode # "structure"
  <2>1. Taken = Cut(request.max, raw)
    BY <1>4 DEF Taken, raw
  <2> DEFINE t == Cut(request.max, raw)
  <2>2. /\ t \in Seq(Brought) /\ Len(t) <= Len(raw)
        /\ \A i \in 1 .. Len(t) : t[i] = raw[i]
        /\ Len(t) = request.max \/ Len(t) = Len(raw)
    BY <1>1, <1>2, CutTakes
  <2> HIDE DEF t
  <2>3. ASSUME raw # <<>>
        PROVE  t # <<>> /\ t[1] = raw[1]
    <3>1. Len(raw) \in Nat \ {0}
      BY <1>1, <2>3
    <3>2. Len(t) \in Nat \ {0}
      BY <1>2, <2>2, <3>1
    <3>3. 1 \in 1 .. Len(t)
      BY <3>2
    <3> QED BY <2>2, <3>2, <3>3
  <2> QED BY <2>1, <2>2, <2>3 DEF t, raw
<1> QED BY <1>3, <1>4

\* What was declared as it was searched for is taken first.
LEMMA FirstTaken ==
  ASSUME GrepInv, gpc = "search", AllRun, ProjectTyped,
         request.path \notin Files, request.patterns[1].kind = "word", request.mode = "default",
         runs[1][1].lines # <<>>
  PROVE  \E m \in Range(Parsed(Taken)) :
           m.kind = "definition" /\ Hits(m.line, request.patterns[1], "symbol", request.caseless)
<1> DEFINE p == request.patterns[1]
           r == runs[1][1]
           b == Raw[1]
<1>1. RunsTyped /\ request \in Requests
  BY DEF GrepInv, GrepTyped, RunsTyped
<1>2. 1 \in DOMAIN request.patterns
  BY <1>1, PatternList
<1>3. 1 \in DOMAIN runs /\ runs[1] \in Seq(Ran) /\ Len(runs[1]) \in {1, 2}
  BY <1>2, AllRan
<1>4. runs[1] # <<>> /\ 1 \in 1 .. Len(runs[1]) /\ r \in Ran
  BY <1>3
<1>5. r.lines \in Seq(Prints)
  BY <1>4 DEF Ran
<1>6. 1 \in 1 .. Len(r.lines)
  <2>1. r.lines # <<>>
    OBVIOUS
  <2> HIDE DEF r
  <2> QED BY <1>5, <2>1
<1>7. Modes(p)[1] = "symbol"
  BY DEF Modes
<1>8. r.lines[1].hit /\ Hits(r.lines[1].line, p, "symbol", request.caseless)
  <2>1. \A n \in 1 .. Len(r.lines) :
          r.lines[n].hit /\ Hits(r.lines[n].line, p, Modes(p)[1], request.caseless)
    BY <1>3, <1>4 DEF GrepInv, RunsTrue
  <2> HIDE DEF p, r
  <2> QED BY <1>6, <1>7, <2>1
<1>9. Lines(1) # <<>> /\ Lines(1)[1] = [raw |-> r.lines[1], pattern |-> p]
  BY <1>1, <1>2, <1>4, LinesBrought
<1>10. Raw # <<>> /\ b = [raw |-> r.lines[1], pattern |-> p]
  BY <1>1, <1>9, RawBrought
<1>11. Taken \in Seq(Brought) /\ Taken # <<>> /\ Taken[1] = b
  BY <1>1, <1>10, TakenBegins
<1>12. b \in Brought
  <2> HIDE DEF b
  <2> QED BY <1>11
<1>13. b.raw.hit /\ b.raw.line = r.lines[1].line /\ b.pattern = p
  <2> HIDE DEF b, r, p
  <2> QED BY <1>8, <1>10
<1>14. b.raw.line.form = "def"
  <2> HIDE DEF b, r, p
  <2> QED BY <1>8, <1>13 DEF Hits
<1> DEFINE m == Match(b.raw.line, b.pattern)
<1> HIDE DEF b, r
<1>15. m.line = b.raw.line /\ m.kind = "definition"
  BY <1>1, <1>12, <1>14, MatchLeads
<1>16. m \in Range(Parsed(Taken))
  BY <1>1, <1>11, <1>13, ParsedLeads
<1> HIDE DEF m
<1> QED BY <1>8, <1>13, <1>15, <1>16

\* An answer that is not empty shows the definition, and its views lead to symbols.
LEMMA FindSomeKeeps ==
  ASSUME GrepInv, ProjectTyped, UNCHANGED project, Find, FindSome
  PROVE  GrepInv'
<1>1. /\ gpc = "search" /\ AllRun /\ gpc' = "answered"
      /\ UNCHANGED <<request, given, runs, refusal, began>>
  BY DEF Find
<1>2. /\ disk' = disk /\ request \in Requests /\ RunsTyped /\ GivenTyped
      /\ refusal \in {"none", "repeated", "redundant", "similar"}
  BY <1>1 DEF project, GrepInv, GrepTyped, GrepTypeOK, RunsTyped
<1> DEFINE matches == Enriched(Parsed(Taken))
<1>3. PICK short \in {FALSE, Len(matches) > ShownLimit} : \E views \in Views(matches) :
        found' = [matches |-> IF short THEN Cut(ShownLimit, matches) ELSE matches,
                  views |-> views,
                  total |-> Len(Raw),
                  truncated |-> short \/ (request.mode # "structure" /\ Len(Raw) > request.max)]
  BY DEF FindSome, Taken
<1> DEFINE shown == IF short THEN Cut(ShownLimit, matches) ELSE matches
<1>4. PICK views \in Views(matches) :
        found'.matches = shown /\ found'.views = views /\ found'.total = Len(Raw)
  <2> HIDE DEF matches
  <2> QED BY <1>3
<1>5. Raw \in Seq(Brought) /\ Raw # <<>> /\ Taken \in Seq(Brought) /\ Len(Taken) <= Len(Raw)
  BY <1>2, RawBrought, TakenBegins DEF FindSome
<1>6. /\ Lists(Parsed(Taken)) /\ Len(Parsed(Taken)) <= Len(Taken)
      /\ \A m \in Range(Parsed(Taken)) : GoodMatch(m)
  BY <1>2, <1>5, ParsedLeads
<1>7. /\ Lists(matches) /\ Len(matches) <= Len(Parsed(Taken))
      /\ \A m \in Range(matches) : GoodMatch(m)
      /\ \A m \in Range(Parsed(Taken)) : m.kind = "definition" =>
           \E n \in 1 .. Len(matches) :
             /\ matches[n].line = m.line
             /\ \A k \in 1 .. n - 1 : matches[k].kind = "definition"
  BY <1>6, EnrichedLeads
<1>8. /\ Cardinality(views) <= ViewLimit
      /\ \A v \in views : v.file \in Files /\ Leads(v.file, v.symbol, v.from)
  <2> HIDE DEF matches
  <2> QED BY <1>2, <1>4, <1>7, ViewsGood
<1>9. Len(matches) \in Nat /\ Len(Raw) \in Nat \ {0} /\ Len(matches) <= Len(Raw)
  <2>1. Len(Parsed(Taken)) \in Nat /\ Len(matches) \in Nat
    <3> HIDE DEF matches
    <3> QED BY <1>6, <1>7 DEF Lists
  <2>2. Len(Taken) \in Nat /\ Len(Raw) \in Nat \ {0}
    BY <1>5
  <2> HIDE DEF matches
  <2> QED BY <1>5, <1>6, <1>7, <2>1, <2>2
<1>10. /\ Len(shown) \in Nat /\ Len(shown) <= Len(matches) /\ DOMAIN shown = 1 .. Len(shown)
       /\ \A i \in 1 .. Len(shown) : shown[i] = matches[i]
       /\ Len(shown) = ShownLimit \/ Len(shown) = Len(matches)
  <2> HIDE DEF matches
  <2>1. matches \in Seq(Range(matches))
    BY <1>7 DEF Lists
  <2>2. CASE short
    <3>1. ShownLimit \in Nat \ {0}
      BY GrepAssumption DEF GrepAssumption
    <3> DEFINE cut == Cut(ShownLimit, matches)
    <3>2. /\ cut \in Seq(Range(matches)) /\ Len(cut) <= Len(matches)
          /\ \A i \in 1 .. Len(cut) : cut[i] = matches[i]
          /\ Len(cut) = ShownLimit \/ Len(cut) = Len(matches)
      BY <2>1, <3>1, CutTakes
    <3>3. shown = cut
      BY <2>2
    <3> HIDE DEF cut
    <3>4. Len(cut) \in Nat /\ DOMAIN cut = 1 .. Len(cut)
      BY <3>2
    <3> HIDE DEF shown
    <3> QED BY <3>2, <3>3, <3>4
  <2>3. CASE ~short
    <3>1. shown = matches
      BY <2>3
    <3> HIDE DEF shown
    <3> QED BY <1>9, <2>1, <3>1
  <2> QED BY <2>2, <2>3
<1> HIDE DEF shown, matches
<1>11. GrepTyped'
  <2>1. GrepTypeOK'
    <3>1. Len(shown) <= Len(Raw)
      BY <1>9, <1>10
    <3>2. /\ gpc' = "answered" /\ request' \in Requests /\ (given \in Indexes \cup {NoMap})'
          /\ (\A i \in DOMAIN runs : Len(runs[i]) <= 2)'
      BY <1>1, <1>2 DEF GivenTyped, GrepInv, GrepTyped, GrepTypeOK
    <3>3. (Len(found.matches) <= found.total /\ Cardinality(found.views) <= ViewLimit)'
      BY <1>4, <1>8, <3>1
    <3> QED BY <1>1, <1>2, <3>2, <3>3 DEF GrepTypeOK
  <2>2. GivenTyped' /\ RunsTyped'
    BY <1>1, <1>2 DEF GivenTyped, RunsTyped, Ran, Prints, Written
  <2>3. (\A i \in DOMAIN runs : Len(runs[i]) <= Len(Modes(request.patterns[i])))'
    BY <1>1 DEF GrepInv, GrepTyped, Modes
  <2>4. found'.total \in Nat
    BY <1>4, <1>9
  <2>5. (began \in [Files -> 1 .. Gone] /\ \A f \in Files : began[f] <= disk[f])'
    BY <1>1, <1>2 DEF GrepInv, GrepTyped
  <2> QED BY <1>1, <2>1, <2>2, <2>3, <2>4, <2>5 DEF GrepTyped
<1>12. RunsTrue'
  BY <1>1, <1>2 DEF GrepInv, RunsTrue, Modes
<1>13. EmptyTrue'
  BY <1>4, <1>9 DEF EmptyTrue
<1>14. PastTrue'
  <2>1. past' = past \cup {[patterns |-> Range(request.patterns), path |-> request.path,
                            mode |-> request.mode, empty |-> FALSE]}
    BY DEF FindSome, Remembered
  <2>2. ASSUME NEW h \in past', h.empty
        PROVE  h \in past
    BY <2>1, <2>2
  <2>3. PastTrue
    BY DEF GrepInv
  <2> QED BY <1>2, <2>2, <2>3 DEF PastTrue
<1>15. RepeatedTrue'
  BY <1>1 DEF GrepInv, RepeatedTrue
<1>16. ViewsTrue'
  BY <1>1, <1>2, <1>4, <1>8 DEF ViewsTrue, Leads, Declared
<1>17. DefinitionShown'
  <2> SUFFICES ASSUME request.path \notin Files, request.patterns[1].kind = "word",
                      request.mode = "default", runs[1][1].lines # <<>>
               PROVE  \/ \E i \in DOMAIN shown :
                           Hits(shown[i].line, request.patterns[1], "symbol", request.caseless)
                      \/ /\ Len(shown) = ShownLimit
                         /\ \A i \in DOMAIN shown : shown[i].kind = "definition"
    BY <1>1, <1>4 DEF DefinitionShown
  <2>1. PICK m \in Range(Parsed(Taken)) :
          m.kind = "definition" /\ Hits(m.line, request.patterns[1], "symbol", request.caseless)
    BY <1>1, FirstTaken
  <2>2. PICK n \in 1 .. Len(matches) :
          matches[n].line = m.line /\ \A k \in 1 .. n - 1 : matches[k].kind = "definition"
    BY <1>7, <2>1
  <2>3. CASE n <= Len(shown)
    <3>1. n \in DOMAIN shown /\ shown[n].line = m.line
      BY <1>9, <1>10, <2>2, <2>3
    <3> QED BY <2>1, <3>1
  <2>4. CASE ~(n <= Len(shown))
    <3>1. Len(shown) = ShownLimit
      BY <1>9, <1>10, <2>2, <2>4
    <3>2. ASSUME NEW i \in DOMAIN shown
          PROVE  shown[i].kind = "definition"
      <4>1. i \in 1 .. n - 1 /\ shown[i] = matches[i]
        BY <1>9, <1>10, <2>4
      <4> QED BY <2>2, <4>1
    <3> QED BY <3>1, <3>2
  <2> QED BY <2>3, <2>4
<1> QED BY <1>11, <1>12, <1>13, <1>14, <1>15, <1>16, <1>17 DEF GrepInv

\* A call of grep_search keeps the invariant.
LEMMA GrepKeeps ==
  ASSUME GrepInv, ProjectTyped, UNCHANGED project, AskGrep \/ GrepStep
  PROVE  GrepInv'
<1>1. CASE AskGrep
  BY <1>1, AskGrepKeeps
<1>2. CASE Gate
  BY <1>2, GateKeeps
<1>3. CASE RunRg
  BY <1>3, RunRgKeeps
<1>4. CASE Fail
  BY <1>4, FailKeeps
<1>5. CASE Find
  <2>1. FindNothing \/ FindSome
    BY <1>5 DEF Find
  <2> QED BY <1>5, <2>1, FindNothingKeeps, FindSomeKeeps
<1>6. CASE NewRequest
  BY <1>6, NewRequestKeeps
<1> QED BY <1>1, <1>2, <1>3, <1>4, <1>5, <1>6 DEF GrepStep

\* What an empty answer and a refused repetition claim follows from the invariant.
LEMMA NothingFound ==
  ASSUME GrepInv
  PROVE  NothingToFind
<1> SUFFICES ASSUME ~request.caseless, (gpc = "answered" /\ found.total = 0) \/ refusal = "repeated",
                    NEW i \in DOMAIN request.patterns, NEW f \in Scope(request.path)
             PROVE  \E v \in SeenVersions(f) :
                      \A l \in LinesOf(f, v) : ~Hits(l, request.patterns[i], request.mode, FALSE)
  BY DEF NothingToFind
<1>1. request \in Requests
  BY DEF GrepInv, GrepTyped, GrepTypeOK
<1>2. f \in Files \cap Scope(request.path)
  BY <1>1, ScopeFiles
<1>3. request.caseless = FALSE
  BY <1>1, GrepAssumption DEF GrepAssumption
<1>4. CASE gpc = "answered" /\ found.total = 0
  <2>1. Absent(request.patterns[i], request.mode, FALSE, f, began[f] .. disk[f])
    BY <1>2, <1>3, <1>4 DEF GrepInv, EmptyTrue
  <2>2. SeenVersions(f) = began[f] .. disk[f]
    BY <1>4 DEF SeenVersions
  <2> QED BY <2>1, <2>2 DEF Absent
<1>5. CASE refusal = "repeated"
  <2>1. request.patterns[i] \in Range(request.patterns)
    BY DEF Range
  <2>2. gpc = "refused" /\ Absent(request.patterns[i], request.mode, FALSE, f, 1 .. disk[f])
    BY <1>2, <1>5, <2>1 DEF GrepInv, RepeatedTrue
  <2>3. SeenVersions(f) = 1 .. disk[f]
    BY <2>2 DEF SeenVersions
  <2> QED BY <2>2, <2>3 DEF Absent
<1> QED BY <1>4, <1>5

\* Where the answer leads follows from the invariant.
LEMMA AnswerShows ==
  ASSUME GrepInv
  PROVE  AnswerLeads
<1>1. ViewsLead
  <2> SUFFICES ASSUME NEW v \in found.views
               PROVE  \/ v.from = "mount"
                      \/ \E i \in DOMAIN request.patterns :
                           request.patterns[i].kind = "word" /\ v.symbol \in request.patterns[i].words
                      \/ \E n \in 1 .. disk[v.file], s \in Symbols :
                           At(s, n) # 0 /\ Decl[s].file = v.file /\ Decl[s].name = v.symbol
    BY DEF ViewsLead
  <2>1. Leads(v.file, v.symbol, v.from)
    BY DEF GrepInv, ViewsTrue
  <2> QED BY <2>1 DEF Leads, Declared
<1> QED BY <1>1 DEF GrepInv, AnswerLeads

-----------------------------------------------------------------------------
(* The session.                                                            *)

\* The inductive invariant.
SearchInv == ProjectTyped /\ RetrievalInv /\ GrepInv

\* It holds at the beginning of a session.
LEMMA InitFound == Init => SearchInv
<1> SUFFICES ASSUME Init PROVE SearchInv
  OBVIOUS
<1>1. ProjectTyped
  BY SymbolIndexAssumption DEF Init, ProjectInit, ProjectTyped, SymbolIndexAssumption, Gone
<1>2. RetrievalInv
  <2>1. /\ walked = FALSE /\ pc = "idle" /\ candidates = {} /\ kinds = <<>> /\ pending = {}
        /\ nodes = {} /\ answer = {} /\ looked = NoMap /\ reranked = FALSE /\ map = NoMap
    BY DEF Init, RetrievalInit, ProjectInit
  <2>2. IsFiniteSet({}) /\ Cardinality({}) = 0
    BY FS_EmptySet
  <2>3. Listed
    <3>1. RetrievalTypeOK
      BY <2>1, <2>2, Limits DEF RetrievalTypeOK
    <3> QED BY <2>1, <2>2, <3>1 DEF Listed
  <2>4. LookedUp /\ Accounted
    BY <2>1 DEF LookedUp, Accounted
  <2>5. SlotsDefended
    BY <2>1 DEF SlotsDefended, ViewKept, NoFileCrowdsOut
  <2> QED BY <2>3, <2>4, <2>5 DEF RetrievalInv
<1>3. GrepInv
  <2>1. /\ gpc = "idle" /\ given = NoMap /\ runs = <<>> /\ past = {} /\ found = NotFound
        /\ refusal = "none" /\ began = disk
    BY DEF Init, GrepInit
  <2>2. request \in Requests
    BY GrepAssumption DEF Init, GrepInit, GrepAssumption
  <2>3. found.matches = <<>> /\ found.views = {} /\ found.total = 0 /\ Len(found.matches) = 0
    BY <2>1 DEF NotFound
  <2>4. Cardinality(found.views) <= ViewLimit
    BY <2>3, FS_EmptySet, GrepAssumption DEF GrepAssumption
  <2>5. DOMAIN runs = {}
    BY <2>1
  <2>6. GrepTypeOK
    BY <2>1, <2>2, <2>3, <2>4, <2>5 DEF GrepTypeOK
  <2>7. GrepTyped
    <3>1. GivenTyped
      BY <2>1 DEF GivenTyped
    <3>2. began \in [Files -> 1 .. Gone] /\ \A f \in Files : began[f] <= disk[f]
      BY <1>1, <2>1, Limits DEF ProjectTyped
    <3>3. \A i \in DOMAIN runs : Len(runs[i]) <= Len(Modes(request.patterns[i]))
      BY <2>5
    <3>4. found.total \in Nat
      BY <2>3
    <3> QED BY <2>1, <2>6, <3>1, <3>2, <3>3, <3>4 DEF GrepTyped
  <2>8. RunsTrue /\ EmptyTrue /\ PastTrue /\ RepeatedTrue /\ ViewsTrue
    BY <2>1, <2>3, <2>5 DEF RunsTrue, EmptyTrue, PastTrue, RepeatedTrue, ViewsTrue
  <2>9. DefinitionShown
    BY <2>1 DEF DefinitionShown
  <2> QED BY <2>7, <2>8, <2>9 DEF GrepInv
<1> QED BY <1>1, <1>2, <1>3 DEF SearchInv

\* A step keeps it.
LEMMA NextKeeps ==
  ASSUME SearchInv, [Next]_vars
  PROVE  SearchInv'
<1>1. ProjectTyped /\ RetrievalInv /\ GrepInv
  BY DEF SearchInv
<1>2. ASSUME ProjectTyped', Newer, UNCHANGED <<retrieval, grep>>
      PROVE  SearchInv'
  BY <1>1, <1>2, RetrievalStays, GrepStays DEF SearchInv
<1>3. CASE UNCHANGED vars
  <2>1. UNCHANGED project /\ UNCHANGED <<retrieval, grep>>
    BY <1>3 DEF vars
  <2> QED BY <1>1, <1>2, <2>1, ProjectSame
<1>4. CASE ProjectChanges
  <2>1. ProjectNext /\ UNCHANGED <<retrieval, grep>>
    BY <1>4 DEF ProjectChanges
  <2> QED BY <1>1, <1>2, <2>1, ProjectKept
<1>5. CASE CodebaseRetrieve
  <2>1. (Ask \/ RetrievalStep) /\ UNCHANGED project /\ UNCHANGED grep
    BY <1>5 DEF CodebaseRetrieve
  <2>2. ProjectTyped' /\ Newer
    BY <1>1, <2>1, ProjectSame
  <2>3. RetrievalInv'
    BY <1>1, <2>1, <2>2, RetrievalKeeps
  <2>4. GrepInv'
    BY <1>1, <2>1, <2>2, GrepStays
  <2> QED BY <2>2, <2>3, <2>4 DEF SearchInv
<1>6. CASE SearchText
  <2>1. (AskGrep \/ GrepStep) /\ UNCHANGED project /\ UNCHANGED retrieval
    BY <1>6 DEF SearchText
  <2>2. ProjectTyped' /\ Newer
    BY <1>1, <2>1, ProjectSame
  <2>3. RetrievalInv'
    BY <1>1, <2>1, <2>2, RetrievalStays
  <2>4. GrepInv'
    BY <1>1, <2>1, GrepKeeps
  <2> QED BY <2>2, <2>3, <2>4 DEF SearchInv
<1> QED BY <1>3, <1>4, <1>5, <1>6 DEF Next

\* The inductive invariant: what a call of either tool has read, kept and shown so
\* far, whatever happens to the files and the map in between.
THEOREM SearchInvariant == Spec => []SearchInv
<1>1. Init => SearchInv
  BY InitFound
<1>2. SearchInv /\ [Next]_vars => SearchInv'
  BY NextKeeps
<1> QED BY <1>1, <1>2, PTL DEF Spec

\* The state is well typed, and the lists of both tools keep their limits.
THEOREM SearchTypeCorrect == Spec => []SearchTypeOK
<1>1. SearchInv => SearchTypeOK
  BY DEF SearchInv, SearchTypeOK, RetrievalInv, Listed, GrepInv, GrepTyped
<1> QED BY <1>1, SearchInvariant, PTL

\* When codebase_retrieve shows no place, what matched lies in deleted files; when
\* grep_search finds nothing, or its repetition is refused for that, each pattern
\* was absent from each file at some time.
THEOREM EmptyAnswersTrue == Spec => []EmptyIsTrue
<1>1. SearchInv => EmptyIsTrue
  BY EmptyAnswer, NothingFound DEF SearchInv, EmptyIsTrue
<1> QED BY <1>1, SearchInvariant, PTL

\* In a task about SQL views the reranker pushes neither the last view nor the last
\* query logic out of the answer, and no file crowds out another.
THEOREM SlotsAreDefended == Spec => []SlotsDefended
<1>1. SearchInv => SlotsDefended
  BY DEF SearchInv, RetrievalInv
<1> QED BY <1>1, SearchInvariant, PTL

\* An answer of grep_search shows the definition of its word, however much was cut,
\* and its views lead to symbols.
THEOREM AnswersLead == Spec => []AnswerLeads
<1>1. SearchInv => AnswerLeads
  BY AnswerShows DEF SearchInv
<1> QED BY <1>1, SearchInvariant, PTL
=============================================================================
