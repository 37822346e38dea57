-------------------------- MODULE FiniteInduction --------------------------
(***************************************************************************)
(* Induction over sets of numbers, for the proofs about sequences and about *)
(* functions defined by recursion over a prefix of the naturals.  The       *)
(* statements range over sets and functions only, so that a prover can      *)
(* instantiate them.                                                        *)
(***************************************************************************)
EXTENDS Integers, FiniteSets, SequencesExt, Selections, FiniteSetTheorems,
        SequenceTheorems, TLAPS

\* A set of naturals has a least element: the smaller of two numbers has the
\* smaller initial segment, and inclusion of finite sets is well-founded.
LEMMA LeastNumber ==
  ASSUME NEW S \in SUBSET Nat, S # {}
  PROVE  \E m \in S : \A n \in S : m <= n
<1> DEFINE T == {0 .. n : n \in S}
<1>1. T \subseteq FiniteSubsetsOf(Nat) /\ T # {}
  <2>1. \A n \in S : IsFiniteSet(0 .. n) /\ 0 .. n \subseteq Nat
    BY FS_Interval
  <2> QED BY <2>1 DEF FiniteSubsetsOf
<1>2. \E x \in T : \A y \in T : ~(<<y, x>> \in StrictSubsetOrdering(Nat))
  <2> HIDE DEF T
  <2> QED BY <1>1, FS_StrictSubsetOrderingWellFounded, WFMin
<1>3. PICK m \in S : \A n \in S : ~(<<0 .. n, 0 .. m>> \in StrictSubsetOrdering(Nat))
  BY <1>2
<1>4. ASSUME NEW n \in S
      PROVE  m <= n
  <2> DEFINE A == 0 .. n
             B == 0 .. m
  <2>1. SUFFICES ASSUME n < m
                 PROVE  FALSE
    OBVIOUS
  <2>2. A \in SUBSET Nat /\ B \in SUBSET Nat /\ A \subseteq B /\ A # B
    <3>1. m \in B /\ m \notin A
      BY <2>1
    <3> QED BY <2>1, <3>1
  <2>3. <<A, B>> \notin StrictSubsetOrdering(Nat)
    BY <1>3
  <2> HIDE DEF A, B
  <2> QED BY <2>2, <2>3 DEF StrictSubsetOrdering
<1> QED BY <1>4

\* The last of some positions.
LEMMA LastNumber ==
  ASSUME NEW N \in Nat, NEW S \in SUBSET (0 .. N), S # {}
  PROVE  \E k \in S : \A l \in S : l <= k
<1> DEFINE T == {N - k : k \in S}
<1>1. T \in SUBSET Nat /\ T # {}
  <2>1. \A k \in S : k \in 0 .. N /\ N - k \in Nat
    OBVIOUS
  <2> QED BY <2>1
<1>2. PICK m \in T : \A n \in T : m <= n
  <2> HIDE DEF T
  <2> QED BY <1>1, LeastNumber
<1>3. PICK k \in S : m = N - k
  BY <1>2
<1>4. \A l \in S : N - k <= N - l /\ l \in Nat /\ k \in Nat
  BY <1>2, <1>3
<1> HIDE DEF T
<1> QED BY <1>3, <1>4

\* What holds at 0 and is passed on up to N holds of every number up to N.
LEMMA PrefixInduction ==
  ASSUME NEW N \in Nat, NEW P, 0 \in P,
         \A n \in 0 .. N - 1 : n \in P => n + 1 \in P
  PROVE  0 .. N \subseteq P
<1> DEFINE Bad == (0 .. N) \ P
<1>1. SUFFICES ASSUME Bad # {}
               PROVE  FALSE
  OBVIOUS
<1>2. Bad \in SUBSET Nat
  OBVIOUS
<1>3. PICK m \in Bad : \A n \in Bad : m <= n
  <2> HIDE DEF Bad
  <2> QED BY <1>1, <1>2, LeastNumber
<1>4. m # 0 /\ m - 1 \in 0 .. N - 1 /\ m - 1 \notin Bad
  BY <1>3
<1> QED BY <1>3, <1>4

\* g starts with b and takes N steps of F.
Unfolds(g, N, S, b, F) ==
  /\ g \in [0 .. N -> S]
  /\ g[0] = b
  /\ \A n \in 1 .. N : g[n] = F[<<n, g[n - 1]>>]

\* A recursion over 0 .. N whose step is a function has a solution.
LEMMA RecursionExists ==
  ASSUME NEW N \in Nat, NEW S, NEW b \in S, NEW F \in [(1 .. N) \X S -> S]
  PROVE  \E g : Unfolds(g, N, S, b, F)
<1> DEFINE Solves(g, k) == /\ g[0] = b
                           /\ \A n \in 1 .. k : g[n] = F[<<n, g[n - 1]>>]
           P == {k \in 0 .. N : \E g \in [0 .. k -> S] : Solves(g, k)}
<1>1. 0 \in P
  <2> DEFINE h == [i \in 0 .. 0 |-> b]
  <2>1. h \in [0 .. 0 -> S] /\ Solves(h, 0)
    OBVIOUS
  <2> HIDE DEF h
  <2> QED BY <2>1
<1>2. ASSUME NEW k \in 0 .. N - 1, k \in P
      PROVE  k + 1 \in P
  <2>1. PICK g \in [0 .. k -> S] : Solves(g, k)
    BY <1>2
  <2> DEFINE next == F[<<k + 1, g[k]>>]
             h == [i \in 0 .. k + 1 |-> IF i = k + 1 THEN next ELSE g[i]]
  <2>2. next \in S
    BY <2>1
  <2>3. h \in [0 .. k + 1 -> S]
    BY <2>2
  <2>4. h[0] = b
    BY <2>1
  <2>5. ASSUME NEW n \in 1 .. k + 1
        PROVE  h[n] = F[<<n, h[n - 1]>>]
    <3>1. CASE n = k + 1
      <4>1. n - 1 = k /\ k \in 0 .. k + 1 /\ k # k + 1 /\ n \in 0 .. k + 1
        BY <3>1
      <4>2. h[n] = next /\ h[n - 1] = g[k]
        BY <3>1, <4>1
      <4> QED BY <3>1, <4>2
    <3>2. CASE n # k + 1
      <4>1. n \in 1 .. k /\ n - 1 \in 0 .. k /\ n - 1 # k + 1 /\ n \in 0 .. k + 1
            /\ n - 1 \in 0 .. k + 1
        BY <3>2
      <4>2. h[n] = g[n] /\ h[n - 1] = g[n - 1]
        BY <3>2, <4>1
      <4> HIDE DEF h
      <4> QED BY <2>1, <4>1, <4>2
    <3> QED BY <3>1, <3>2
  <2> HIDE DEF h, next
  <2> QED BY <2>3, <2>4, <2>5
<1> HIDE DEF P
<1>3. 0 .. N \subseteq P
  BY <1>1, <1>2, PrefixInduction
<1>4. N \in P
  BY <1>3
<1> QED BY <1>4 DEF P, Unfolds

\* A function that takes these steps as long as it stays in S, does.
LEMMA RecursionUnfolds ==
  ASSUME NEW N \in Nat, NEW S, NEW b \in S, NEW F \in [(1 .. N) \X S -> S], NEW h,
         h = [n \in 0 .. N |-> h[n]], h[0] = b,
         \A n \in 1 .. N : h[n - 1] \in S => h[n] = F[<<n, h[n - 1]>>]
  PROVE  Unfolds(h, N, S, b, F)
<1> DEFINE P == {n \in 0 .. N : h[n] \in S}
<1>1. 0 \in P
  OBVIOUS
<1>2. ASSUME NEW n \in 0 .. N - 1, n \in P
      PROVE  n + 1 \in P
  <2>1. PICK m \in 1 .. N : m = n + 1 /\ m - 1 = n /\ m \in 0 .. N
    OBVIOUS
  <2>2. h[m - 1] \in S
    BY <1>2, <2>1
  <2>3. h[m] = F[<<m, h[m - 1]>>]
    BY <2>2
  <2>4. <<m, h[m - 1]>> \in (1 .. N) \X S
    BY <2>2
  <2>5. h[m] \in S
    BY <2>3, <2>4
  <2> QED BY <2>1, <2>5
<1> HIDE DEF P
<1>3. 0 .. N \subseteq P
  BY <1>1, <1>2, PrefixInduction
<1>4. \A n \in 0 .. N : h[n] \in S
  BY <1>3 DEF P
<1>5. h \in [0 .. N -> S]
  BY <1>4
<1>6. \A n \in 1 .. N : n - 1 \in 0 .. N
  OBVIOUS
<1> QED BY <1>4, <1>5, <1>6 DEF Unfolds

-----------------------------------------------------------------------------
(* Selections of sequences.                                                *)

\* g makes the selection member by member.
Selecting(g, q, S, T) ==
  /\ g \in [0 .. Len(q) -> Seq(T)]
  /\ g[0] = <<>>
  /\ \A n \in 1 .. Len(q) :
       g[n] = IF q[n] \in S THEN Append(g[n - 1], q[n]) ELSE g[n - 1]
  /\ Only(q, S) = g[Len(q)]

\* The recursion of Only makes it.
LEMMA OnlyUnfolds ==
  ASSUME NEW T, NEW q \in Seq(T), NEW S
  PROVE  \E g : Selecting(g, q, S, T)
<1> DEFINE N == Len(q)
           Step(n, r) == IF q[n] \in S THEN Append(r, q[n]) ELSE r
           F == [p \in (1 .. N) \X Seq(T) |-> Step(p[1], p[2])]
           Body(h) == [n \in 0 .. Len(q) |->
                         IF n = 0 THEN <<>> ELSE IF q[n] \in S THEN Append(h[n - 1], q[n])
                         ELSE h[n - 1]]
           kept == CHOOSE h : h = Body(h)
<1>1. N \in Nat /\ <<>> \in Seq(T) /\ \A n \in 1 .. N : q[n] \in T
  OBVIOUS
<1>2. F \in [(1 .. N) \X Seq(T) -> Seq(T)]
  BY <1>1
<1>3. Only(q, S) = kept[N]
  BY DEF Only
<1>4. PICK g : Unfolds(g, N, Seq(T), <<>>, F)
  <2> HIDE DEF F, N
  <2> QED BY <1>1, <1>2, RecursionExists
<1>5. g = Body(g)
  <2>1. g \in [0 .. N -> Seq(T)] /\ g[0] = <<>>
    BY <1>4 DEF Unfolds
  <2>2. ASSUME NEW n \in 1 .. N
        PROVE  g[n] = Step(n, g[n - 1])
    <3>1. g[n] = F[<<n, g[n - 1]>>]
      BY <1>4 DEF Unfolds
    <3>2. n - 1 \in 0 .. N
      BY <1>1
    <3>3. <<n, g[n - 1]>> \in (1 .. N) \X Seq(T)
      BY <2>1, <3>2
    <3> QED BY <3>1, <3>3
  <2>3. \A n \in 0 .. N : n = 0 \/ n \in 1 .. N
    BY <1>1
  <2> QED BY <2>1, <2>2, <2>3
<1>6. kept = Body(kept)
  BY <1>5
<1> HIDE DEF kept
<1>7. kept = [n \in 0 .. N |-> kept[n]] /\ kept[0] = <<>>
  BY <1>1, <1>6
<1>8. ASSUME NEW n \in 1 .. N
      PROVE  kept[n] = Step(n, kept[n - 1])
  <2>1. n \in 0 .. Len(q) /\ n # 0
    BY <1>1
  <2> QED BY <1>6, <2>1
<1>9. Unfolds(kept, N, Seq(T), <<>>, F)
  <2>1. \A n \in 1 .. N : kept[n - 1] \in Seq(T) => kept[n] = F[<<n, kept[n - 1]>>]
    BY <1>8
  <2> HIDE DEF F, N
  <2> QED BY <1>1, <1>2, <1>7, <2>1, RecursionUnfolds
<1>10. kept \in [0 .. N -> Seq(T)]
  BY <1>9 DEF Unfolds
<1>11. Selecting(kept, q, S, T)
  BY <1>3, <1>7, <1>8, <1>10 DEF Selecting
<1> QED BY <1>11

\* A sequence with one more member.
LEMMA AppendSet ==
  ASSUME NEW T, NEW q \in Seq(T), NEW e \in T
  PROVE  Append(q, e) \in Seq(T) /\ ToSet(Append(q, e)) = ToSet(q) \cup {e}
<1> DEFINE r == Append(q, e)
<1>1. r \in Seq(T) /\ DOMAIN r = 1 .. Len(q) + 1 /\ Len(q) \in Nat
  OBVIOUS
<1>2. r[Len(q) + 1] = e /\ \A i \in 1 .. Len(q) : r[i] = q[i]
  OBVIOUS
<1>3. 1 .. Len(q) + 1 = 1 .. Len(q) \cup {Len(q) + 1}
  BY <1>1
<1> HIDE DEF r
<1>4. ToSet(r) = {q[i] : i \in 1 .. Len(q)} \cup {e}
  BY <1>1, <1>2, <1>3 DEF ToSet
<1>5. ToSet(q) = {q[i] : i \in 1 .. Len(q)}
  BY DEF ToSet
<1> QED BY <1>1, <1>4, <1>5 DEF r

\* It is what of the sequence is in the set.
LEMMA OnlySelects ==
  ASSUME NEW T, NEW q \in Seq(T), NEW S
  PROVE  /\ Only(q, S) \in Seq(T)
         /\ ToSet(Only(q, S)) = ToSet(q) \cap S
         /\ Len(Only(q, S)) <= Len(q)
<1> DEFINE N == Len(q)
<1>0. PICK g : Selecting(g, q, S, T)
  BY OnlyUnfolds
<1>1. /\ g \in [0 .. N -> Seq(T)] /\ g[0] = <<>> /\ Only(q, S) = g[N]
      /\ \A n \in 1 .. N :
           g[n] = IF q[n] \in S THEN Append(g[n - 1], q[n]) ELSE g[n - 1]
  BY <1>0 DEF Selecting
<1> DEFINE P == {n \in 0 .. N : /\ ToSet(g[n]) = {q[i] : i \in 1 .. n} \cap S
                                /\ Len(g[n]) <= n}
<1>2. N \in Nat
  OBVIOUS
<1>3. 0 \in P
  BY <1>1, <1>2 DEF ToSet
<1>4. ASSUME NEW m \in 0 .. N - 1, m \in P
      PROVE  m + 1 \in P
  <2> DEFINE n == m + 1
  <2>1. n \in 1 .. N /\ n - 1 = m /\ m \in 0 .. N
    BY <1>2
  <2>2. g[m] \in Seq(T) /\ g[n] \in Seq(T) /\ q[n] \in T
    BY <1>1, <2>1
  <2>3. {q[i] : i \in 1 .. n} = {q[i] : i \in 1 .. m} \cup {q[n]}
    BY <2>1
  <2>4. g[n] = IF q[n] \in S THEN Append(g[m], q[n]) ELSE g[m]
    BY <1>1, <2>1
  <2>5. ToSet(g[m]) = {q[i] : i \in 1 .. m} \cap S /\ Len(g[m]) <= m
    BY <1>4
  <2>6. CASE q[n] \in S
    <3>1. g[n] = Append(g[m], q[n])
      BY <2>4, <2>6
    <3>2. ToSet(g[n]) = ToSet(g[m]) \cup {q[n]} /\ Len(g[n]) = Len(g[m]) + 1
      BY <2>2, <3>1, AppendSet
    <3> QED BY <2>1, <2>2, <2>3, <2>5, <2>6, <3>2
  <2>7. CASE q[n] \notin S
    BY <2>1, <2>2, <2>3, <2>4, <2>5, <2>7
  <2> QED BY <2>6, <2>7
<1> HIDE DEF P
<1>5. 0 .. N \subseteq P
  BY <1>2, <1>3, <1>4, PrefixInduction
<1>6. N \in P
  BY <1>2, <1>5
<1>7. ToSet(q) = {q[i] : i \in 1 .. N}
  BY DEF ToSet
<1> QED BY <1>1, <1>6, <1>7 DEF P
\* A selection of a sequence without repetitions has none.
LEMMA OnlyInjective ==
  ASSUME NEW T, NEW q \in Seq(T), NEW S,
         \A i, j \in 1 .. Len(q) : q[i] = q[j] => i = j
  PROVE  \A i, j \in 1 .. Len(Only(q, S)) : Only(q, S)[i] = Only(q, S)[j] => i = j
<1> DEFINE N == Len(q)
<1>0. PICK g : Selecting(g, q, S, T)
  BY OnlyUnfolds
<1>1. /\ g \in [0 .. N -> Seq(T)] /\ g[0] = <<>> /\ Only(q, S) = g[N]
      /\ \A n \in 1 .. N :
           g[n] = IF q[n] \in S THEN Append(g[n - 1], q[n]) ELSE g[n - 1]
  BY <1>0 DEF Selecting
<1> DEFINE P == {n \in 0 .. N :
                   /\ \A i \in 1 .. Len(g[n]) : \E k \in 1 .. n : g[n][i] = q[k]
                   /\ \A i, j \in 1 .. Len(g[n]) : g[n][i] = g[n][j] => i = j}
<1>2. N \in Nat
  OBVIOUS
<1>3. 0 \in P
  BY <1>1, <1>2
<1>4. ASSUME NEW m \in 0 .. N - 1, m \in P
      PROVE  m + 1 \in P
  <2> DEFINE n == m + 1
  <2>1. n \in 1 .. N /\ n - 1 = m /\ m \in 0 .. N /\ n \in 0 .. N
    BY <1>2
  <2>2. g[m] \in Seq(T) /\ g[n] \in Seq(T) /\ q[n] \in T
    BY <1>1, <2>1
  <2>3. g[n] = IF q[n] \in S THEN Append(g[m], q[n]) ELSE g[m]
    BY <1>1, <2>1
  <2>4. /\ \A i \in 1 .. Len(g[m]) : \E k \in 1 .. m : g[m][i] = q[k]
        /\ \A i, j \in 1 .. Len(g[m]) : g[m][i] = g[m][j] => i = j
    BY <1>4
  <2>5. CASE q[n] \notin S
    BY <2>1, <2>3, <2>4, <2>5
  <2>6. CASE q[n] \in S
    <3> DEFINE r == Append(g[m], q[n])
    <3>1. g[n] = r
      BY <2>3, <2>6
    <3>2. /\ Len(r) = Len(g[m]) + 1 /\ r[Len(g[m]) + 1] = q[n] /\ Len(g[m]) \in Nat
          /\ \A i \in 1 .. Len(g[m]) : r[i] = g[m][i]
      BY <2>2
    <3>3. \A i \in 1 .. Len(g[m]) : r[i] # q[n]
      BY <2>1, <2>4, <3>2
    <3> HIDE DEF r
    <3>4. \A i \in 1 .. Len(r) : i \in 1 .. Len(g[m]) \/ i = Len(g[m]) + 1
      BY <3>2
    <3>5. \A i \in 1 .. Len(r) : \E k \in 1 .. n : r[i] = q[k]
      BY <2>1, <2>4, <3>2, <3>4
    <3>6. \A i, j \in 1 .. Len(r) : r[i] = r[j] => i = j
      BY <2>4, <3>2, <3>3, <3>4
    <3> QED BY <2>1, <3>1, <3>5, <3>6
  <2> QED BY <2>5, <2>6
<1> HIDE DEF P
<1>5. 0 .. N \subseteq P
  BY <1>2, <1>3, <1>4, PrefixInduction
<1>6. N \in P
  BY <1>2, <1>5
<1> QED BY <1>1, <1>6 DEF P

\* A selection that takes the first member begins with it.
LEMMA OnlyFirst ==
  ASSUME NEW T, NEW q \in Seq(T), NEW S, q # <<>>, q[1] \in S
  PROVE  Only(q, S) # <<>> /\ Only(q, S)[1] = q[1]
<1> DEFINE N == Len(q)
<1>0. PICK g : Selecting(g, q, S, T)
  BY OnlyUnfolds
<1>1. /\ g \in [0 .. N -> Seq(T)] /\ g[0] = <<>> /\ Only(q, S) = g[N]
      /\ \A n \in 1 .. N :
           g[n] = IF q[n] \in S THEN Append(g[n - 1], q[n]) ELSE g[n - 1]
  BY <1>0 DEF Selecting
<1>2. N \in Nat \ {0} /\ \A n \in 1 .. N : q[n] \in T
  OBVIOUS
<1> DEFINE P == {n \in 0 .. N : n = 0 \/ (Len(g[n]) # 0 /\ g[n][1] = q[1])}
<1>3. 0 \in P
  BY <1>2
<1>4. ASSUME NEW m \in 0 .. N - 1, m \in P
      PROVE  m + 1 \in P
  <2> DEFINE n == m + 1
  <2>1. n \in 1 .. N /\ n - 1 = m /\ m \in 0 .. N /\ n \in 0 .. N
    BY <1>2
  <2>2. g[m] \in Seq(T) /\ q[n] \in T
        /\ g[n] = IF q[n] \in S THEN Append(g[m], q[n]) ELSE g[m]
    BY <1>1, <1>2, <2>1
  <2>3. CASE m = 0
    <3>1. n = 1 /\ g[n] = Append(<<>>, q[1])
      BY <1>1, <2>1, <2>2, <2>3
    <3>2. Append(<<>>, q[1]) = <<q[1]>> /\ Len(<<q[1]>>) = 1 /\ <<q[1]>>[1] = q[1]
      OBVIOUS
    <3> HIDE DEF n
    <3> QED BY <2>1, <3>1, <3>2 DEF n
  <2>4. CASE m # 0
    <3>1. Len(g[m]) # 0 /\ g[m][1] = q[1]
      BY <1>4, <2>4
    <3> HIDE DEF n
    <3>2. Len(Append(g[m], q[n])) # 0 /\ Append(g[m], q[n])[1] = g[m][1]
      BY <2>2, <3>1
    <3> QED BY <2>1, <2>2, <3>1, <3>2 DEF n
  <2> QED BY <2>3, <2>4
<1> HIDE DEF P
<1>5. 0 .. N \subseteq P
  BY <1>2, <1>3, <1>4, PrefixInduction
<1>6. N \in P /\ Len(<<>>) = 0
  BY <1>2, <1>5
<1> QED BY <1>1, <1>2, <1>6 DEF P

\* What is at some places of a sequence is a shorter one, and begins as it does
\* when the first place is one of them.
LEMMA OnlyAtSelects ==
  ASSUME NEW T, NEW q \in Seq(T), NEW P
  PROVE  /\ OnlyAt(q, P) \in Seq(T) /\ Len(OnlyAt(q, P)) <= Len(q)
         /\ q # <<>> /\ 1 \in P => OnlyAt(q, P) # <<>> /\ OnlyAt(q, P)[1] = q[1]
<1> DEFINE N == Len(q)
           places == [n \in DOMAIN q |-> n]
           kept == Only(places, P)
<1>1. N \in Nat /\ DOMAIN q = 1 .. N /\ \A n \in 1 .. N : q[n] \in T
  OBVIOUS
<1>2. places \in Seq(1 .. N) /\ Len(places) = N /\ \A n \in 1 .. N : places[n] = n
  BY <1>1
<1> HIDE DEF places
<1>3. kept \in Seq(1 .. N) /\ Len(kept) <= N
  BY <1>2, OnlySelects
<1>4. q # <<>> /\ 1 \in P => kept # <<>> /\ kept[1] = 1
  <2>1. SUFFICES ASSUME q # <<>>, 1 \in P
                 PROVE  kept # <<>> /\ kept[1] = 1
    OBVIOUS
  <2>2. N # 0 /\ 1 \in 1 .. N
    BY <1>1, <2>1
  <2>3. places # <<>> /\ places[1] = 1
    BY <1>2, <2>2
  <2> HIDE DEF N
  <2> QED BY <1>2, <2>1, <2>3, OnlyFirst
<1>5. OnlyAt(q, P) = [n \in DOMAIN kept |-> q[kept[n]]]
  BY DEF OnlyAt, places
<1> HIDE DEF kept
<1> DEFINE r == [n \in 1 .. Len(kept) |-> q[kept[n]]]
<1>6. Len(kept) \in Nat /\ DOMAIN kept = 1 .. Len(kept) /\ \A n \in 1 .. Len(kept) : kept[n] \in 1 .. N
  BY <1>3
<1>7. r \in Seq(T) /\ Len(r) = Len(kept) /\ \A n \in 1 .. Len(kept) : r[n] = q[kept[n]]
  BY <1>1, <1>6
<1>8. OnlyAt(q, P) = r
  BY <1>5, <1>6
<1> HIDE DEF r
<1>9. kept # <<>> => 1 \in 1 .. Len(kept)
  BY <1>3
<1>10. q # <<>> /\ 1 \in P => r # <<>> /\ r[1] = q[1]
  BY <1>4, <1>6, <1>7, <1>9
<1> QED BY <1>3, <1>7, <1>8, <1>10

-----------------------------------------------------------------------------
(* Sequences of sequences, joined.                                         *)

\* o says for each place of f which place of which of the first n members of q it
\* comes from.
ComesFrom(f, o, q, n) ==
  /\ o \in [1 .. Len(f) -> (1 .. n) \X Nat]
  /\ \A i \in 1 .. Len(f) : o[i][2] \in 1 .. Len(q[o[i][1]]) /\ f[i] = q[o[i][1]][o[i][2]]
  /\ \A i, j \in 1 .. Len(f) : o[i] = o[j] => i = j
  /\ \A m \in 1 .. n : \A k \in 1 .. Len(q[m]) : \E i \in 1 .. Len(f) : o[i] = <<m, k>>

\* One more member is joined.
LEMMA OriginsStep ==
  ASSUME NEW T, NEW q \in Seq(Seq(T)), NEW n \in 1 .. Len(q), NEW f \in Seq(T), NEW o,
         ComesFrom(f, o, q, n - 1)
  PROVE  \E p : ComesFrom(f \o q[n], p, q, n)
<1> DEFINE h == f \o q[n]
           L == Len(f)
           p == [i \in 1 .. Len(h) |-> IF i <= L THEN o[i] ELSE <<n, i - L>>]
<1>1. q[n] \in Seq(T) /\ L \in Nat /\ Len(q[n]) \in Nat /\ n \in Nat /\ n - 1 \in Nat
  OBVIOUS
<1>2. /\ Len(h) = L + Len(q[n])
      /\ \A i \in 1 .. L : h[i] = f[i]
      /\ \A i \in L + 1 .. Len(h) : h[i] = q[n][i - L] /\ i - L \in 1 .. Len(q[n])
  BY <1>1
<1> HIDE DEF h
<1>3. \A i \in 1 .. Len(h) : i \in 1 .. L \/ i \in L + 1 .. Len(h)
  BY <1>1, <1>2
<1>4. /\ \A i \in 1 .. L : i \in 1 .. Len(h) /\ p[i] = o[i]
      /\ \A i \in L + 1 .. Len(h) : i \in 1 .. Len(h) /\ p[i] = <<n, i - L>>
  BY <1>1, <1>2
<1>5. \A i \in 1 .. L : o[i] \in (1 .. n - 1) \X Nat /\ o[i][1] \in 1 .. n - 1
  BY DEF ComesFrom
<1>6. ASSUME NEW i \in 1 .. Len(h)
      PROVE  /\ p[i] \in (1 .. n) \X Nat
             /\ p[i][2] \in 1 .. Len(q[p[i][1]]) /\ h[i] = q[p[i][1]][p[i][2]]
  <2>1. CASE i \in 1 .. L
    <3>1. o[i] \in (1 .. n) \X Nat
      BY <1>1, <1>5, <2>1
    <3>2. o[i][2] \in 1 .. Len(q[o[i][1]]) /\ f[i] = q[o[i][1]][o[i][2]]
      BY <2>1 DEF ComesFrom
    <3> QED BY <1>2, <1>4, <2>1, <3>1, <3>2
  <2>2. CASE i \in L + 1 .. Len(h)
    <3>1. p[i] = <<n, i - L>> /\ i - L \in 1 .. Len(q[n]) /\ h[i] = q[n][i - L]
      BY <1>2, <1>4, <2>2
    <3> HIDE DEF p
    <3> QED BY <1>1, <3>1
  <2> QED BY <1>3, <2>1, <2>2
<1>7. p \in [1 .. Len(h) -> (1 .. n) \X Nat]
  <2>1. p = [i \in 1 .. Len(h) |-> p[i]]
    OBVIOUS
  <2> HIDE DEF p
  <2> QED BY <1>6, <2>1
<1>8. ASSUME NEW i \in 1 .. Len(h), NEW j \in 1 .. Len(h), p[i] = p[j]
      PROVE  i = j
  <2>1. CASE i \in 1 .. L /\ j \in 1 .. L
    BY <1>4, <1>8, <2>1 DEF ComesFrom
  <2>2. CASE i \in L + 1 .. Len(h) /\ j \in L + 1 .. Len(h)
    <3>1. <<n, i - L>> = <<n, j - L>>
      BY <1>4, <1>8, <2>2
    <3> QED BY <1>1, <2>2, <3>1
  <2>3. ASSUME NEW a \in 1 .. L, NEW b \in L + 1 .. Len(h)
        PROVE  p[a] # p[b]
    <3>1. p[a] = o[a] /\ p[b] = <<n, b - L>> /\ o[a][1] \in 1 .. n - 1
      BY <1>4, <1>5
    <3> HIDE DEF p
    <3> QED BY <1>1, <3>1
  <2> HIDE DEF p
  <2> QED BY <1>3, <1>8, <2>1, <2>2, <2>3
<1>9. ASSUME NEW m \in 1 .. n, NEW k \in 1 .. Len(q[m])
      PROVE  \E i \in 1 .. Len(h) : p[i] = <<m, k>>
  <2>1. CASE m = n
    <3>1. L + k \in L + 1 .. Len(h) /\ (L + k) - L = k
      BY <1>1, <1>2, <2>1
    <3>2. L + k \in 1 .. Len(h) /\ p[L + k] = <<m, k>>
      BY <1>4, <2>1, <3>1
    <3> HIDE DEF p
    <3> QED BY <3>2
  <2>2. CASE m # n
    <3>1. m \in 1 .. n - 1
      BY <1>1, <2>2
    <3>2. PICK i \in 1 .. L : o[i] = <<m, k>>
      BY <3>1 DEF ComesFrom
    <3>3. i \in 1 .. Len(h) /\ p[i] = <<m, k>>
      BY <1>4, <3>2
    <3> HIDE DEF p
    <3> QED BY <3>3
  <2> QED BY <2>1, <2>2
<1> HIDE DEF p
<1>10. ComesFrom(h, p, q, n)
  BY <1>6, <1>7, <1>8, <1>9 DEF ComesFrom
<1> QED BY <1>10 DEF h

\* g joins the members one by one.
Joining(g, q, T) ==
  /\ g \in [0 .. Len(q) -> Seq(T)]
  /\ g[0] = <<>>
  /\ \A n \in 1 .. Len(q) : g[n] = g[n - 1] \o q[n]
  /\ FlattenSeq(q) = g[Len(q)]

\* The recursion of FlattenSeq does.
LEMMA FlattenUnfolds ==
  ASSUME NEW T, NEW q \in Seq(Seq(T))
  PROVE  \E g : Joining(g, q, T)
<1> DEFINE N == Len(q)
<1>1. N \in Nat /\ <<>> \in Seq(T) /\ \A n \in 1 .. N : q[n] \in Seq(T)
  OBVIOUS
<1>2. CASE N = 0
  <2>1. q = <<>> /\ FlattenSeq(q) = <<>> /\ Len(<<>>) = 0 /\ 1 .. 0 = {}
    BY <1>2 DEF FlattenSeq
  <2> DEFINE g == [n \in 0 .. 0 |-> <<>>]
  <2>2. g \in [0 .. 0 -> Seq(T)] /\ g[0] = <<>>
    OBVIOUS
  <2> HIDE DEF g
  <2>3. Joining(g, q, T)
    BY <1>2, <2>1, <2>2 DEF Joining
  <2> QED BY <2>3
<1>3. CASE N # 0
  <2> DEFINE F == [x \in (1 .. N) \X Seq(T) |-> x[2] \o q[x[1]]]
             Body(h) == [i \in 1 .. Len(q) |-> IF i = 1 THEN q[i] ELSE h[i - 1] \o q[i]]
             flat == CHOOSE h : h = Body(h)
             g == [n \in 0 .. N |-> IF n = 0 THEN <<>> ELSE flat[n]]
  <2>1. FlattenSeq(q) = flat[N]
    BY <1>3 DEF FlattenSeq
  <2>2. F \in [(1 .. N) \X Seq(T) -> Seq(T)]
    BY <1>1
  <2>3. PICK u : Unfolds(u, N, Seq(T), <<>>, F)
    <3> HIDE DEF F, N
    <3> QED BY <1>1, <2>2, RecursionExists
  <2>4. \A n \in 1 .. N : n - 1 \in 0 .. N /\ n \in 0 .. N
    BY <1>1
  <2>5. \A n \in 1 .. N : u[n] = u[n - 1] \o q[n]
    <3>1. ASSUME NEW n \in 1 .. N
          PROVE  u[n] = u[n - 1] \o q[n]
      <4>1. u[n] = F[<<n, u[n - 1]>>] /\ u[n - 1] \in Seq(T)
        BY <2>3, <2>4 DEF Unfolds
      <4>2. <<n, u[n - 1]>> \in (1 .. N) \X Seq(T)
        BY <4>1
      <4> QED BY <4>1, <4>2
    <3> QED BY <3>1
  <2>6. \A s \in Seq(T) : <<>> \o s = s
    BY ConcatEmptySeq
  <2>7. 1 \in 1 .. N /\ u[0] = <<>> /\ u[1] = q[1]
    <3>1. 1 \in 1 .. N /\ 1 - 1 = 0 /\ u[0] = <<>>
      BY <1>1, <1>3, <2>3 DEF Unfolds
    <3> QED BY <1>1, <2>5, <2>6, <3>1
  <2>8. \E h : h = Body(h)
    <3> DEFINE h == [i \in 1 .. N |-> u[i]]
    <3>1. ASSUME NEW i \in 1 .. N
          PROVE  h[i] = IF i = 1 THEN q[i] ELSE h[i - 1] \o q[i]
      <4>1. i # 1 => i - 1 \in 1 .. N
        BY <1>1
      <4> QED BY <2>5, <2>7, <4>1
    <3>2. h = Body(h)
      BY <3>1
    <3> HIDE DEF h
    <3> QED BY <3>2
  <2>9. flat = Body(flat)
    <3> HIDE DEF Body
    <3> QED BY <2>8
  <2> HIDE DEF flat
  <2>10. \A n \in 1 .. N : flat[n] = IF n = 1 THEN q[n] ELSE flat[n - 1] \o q[n]
    BY <2>9
  <2>11. g[0] = <<>> /\ \A n \in 1 .. N : g[n] = flat[n] /\ (n # 1 => g[n - 1] = flat[n - 1])
    BY <1>1
  <2>12. \A n \in 1 .. N : g[n - 1] \in Seq(T) => g[n] = F[<<n, g[n - 1]>>]
    <3>1. ASSUME NEW n \in 1 .. N, g[n - 1] \in Seq(T)
          PROVE  g[n] = g[n - 1] \o q[n]
      <4> HIDE DEF g
      <4>1. CASE n = 1
        <5>1. g[n] = q[n] /\ g[n - 1] = <<>> /\ q[n] \in Seq(T)
          BY <1>1, <2>10, <2>11, <4>1
        <5> QED BY <2>6, <5>1
      <4>2. CASE n # 1
        BY <2>10, <2>11, <4>2
      <4> QED BY <4>1, <4>2
    <3>2. ASSUME NEW n \in 1 .. N, g[n - 1] \in Seq(T)
          PROVE  F[<<n, g[n - 1]>>] = g[n - 1] \o q[n]
      <4> HIDE DEF g
      <4>1. <<n, g[n - 1]>> \in (1 .. N) \X Seq(T)
        BY <3>2
      <4> QED BY <4>1
    <3> HIDE DEF g, F
    <3> QED BY <3>1, <3>2
  <2>13. Unfolds(g, N, Seq(T), <<>>, F)
    <3>1. g = [n \in 0 .. N |-> g[n]]
      OBVIOUS
    <3> HIDE DEF g, F, N
    <3> QED BY <1>1, <2>2, <2>11, <2>12, <3>1, RecursionUnfolds
  <2> HIDE DEF g
  <2>14. g \in [0 .. N -> Seq(T)]
    BY <2>13 DEF Unfolds
  <2>15. \A n \in 1 .. N : g[n] = g[n - 1] \o q[n]
    <3>1. ASSUME NEW n \in 1 .. N
          PROVE  g[n] = g[n - 1] \o q[n]
      <4>1. g[n] = F[<<n, g[n - 1]>>] /\ g[n - 1] \in Seq(T)
        BY <2>4, <2>13, <2>14 DEF Unfolds
      <4>2. <<n, g[n - 1]>> \in (1 .. N) \X Seq(T)
        BY <4>1
      <4> QED BY <4>1, <4>2
    <3> QED BY <3>1
  <2>16. Joining(g, q, T)
    <3>1. g[N] = FlattenSeq(q)
      BY <1>1, <1>3, <2>1, <2>11
    <3> QED BY <2>11, <2>14, <2>15, <3>1 DEF Joining
  <2> QED BY <2>16
<1> QED BY <1>2, <1>3

\* What a joined sequence consists of.
LEMMA FlattenOrigins ==
  ASSUME NEW T, NEW q \in Seq(Seq(T))
  PROVE  FlattenSeq(q) \in Seq(T) /\ \E o : ComesFrom(FlattenSeq(q), o, q, Len(q))
<1> DEFINE N == Len(q)
<1>0. PICK g : Joining(g, q, T)
  BY FlattenUnfolds
<1>1. /\ N \in Nat
      /\ g \in [0 .. N -> Seq(T)] /\ g[0] = <<>> /\ FlattenSeq(q) = g[N]
      /\ \A n \in 1 .. N : g[n] = g[n - 1] \o q[n]
  <2>1. N \in Nat
    OBVIOUS
  <2> QED BY <1>0, <2>1, Zenon DEF Joining
<1> DEFINE P == {n \in 0 .. N : \E o : ComesFrom(g[n], o, q, n)}
<1>2. 0 \in P
  <2>1. Len(<<>>) = 0 /\ 1 .. 0 = {} /\ <<>> \in [1 .. 0 -> (1 .. 0) \X Nat]
    OBVIOUS
  <2>2. ComesFrom(<<>>, <<>>, q, 0)
    BY <2>1 DEF ComesFrom
  <2> QED BY <1>1, <2>2
<1>3. ASSUME NEW m \in 0 .. N - 1, m \in P
      PROVE  m + 1 \in P
  <2> DEFINE n == m + 1
  <2>1. n \in 1 .. N /\ n - 1 = m /\ n \in 0 .. N /\ m \in 0 .. N
    BY <1>1
  <2>2. PICK o : ComesFrom(g[m], o, q, n - 1)
    BY <1>3, <2>1
  <2>3. g[m] \in Seq(T) /\ g[n] = g[m] \o q[n]
    BY <1>1, <2>1
  <2> HIDE DEF n
  <2>4. \E p : ComesFrom(g[m] \o q[n], p, q, n)
    BY <2>1, <2>2, <2>3, OriginsStep
  <2> QED BY <2>1, <2>3, <2>4 DEF n
<1> HIDE DEF P
<1>4. 0 .. N \subseteq P
  BY <1>1, <1>2, <1>3, PrefixInduction
<1>5. N \in P /\ N \in 0 .. N
  BY <1>1, <1>4
<1> QED BY <1>1, <1>5 DEF P

\* Two sequences joined begin with the first.
LEMMA JoinedFirst ==
  ASSUME NEW T, NEW a \in Seq(T), NEW b \in Seq(T), a # <<>>
  PROVE  a \o b # <<>> /\ (a \o b)[1] = a[1]
<1>1. Len(a) \in Nat \ {0} /\ Len(b) \in Nat /\ Len(a \o b) = Len(a) + Len(b)
  OBVIOUS
<1>2. Len(a \o b) # 0 /\ Len(<<>>) = 0
  BY <1>1
<1>3. 1 \in 1 .. Len(a)
  BY <1>1
<1> QED BY <1>2, <1>3

\* It begins with its first member.
LEMMA FlattenFirst ==
  ASSUME NEW T, NEW q \in Seq(Seq(T)), q # <<>>, q[1] # <<>>
  PROVE  FlattenSeq(q) # <<>> /\ FlattenSeq(q)[1] = q[1][1]
<1> DEFINE N == Len(q)
<1>0. PICK g : Joining(g, q, T)
  BY FlattenUnfolds
<1>1. /\ N \in Nat \ {0}
      /\ g \in [0 .. N -> Seq(T)] /\ g[0] = <<>> /\ FlattenSeq(q) = g[N]
      /\ \A n \in 1 .. N : g[n] = g[n - 1] \o q[n] /\ q[n] \in Seq(T)
  <2>1. N \in Nat \ {0} /\ \A n \in 1 .. N : q[n] \in Seq(T)
    OBVIOUS
  <2>2. /\ g \in [0 .. N -> Seq(T)] /\ g[0] = <<>> /\ FlattenSeq(q) = g[N]
        /\ \A n \in 1 .. N : g[n] = g[n - 1] \o q[n]
    BY <1>0, Zenon DEF Joining
  <2> HIDE DEF N
  <2> QED BY <2>1, <2>2
<1> DEFINE P == {n \in 0 .. N : n = 0 \/ (g[n] # <<>> /\ g[n][1] = q[1][1])}
<1>2. ASSUME NEW m \in 0 .. N - 1, m \in P
      PROVE  m + 1 \in P
  <2> DEFINE n == m + 1
  <2>1. n \in 1 .. N /\ n - 1 = m /\ n \in 0 .. N /\ m \in 0 .. N
    BY <1>1
  <2>2. g[m] \in Seq(T) /\ q[n] \in Seq(T) /\ g[n] = g[m] \o q[n]
    BY <1>1, <2>1
  <2>3. CASE m = 0
    <3>1. g[m] = <<>> /\ n = 1
      BY <1>1, <2>3
    <3>2. g[n] = q[1]
      BY <2>2, <3>1, ConcatEmptySeq
    <3> HIDE DEF n
    <3> QED BY <2>1, <3>2 DEF n
  <2>4. CASE m # 0
    <3>1. g[m] # <<>> /\ g[m][1] = q[1][1]
      BY <1>2, <2>4
    <3> HIDE DEF n
    <3>2. g[m] \o q[n] # <<>> /\ (g[m] \o q[n])[1] = g[m][1]
      BY <2>2, <3>1, JoinedFirst
    <3> QED BY <2>1, <2>2, <3>1, <3>2 DEF n
  <2> QED BY <2>3, <2>4
<1>3. 0 \in P
  BY <1>1
<1> HIDE DEF P
<1>4. 0 .. N \subseteq P
  BY <1>1, <1>2, <1>3, PrefixInduction
<1>5. N \in P
  BY <1>1, <1>4
<1> QED BY <1>1, <1>5 DEF P
=============================================================================
