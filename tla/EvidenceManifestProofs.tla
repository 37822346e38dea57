----------------------- MODULE EvidenceManifestProofs -----------------------
(***************************************************************************)
(* Theorems about EvidenceManifest, for any files and layouts and any       *)
(* limits: what the manifest calls SATISFIED is current and in context,     *)
(* and what may not be viewed again is counted.                             *)
(***************************************************************************)
EXTENDS EvidenceManifest, FiniteInduction

-----------------------------------------------------------------------------
(* The inductive invariant.                                                *)

Symbol == UNION {UNION {{d.sym : d \in Layouts[f][i]} : i \in DOMAIN Layouts[f]} : f \in Files}

Pieces ==
  [file : Files, sym : Symbol, first : Nat, last : Nat, schema : BOOLEAN, mount : BOOLEAN]

Items ==
  [file : Files, sym : Symbol, first : Nat, last : Nat, schema : BOOLEAN, mount : BOOLEAN,
   status : {"missing", "satisfied", "stale"}]

\* No symbol of a file has two items.
Distinct(is) == \A i, k \in DOMAIN is : i # k => ~Same(is[i], is[k])

TypedInv ==
  /\ layout = [f \in Files |-> layout[f]] /\ \A f \in Files : layout[f] \in DOMAIN Layouts[f]
  /\ items \in Seq(Items) /\ Len(items) <= MaxObserved /\ Distinct(items)
  /\ held \subseteq Pieces
  /\ edited \subseteq Files /\ hurried \subseteq edited

\* The item lies where the layout has the symbol.
InPlace(x, lay) ==
  \E d \in Layouts[x.file][lay[x.file]] :
    d.sym = x.sym /\ d.first = x.first /\ d.last = x.last

\* Code of its symbol is in context.
InContext(x, hs) == \E y \in hs : Same(x, y)

\* What was not edited since it was loaded is held, and lies in its place unless a call
\* that named another file wrote it, whether the start of a step has found it SATISFIED
\* or not yet.
Standing(x, lay, hs, hur, str) ==
  x.status # "stale" /\ x.file \notin hur =>
    InContext(x, hs) /\ (x.file \notin str => InPlace(x, lay))

StandingInv ==
  \A i \in DOMAIN items : Standing(items[i], layout, held, hurried, strayed)

\* Files that were never written.
Untouched == Files \ (edited \cup strayed)

\* An untouched file has no STALE item, and its code in context is its code on disk.
UneditedInv ==
  \A f \in Untouched :
    /\ \A i \in DOMAIN items : items[i].file = f => items[i].status # "stale"
    /\ \A y \in held : y.file = f => \E d \in Defined(f) : y = Code(f, d)

Apart(f, d) == \A e \in Defined(f) \ {d} : ~Nested(d, e)

\* Code in context of an untouched file has its item, but for nested code, and unless the
\* limit is reached.
CountedInv ==
  \A f \in Untouched : \A d \in Defined(f) :
    Code(f, d) \in held /\ Len(items) < MaxObserved /\ Apart(f, d)
      => \E i \in DOMAIN items : Same(items[i], Code(f, d))

\* The start of a step leaves nothing MISSING that is in context.
ProjectedInv ==
  projected => \A i \in DOMAIN items : items[i].status = "missing" => ~InContext(items[i], held)

ManifestInv == TypedInv /\ StandingInv /\ UneditedInv /\ CountedInv /\ ProjectedInv

-----------------------------------------------------------------------------
(* Code and items.                                                         *)

\* What a layout defines.
LEMMA CodeType ==
  ASSUME NEW f \in Files, NEW n \in DOMAIN Layouts[f], NEW d \in Layouts[f][n]
  PROVE  /\ Code(f, d) \in Pieces
         /\ Code(f, d).file = f /\ Code(f, d).sym = d.sym
         /\ Code(f, d).first = d.first /\ Code(f, d).last = d.last
<1>1. /\ d.first \in Nat /\ d.last \in Nat
      /\ d.schema \in BOOLEAN /\ d.mount \in BOOLEAN
  BY ManifestAssumption DEF IsDefinition
<1>2. d.sym \in Symbol
  BY DEF Symbol
<1>3. Code(f, d) = [file |-> f, sym |-> d.sym, first |-> d.first, last |-> d.last,
                    schema |-> d.schema, mount |-> d.mount]
  BY DEF Code
<1> QED BY <1>1, <1>2, <1>3 DEF Pieces

\* A new item is MISSING and has the lines of its load.
LEMMA ItemType ==
  ASSUME NEW x \in Pieces
  PROVE  /\ Item(x) \in Items
         /\ Same(Item(x), x) /\ Item(x).status = "missing"
         /\ Item(x).first = x.first /\ Item(x).last = x.last
         /\ Item(x).file = x.file /\ Item(x).sym = x.sym
<1>1. /\ x.file \in Files /\ x.sym \in Symbol /\ x.first \in Nat /\ x.last \in Nat
      /\ x.schema \in BOOLEAN /\ x.mount \in BOOLEAN
  BY DEF Pieces
<1>2. (x.mount /\ ~x.schema) \in BOOLEAN
  OBVIOUS
<1> DEFINE m == x.mount /\ ~x.schema
<1>3. Item(x) = [file |-> x.file, sym |-> x.sym, first |-> x.first, last |-> x.last,
                 schema |-> x.schema, mount |-> m, status |-> "missing"]
  BY DEF Item
<1>4. m \in BOOLEAN
  BY <1>2
<1> HIDE DEF m
<1> QED BY <1>1, <1>3, <1>4 DEF Items, Same

-----------------------------------------------------------------------------
(* Refreshed items.                                                        *)

\* An item keeps what identifies it; it is as before, or it was STALE and has the lines
\* of a load of its symbol.
Refreshed(x, y, xs) ==
  /\ y \in Items
  /\ y.file = x.file /\ y.sym = x.sym /\ y.schema = x.schema /\ y.mount = x.mount
  /\ \/ y = x
     \/ /\ x.status = "stale" /\ y.status = "satisfied"
        /\ \E k \in DOMAIN xs : /\ Same(x, xs[k])
                                /\ y.first = xs[k].first /\ y.last = xs[k].last

\* The loads refresh STALE items.
LEMMA SupersededType ==
  ASSUME NEW is \in Seq(Items), NEW xs \in Seq(Pieces)
  PROVE  /\ Superseded(is, xs) \in Seq(Items) /\ Len(Superseded(is, xs)) = Len(is)
         /\ \A i \in DOMAIN is : Refreshed(is[i], Superseded(is, xs)[i], xs)
<1> DEFINE loads(i) == {k \in DOMAIN xs : is[i].status = "stale" /\ Same(is[i], xs[k])}
           last(i) == CHOOSE k \in loads(i) : \A l \in loads(i) : l <= k
           new(i) == IF loads(i) = {} THEN is[i]
                     ELSE [is[i] EXCEPT !.status = "satisfied", !.first = xs[last(i)].first,
                                        !.last = xs[last(i)].last]
           r == Superseded(is, xs)
<1>1. r = [i \in DOMAIN is |-> new(i)]
  BY DEF Superseded
<1>2. ASSUME NEW i \in DOMAIN is
      PROVE  Refreshed(is[i], new(i), xs)
  <2>1. is[i] \in Items
    OBVIOUS
  <2>2. CASE loads(i) = {}
    BY <2>1, <2>2 DEF Refreshed
  <2>3. CASE loads(i) # {}
    <3>1. loads(i) \in SUBSET (0 .. Len(xs)) /\ Len(xs) \in Nat
      OBVIOUS
    <3>2. \E k \in loads(i) : \A l \in loads(i) : l <= k
      <4> HIDE DEF loads
      <4> QED BY <2>3, <3>1, LastNumber
    <3>3. last(i) \in loads(i)
      <4> HIDE DEF loads
      <4> QED BY <3>2
    <3>4. /\ last(i) \in DOMAIN xs /\ is[i].status = "stale" /\ Same(is[i], xs[last(i)])
      BY <3>3
    <3> DEFINE k == last(i)
               x == is[i]
               y == [x EXCEPT !.status = "satisfied", !.first = xs[k].first, !.last = xs[k].last]
    <3>5. new(i) = y
      BY <2>3
    <3> HIDE DEF last
    <3>6. xs[k].first \in Nat /\ xs[k].last \in Nat
      <4>1. xs[k] \in Pieces
        BY <3>4
      <4> QED BY <4>1 DEF Pieces
    <3>7. k \in DOMAIN xs /\ x.status = "stale" /\ Same(x, xs[k]) /\ x \in Items
      BY <2>1, <3>4
    <3> HIDE DEF k, x
    <3>8. /\ x = [file |-> x.file, sym |-> x.sym, first |-> x.first, last |-> x.last,
                  schema |-> x.schema, mount |-> x.mount, status |-> x.status]
          /\ x.file \in Files /\ x.sym \in Symbol /\ x.schema \in BOOLEAN /\ x.mount \in BOOLEAN
      BY <3>7 DEF Items
    <3>9. /\ y \in Items
          /\ y.file = x.file /\ y.sym = x.sym /\ y.schema = x.schema /\ y.mount = x.mount
          /\ y.status = "satisfied" /\ y.first = xs[k].first /\ y.last = xs[k].last
      BY <3>6, <3>8 DEF Items
    <3>10. Refreshed(x, y, xs)
      <4> HIDE DEF y
      <4> QED BY <3>7, <3>9 DEF Refreshed
    <3> HIDE DEF y, new, loads
    <3> QED BY <3>5, <3>10 DEF x
  <2> QED BY <2>2, <2>3
<1> HIDE DEF new
<1>3. \A i \in DOMAIN is : new(i) \in Items
  BY <1>2 DEF Refreshed
<1>4. Len(is) \in Nat /\ DOMAIN is = 1 .. Len(is)
  OBVIOUS
<1>5. r \in Seq(Items) /\ Len(r) = Len(is)
  BY <1>1, <1>3, <1>4
<1> HIDE DEF r
<1> QED BY <1>1, <1>2, <1>5 DEF r

-----------------------------------------------------------------------------
(* Reconciliation.                                                         *)

\* g takes the loads one after the other.
Growing(g, is, xs) ==
  /\ g \in [0 .. Len(xs) -> Seq(Items)]
  /\ g[0] = Superseded(is, xs)
  /\ \A n \in 1 .. Len(xs) : g[n] = Observed(g[n - 1], xs[n])
  /\ Reconciled(is, xs) = g[Len(xs)]

\* A load adds an item at the end or none.
LEMMA ObservedType ==
  ASSUME NEW is \in Seq(Items), NEW x \in Pieces
  PROVE  /\ Observed(is, x) \in Seq(Items)
         /\ \/ /\ Observed(is, x) = is
               /\ Tracked(is, x) \/ Len(is) >= MaxObserved
            \/ /\ Observed(is, x) = Append(is, Item(x))
               /\ ~Tracked(is, x) /\ ~(Len(is) >= MaxObserved)
BY ItemType DEF Observed

\* The recursion of Reconciled takes them.
LEMMA ReconciledUnfolds ==
  ASSUME NEW is \in Seq(Items), NEW xs \in Seq(Pieces)
  PROVE  \E g : Growing(g, is, xs)
<1> DEFINE N == Len(xs)
           b == Superseded(is, xs)
           F == [p \in (1 .. N) \X Seq(Items) |-> Observed(p[2], xs[p[1]])]
           Body(h) == [n \in 0 .. Len(xs) |->
                         IF n = 0 THEN b ELSE Observed(h[n - 1], xs[n])]
           grown == CHOOSE h : h = Body(h)
<1>1. N \in Nat /\ \A n \in 1 .. N : xs[n] \in Pieces
  OBVIOUS
<1>0. b \in Seq(Items)
  BY SupersededType
<1>3. Reconciled(is, xs) = grown[N]
  BY DEF Reconciled
<1> HIDE DEF b
<1>2. F \in [(1 .. N) \X Seq(Items) -> Seq(Items)]
  BY <1>1, ObservedType
<1>4. PICK g : Unfolds(g, N, Seq(Items), b, F)
  <2> HIDE DEF F, N
  <2> QED BY <1>0, <1>1, <1>2, RecursionExists
<1>5. g = Body(g)
  <2>1. g \in [0 .. N -> Seq(Items)] /\ g[0] = b
    BY <1>4 DEF Unfolds
  <2>2. ASSUME NEW n \in 1 .. N
        PROVE  g[n] = Observed(g[n - 1], xs[n])
    <3>1. g[n] = F[<<n, g[n - 1]>>]
      BY <1>4 DEF Unfolds
    <3>2. n - 1 \in 0 .. N
      BY <1>1
    <3>3. <<n, g[n - 1]>> \in (1 .. N) \X Seq(Items)
      BY <2>1, <3>2
    <3> QED BY <3>1, <3>3
  <2>3. \A n \in 0 .. N : n = 0 \/ n \in 1 .. N
    BY <1>1
  <2> QED BY <2>1, <2>2, <2>3
<1>6. grown = Body(grown)
  BY <1>5
<1> HIDE DEF grown
<1>7. grown = [n \in 0 .. N |-> grown[n]] /\ grown[0] = b
  BY <1>1, <1>6
<1>8. ASSUME NEW n \in 1 .. N
      PROVE  grown[n] = Observed(grown[n - 1], xs[n])
  <2>1. n \in 0 .. Len(xs) /\ n # 0
    BY <1>1
  <2> QED BY <1>6, <2>1
<1>9. Unfolds(grown, N, Seq(Items), b, F)
  <2>1. \A n \in 1 .. N : grown[n - 1] \in Seq(Items) => grown[n] = F[<<n, grown[n - 1]>>]
    BY <1>8
  <2> HIDE DEF F, N
  <2> QED BY <1>0, <1>1, <1>2, <1>7, <2>1, RecursionUnfolds
<1>10. grown \in [0 .. N -> Seq(Items)]
  BY <1>9 DEF Unfolds
<1>11. Growing(grown, is, xs)
  BY <1>3, <1>7, <1>8, <1>10 DEF Growing, b
<1> QED BY <1>11

\* Items that came of others: those are refreshed, the rest are new.
Grown(is, r, xs) ==
  /\ r \in Seq(Items) /\ Len(is) <= Len(r)
  /\ \A i \in DOMAIN is : Refreshed(is[i], r[i], xs)
  /\ \A i \in DOMAIN r : i \in DOMAIN is \/ \E k \in DOMAIN xs : r[i] = Item(xs[k])
  /\ Len(is) <= MaxObserved => Len(r) <= MaxObserved
  /\ Distinct(is) => Distinct(r)

\* The refresh adds nothing.
LEMMA SupersededGrown ==
  ASSUME NEW is \in Seq(Items), NEW xs \in Seq(Pieces)
  PROVE  Grown(is, Superseded(is, xs), xs)
<1> DEFINE r == Superseded(is, xs)
<1>1. /\ r \in Seq(Items) /\ Len(r) = Len(is)
      /\ \A i \in DOMAIN is : Refreshed(is[i], r[i], xs)
  BY SupersededType
<1> HIDE DEF r
<1>2. DOMAIN r = DOMAIN is /\ Len(is) \in Nat /\ MaxObserved \in Nat
  BY <1>1, ManifestAssumption
<1>3. \A i, k \in DOMAIN is : Same(r[i], r[k]) => Same(is[i], is[k])
  BY <1>1 DEF Refreshed, Same
<1>4. Distinct(is) => Distinct(r)
  BY <1>2, <1>3 DEF Distinct
<1>5. Grown(is, r, xs)
  BY <1>1, <1>2, <1>4 DEF Grown
<1> QED BY <1>5 DEF r

\* One more load keeps that.
LEMMA ObservedGrown ==
  ASSUME NEW is \in Seq(Items), NEW xs \in Seq(Pieces), NEW r, Grown(is, r, xs),
         NEW j \in DOMAIN xs
  PROVE  Grown(is, Observed(r, xs[j]), xs)
<1> DEFINE x == xs[j]
           new == Item(x)
           q == Observed(r, x)
<1>1. r \in Seq(Items) /\ x \in Pieces /\ Len(r) \in Nat /\ Len(is) \in Nat /\ Len(is) <= Len(r)
      /\ MaxObserved \in Nat /\ DOMAIN is = 1 .. Len(is) /\ DOMAIN r = 1 .. Len(r)
  BY ManifestAssumption DEF Grown
<1>2. new \in Items /\ new.file = x.file /\ new.sym = x.sym
  BY <1>1, ItemType
<1>3. CASE q = r
  BY <1>3
<1>4. CASE q = Append(r, new) /\ ~Tracked(r, x) /\ ~(Len(r) >= MaxObserved)
  <2> HIDE DEF new, q, x
  <2>1. /\ q \in Seq(Items) /\ Len(q) = Len(r) + 1 /\ DOMAIN q = 1 .. Len(r) + 1
        /\ q[Len(r) + 1] = new /\ \A i \in DOMAIN r : q[i] = r[i]
    BY <1>1, <1>2, <1>4
  <2>2. \A i \in DOMAIN q : i \in DOMAIN r \/ i = Len(r) + 1
    BY <1>1, <2>1
  <2>3. \A i \in DOMAIN is : i \in DOMAIN r
    BY <1>1
  <2>4. \A i \in DOMAIN is : Refreshed(is[i], q[i], xs)
    BY <2>1, <2>3 DEF Grown
  <2>5. \A i \in DOMAIN q : i \in DOMAIN is \/ \E k \in DOMAIN xs : q[i] = Item(xs[k])
    BY <2>1, <2>2 DEF Grown, new, x
  <2>6. Len(is) <= MaxObserved => Len(q) <= MaxObserved
    BY <1>1, <1>4, <2>1
  <2>7. Distinct(is) => Distinct(q)
    <3> SUFFICES ASSUME Distinct(is), NEW i \in DOMAIN q, NEW k \in DOMAIN q, i # k
                 PROVE  ~Same(q[i], q[k])
      BY DEF Distinct
    <3>1. \A l \in DOMAIN r : ~(r[l].file = x.file /\ r[l].sym = x.sym)
      BY <1>4 DEF Tracked
    <3>2. \A l, n \in DOMAIN r : l # n => ~Same(r[l], r[n])
      BY DEF Grown, Distinct
    <3>3. \A l \in DOMAIN r : ~Same(r[l], new) /\ ~Same(new, r[l])
      BY <1>2, <3>1 DEF Same
    <3>4. CASE i \in DOMAIN r /\ k \in DOMAIN r
      BY <2>1, <3>2, <3>4
    <3>5. CASE i = Len(r) + 1
      <4>1. k \in DOMAIN r /\ q[i] = new /\ q[k] = r[k]
        BY <2>1, <2>2, <3>5
      <4> QED BY <3>3, <4>1
    <3>6. CASE k = Len(r) + 1
      <4>1. i \in DOMAIN r /\ q[k] = new /\ q[i] = r[i]
        BY <2>1, <2>2, <3>6
      <4> QED BY <3>3, <4>1
    <3> QED BY <2>2, <3>4, <3>5, <3>6
  <2>8. Len(is) <= Len(q)
    BY <1>1, <2>1
  <2>9. Grown(is, q, xs)
    BY <2>1, <2>4, <2>5, <2>6, <2>7, <2>8 DEF Grown
  <2> QED BY <2>9 DEF q, x
<1>5. q = r \/ (q = Append(r, new) /\ ~Tracked(r, x) /\ ~(Len(r) >= MaxObserved))
  BY <1>1, ObservedType
<1> QED BY <1>3, <1>4, <1>5

\* What reconciliation makes of the items.
LEMMA ReconciledGrown ==
  ASSUME NEW is \in Seq(Items), NEW xs \in Seq(Pieces)
  PROVE  Grown(is, Reconciled(is, xs), xs)
<1> DEFINE N == Len(xs)
<1>1. PICK g : Growing(g, is, xs)
  BY ReconciledUnfolds
<1>2. /\ g[0] = Superseded(is, xs) /\ Reconciled(is, xs) = g[N]
      /\ \A n \in 1 .. N : g[n] = Observed(g[n - 1], xs[n])
  BY <1>1 DEF Growing
<1> DEFINE P == {n \in 0 .. N : Grown(is, g[n], xs)}
<1>3. N \in Nat
  OBVIOUS
<1>4. 0 \in P
  BY <1>2, <1>3, SupersededGrown
<1>5. ASSUME NEW m \in 0 .. N - 1, m \in P
      PROVE  m + 1 \in P
  <2>1. m + 1 \in 1 .. N /\ (m + 1) - 1 = m /\ m + 1 \in 0 .. N /\ m + 1 \in DOMAIN xs
    BY <1>3
  <2>2. Grown(is, g[m], xs)
    BY <1>5
  <2>3. g[m + 1] = Observed(g[m], xs[m + 1])
    BY <1>2, <2>1
  <2>4. Grown(is, g[m + 1], xs)
    BY <2>1, <2>2, <2>3, ObservedGrown
  <2> QED BY <2>1, <2>4
<1> HIDE DEF P
<1>6. 0 .. N \subseteq P
  BY <1>3, <1>4, <1>5, PrefixInduction
<1>7. N \in P
  BY <1>3, <1>6
<1> QED BY <1>2, <1>7 DEF P

\* What one load makes of them.
LEMMA ReconciledOne ==
  ASSUME NEW is \in Seq(Items), NEW x \in Pieces
  PROVE  Reconciled(is, <<x>>) = Observed(Superseded(is, <<x>>), x)
<1> DEFINE xs == <<x>>
<1>1. xs \in Seq(Pieces) /\ Len(xs) = 1 /\ xs[1] = x
  OBVIOUS
<1> HIDE DEF xs
<1>2. PICK g : Growing(g, is, xs)
  BY <1>1, ReconciledUnfolds
<1>3. 1 \in 1 .. Len(xs) /\ 1 - 1 = 0
  BY <1>1
<1>4. Reconciled(is, xs) = Observed(Superseded(is, xs), xs[1])
  BY <1>1, <1>2, <1>3 DEF Growing
<1> QED BY <1>1, <1>4 DEF xs

-----------------------------------------------------------------------------
(* Code in context.                                                        *)

\* The code of the context that another load replaces is of the same symbol.
LEMMA IngestedType ==
  ASSUME NEW hs \in SUBSET Pieces, NEW x \in Pieces
  PROVE  /\ Ingested(hs, x) \in SUBSET Pieces
         /\ Ingested(hs, x) \subseteq hs \cup {x} /\ x \in Ingested(hs, x)
         /\ \A z : InContext(z, hs) => InContext(z, Ingested(hs, x))
         /\ \A y \in hs : y.file # x.file => y \in Ingested(hs, x)
<1>1. \A y \in hs : Overlap(x, y) => Same(x, y)
  BY DEF Overlap
<1>2. \A z : \A y \in hs : Same(x, y) /\ Same(z, y) => Same(z, x)
  BY DEF Same
<1> QED BY <1>1, <1>2 DEF Ingested, InContext, Same

\* g takes the loads into the context one after the other.
Ingesting(g, hs, xs) ==
  /\ g \in [0 .. Len(xs) -> SUBSET Pieces]
  /\ g[0] = hs
  /\ \A n \in 1 .. Len(xs) : g[n] = Ingested(g[n - 1], xs[n])
  /\ IngestedAll(hs, xs) = g[Len(xs)]

\* The recursion of IngestedAll takes them.
LEMMA IngestedAllUnfolds ==
  ASSUME NEW hs \in SUBSET Pieces, NEW xs \in Seq(Pieces)
  PROVE  \E g : Ingesting(g, hs, xs)
<1> DEFINE N == Len(xs)
           S == SUBSET Pieces
           F == [p \in (1 .. N) \X S |-> Ingested(p[2], xs[p[1]])]
           Body(h) == [n \in 0 .. Len(xs) |->
                         IF n = 0 THEN hs ELSE Ingested(h[n - 1], xs[n])]
           taken == CHOOSE h : h = Body(h)
<1>1. N \in Nat /\ \A n \in 1 .. N : xs[n] \in Pieces
  OBVIOUS
<1>3. IngestedAll(hs, xs) = taken[N]
  BY DEF IngestedAll
<1>2. F \in [(1 .. N) \X S -> S]
  <2>1. ASSUME NEW n \in 1 .. N, NEW h \in SUBSET Pieces
        PROVE  Ingested(h, xs[n]) \in SUBSET Pieces
    <3> DEFINE x == xs[n]
    <3>1. x \in Pieces
      BY <1>1
    <3> HIDE DEF x
    <3>2. Ingested(h, x) \in SUBSET Pieces
      BY <3>1, IngestedType
    <3> QED BY <3>2 DEF x
  <2> QED BY <2>1
<1>4. PICK g : Unfolds(g, N, S, hs, F)
  <2>1. hs \in S
    OBVIOUS
  <2> HIDE DEF F, N, S
  <2> QED BY <1>1, <1>2, <2>1, RecursionExists
<1>5. g = Body(g)
  <2>1. g \in [0 .. N -> S] /\ g[0] = hs
    BY <1>4 DEF Unfolds
  <2>2. ASSUME NEW n \in 1 .. N
        PROVE  g[n] = Ingested(g[n - 1], xs[n])
    <3>1. g[n] = F[<<n, g[n - 1]>>]
      BY <1>4 DEF Unfolds
    <3>2. n - 1 \in 0 .. N
      BY <1>1
    <3>3. <<n, g[n - 1]>> \in (1 .. N) \X S
      BY <2>1, <3>2
    <3> QED BY <3>1, <3>3
  <2>3. \A n \in 0 .. N : n = 0 \/ n \in 1 .. N
    BY <1>1
  <2> QED BY <2>1, <2>2, <2>3
<1>6. taken = Body(taken)
  BY <1>5
<1> HIDE DEF taken
<1>7. taken = [n \in 0 .. N |-> taken[n]] /\ taken[0] = hs
  BY <1>1, <1>6
<1>8. ASSUME NEW n \in 1 .. N
      PROVE  taken[n] = Ingested(taken[n - 1], xs[n])
  <2>1. n \in 0 .. Len(xs) /\ n # 0
    BY <1>1
  <2> QED BY <1>6, <2>1
<1>9. Unfolds(taken, N, S, hs, F)
  <2>1. \A n \in 1 .. N : taken[n - 1] \in S => taken[n] = F[<<n, taken[n - 1]>>]
    BY <1>8
  <2>2. hs \in S
    OBVIOUS
  <2> HIDE DEF F, N, S
  <2> QED BY <1>1, <1>2, <1>7, <2>1, <2>2, RecursionUnfolds
<1>10. taken \in [0 .. N -> S]
  BY <1>9 DEF Unfolds
<1>11. Ingesting(taken, hs, xs)
  BY <1>3, <1>7, <1>8, <1>10 DEF Ingesting
<1> QED BY <1>11

\* Loads keep code of every symbol that had some, and add theirs.
LEMMA IngestedAllType ==
  ASSUME NEW hs \in SUBSET Pieces, NEW xs \in Seq(Pieces)
  PROVE  /\ IngestedAll(hs, xs) \subseteq Pieces
         /\ IngestedAll(hs, xs) \subseteq hs \cup ToSet(xs)
         /\ \A z : InContext(z, hs \cup ToSet(xs)) => InContext(z, IngestedAll(hs, xs))
<1> DEFINE N == Len(xs)
           Seen(n) == {xs[k] : k \in 1 .. n}
<1>1. PICK g : Ingesting(g, hs, xs)
  BY IngestedAllUnfolds
<1>2. /\ g \in [0 .. N -> SUBSET Pieces] /\ g[0] = hs /\ IngestedAll(hs, xs) = g[N]
      /\ \A n \in 1 .. N : g[n] = Ingested(g[n - 1], xs[n])
  BY <1>1 DEF Ingesting
<1> DEFINE P == {n \in 0 .. N : /\ g[n] \subseteq hs \cup Seen(n)
                                /\ \A z : InContext(z, hs \cup Seen(n)) => InContext(z, g[n])}
<1>3. N \in Nat /\ Seen(0) = {} /\ Seen(N) = ToSet(xs)
  BY DEF ToSet
<1>4. 0 \in P
  <2>1. 0 \in 0 .. N
    BY <1>3
  <2>2. hs \cup Seen(0) = g[0]
    BY <1>2, <1>3
  <2> HIDE DEF Seen
  <2> QED BY <2>1, <2>2
<1>5. ASSUME NEW m \in 0 .. N - 1, m \in P
      PROVE  m + 1 \in P
  <2> DEFINE x == xs[m + 1]
             w == g[m]
             v == g[m + 1]
  <2>1. m + 1 \in 1 .. N /\ (m + 1) - 1 = m /\ m \in 0 .. N /\ m + 1 \in 0 .. N
    BY <1>3
  <2>2. g[m + 1] = Ingested(g[m], x) /\ g[m] \in SUBSET Pieces /\ x \in Pieces
    BY <1>2, <2>1
  <2>3. Seen(m + 1) = Seen(m) \cup {x}
    BY <2>1
  <2>4. /\ g[m] \subseteq hs \cup Seen(m)
        /\ \A z : InContext(z, hs \cup Seen(m)) => InContext(z, g[m])
    BY <1>5
  <2> HIDE DEF x, Seen
  <2>5. /\ g[m + 1] \subseteq g[m] \cup {x} /\ x \in g[m + 1]
        /\ \A z : InContext(z, g[m]) => InContext(z, g[m + 1])
    <3>1. v = Ingested(w, x) /\ w \in SUBSET Pieces
      BY <2>2
    <3> HIDE DEF w, v
    <3>2. /\ v \subseteq w \cup {x} /\ x \in v
          /\ \A z : InContext(z, w) => InContext(z, v)
      BY <2>2, <3>1, IngestedType
    <3> QED BY <3>2 DEF w, v
  <2>6. \A z : InContext(z, hs \cup Seen(m + 1)) => InContext(z, hs \cup Seen(m)) \/ Same(z, x)
    BY <2>3 DEF InContext
  <2>7. \A z : Same(z, x) => InContext(z, g[m + 1])
    BY <2>5 DEF InContext
  <2> QED BY <2>1, <2>3, <2>4, <2>5, <2>6, <2>7
<1> HIDE DEF P
<1>6. 0 .. N \subseteq P
  BY <1>3, <1>4, <1>5, PrefixInduction
<1>7. N \in P
  BY <1>3, <1>6
<1> QED BY <1>2, <1>3, <1>7 DEF P

-----------------------------------------------------------------------------
(* Steps.                                                                  *)

\* A request starts with an empty manifest.
LEMMA InitManifest == Init => ManifestInv
<1> SUFFICES ASSUME Init
             PROVE  ManifestInv
  OBVIOUS
<1> USE DEF Init
<1>1. DOMAIN items = {} /\ Len(items) = 0 /\ items \in Seq(Items)
  OBVIOUS
<1>2. TypedInv
  BY <1>1, ManifestAssumption DEF TypedInv, Distinct
<1>3. StandingInv /\ UneditedInv /\ CountedInv /\ ProjectedInv
  BY <1>1 DEF StandingInv, UneditedInv, CountedInv, ProjectedInv
<1> QED BY <1>2, <1>3 DEF ManifestInv

\* Items that stand still stand when they are refreshed or joined by loads that lie in
\* the layout and are held.
LEMMA GrownStands ==
  ASSUME NEW is \in Seq(Items), NEW r, NEW xs \in Seq(Pieces), Grown(is, r, xs),
         NEW lay, NEW hs, NEW hur, NEW str,
         \A i \in DOMAIN is : Standing(is[i], lay, hs, hur, str),
         \A k \in DOMAIN xs : InPlace(xs[k], lay) /\ InContext(xs[k], hs)
  PROVE  \A i \in DOMAIN r : Standing(r[i], lay, hs, hur, str)
<1> SUFFICES ASSUME NEW i \in DOMAIN r
             PROVE  Standing(r[i], lay, hs, hur, str)
  OBVIOUS
<1>1. CASE i \in DOMAIN is
  <2>1. Refreshed(is[i], r[i], xs) /\ Standing(is[i], lay, hs, hur, str)
    BY <1>1 DEF Grown
  <2>2. CASE r[i] = is[i]
    BY <2>1, <2>2
  <2>3. CASE r[i] # is[i]
    <3>1. PICK k \in DOMAIN xs : /\ Same(is[i], xs[k])
                                 /\ r[i].first = xs[k].first /\ r[i].last = xs[k].last
      BY <2>1, <2>3 DEF Refreshed
    <3>2. Same(r[i], xs[k])
      BY <2>1, <3>1 DEF Refreshed, Same
    <3>3. InPlace(r[i], lay)
      BY <3>1, <3>2 DEF InPlace, Same
    <3>4. InContext(r[i], hs)
      BY <3>2 DEF InContext, Same
    <3> QED BY <3>3, <3>4 DEF Standing
  <2> QED BY <2>2, <2>3
<1>2. CASE \E k \in DOMAIN xs : r[i] = Item(xs[k])
  <2>1. PICK k \in DOMAIN xs : r[i] = Item(xs[k])
    BY <1>2
  <2>2. xs[k] \in Pieces
    OBVIOUS
  <2>3. /\ r[i].file = xs[k].file /\ r[i].sym = xs[k].sym
        /\ r[i].first = xs[k].first /\ r[i].last = xs[k].last
    BY <2>1, <2>2, ItemType
  <2>4. InPlace(r[i], lay) /\ InContext(r[i], hs)
    BY <2>3 DEF InPlace, InContext, Same
  <2> QED BY <2>4 DEF Standing
<1> QED BY <1>1, <1>2 DEF Grown

\* Definitions of one layout with the same symbol are the same.
LEMMA OneDefinition ==
  ASSUME TypedInv, NEW f \in Files, NEW d \in Defined(f), NEW e \in Defined(f), d.sym = e.sym
  PROVE  d = e
BY ManifestAssumption DEF TypedInv, Defined

\* A view adds its item, or refreshes the one that is STALE.
LEMMA ViewKeeps ==
  ASSUME ManifestInv, NEW f \in Files, NEW d \in Defined(f), View(f, d)
  PROVE  ManifestInv'
<1> DEFINE x == Code(f, d)
           xs == <<x>>
<1>1. /\ ~Locked(x) /\ projected' = FALSE
      /\ held' = Ingested(held, x) /\ items' = Reconciled(items, xs)
      /\ UNCHANGED <<layout, edited, hurried, strayed>>
  BY DEF View, Call
<1>2. TypedInv
  BY DEF ManifestInv
<1>3. /\ x \in Pieces /\ x.file = f /\ x.sym = d.sym /\ x.first = d.first /\ x.last = d.last
  BY <1>2, CodeType DEF TypedInv, Defined
<1>4. xs \in Seq(Pieces) /\ DOMAIN xs = {1} /\ xs[1] = x
  BY <1>3
<1>5. /\ held' \subseteq Pieces /\ held' \subseteq held \cup {x} /\ x \in held'
      /\ \A z : InContext(z, held) => InContext(z, held')
  <2>1. held \in SUBSET Pieces
    BY <1>2 DEF TypedInv
  <2> HIDE DEF x
  <2> QED BY <1>1, <1>3, <2>1, IngestedType
<1>6. Grown(items, items', xs)
  <2>1. items \in Seq(Items)
    BY <1>2 DEF TypedInv
  <2> HIDE DEF x, xs
  <2> QED BY <1>1, <1>4, <2>1, ReconciledGrown
<1>7. items' = Observed(Superseded(items, xs), x)
  <2>1. items \in Seq(Items)
    BY <1>2 DEF TypedInv
  <2> HIDE DEF x
  <2> QED BY <1>1, <1>3, <2>1, ReconciledOne
<1>8. InPlace(x, layout) /\ InContext(x, held')
  BY <1>3, <1>5 DEF InPlace, InContext, Same, Defined
<1> HIDE DEF x, xs
<1>9. TypedInv'
  <2>1. items' \in Seq(Items) /\ Len(items') <= MaxObserved /\ Distinct(items')
    BY <1>2, <1>6 DEF Grown, TypedInv
  <2> QED BY <1>1, <1>2, <1>5, <2>1 DEF TypedInv, Distinct, Same
<1>10. StandingInv'
  <2>1. \A i \in DOMAIN items : Standing(items[i], layout, held', hurried, strayed)
    BY <1>5 DEF ManifestInv, StandingInv, Standing
  <2>2. \A i \in DOMAIN items' : Standing(items'[i], layout, held', hurried, strayed)
    <3>1. items \in Seq(Items)
      BY <1>2 DEF TypedInv
    <3>2. \A k \in DOMAIN xs : InPlace(xs[k], layout) /\ InContext(xs[k], held')
      BY <1>4, <1>8
    <3> QED BY <1>4, <1>6, <2>1, <3>1, <3>2, GrownStands
  <2> QED BY <1>1, <2>2 DEF StandingInv
<1>11. \A g \in Files : Defined(g)' = Defined(g)
  BY <1>1 DEF Defined
<1>12. UneditedInv'
  <2> SUFFICES ASSUME NEW g \in Untouched
               PROVE  /\ \A i \in DOMAIN items' : items'[i].file = g => items'[i].status # "stale"
                      /\ \A y \in held' : y.file = g => \E e \in Defined(g) : y = Code(g, e)
    BY <1>1, <1>11 DEF UneditedInv, Untouched, Code
  <2>1. /\ \A i \in DOMAIN items : items[i].file = g => items[i].status # "stale"
        /\ \A y \in held : y.file = g => \E e \in Defined(g) : y = Code(g, e)
    BY DEF ManifestInv, UneditedInv
  <2>2. ASSUME NEW i \in DOMAIN items', items'[i].file = g
        PROVE  items'[i].status # "stale"
    <3>1. CASE i \in DOMAIN items
      BY <1>6, <2>1, <2>2, <3>1 DEF Grown, Refreshed
    <3>2. CASE \E k \in DOMAIN xs : items'[i] = Item(xs[k])
      BY <1>3, <1>4, <3>2, ItemType
    <3> QED BY <1>6, <3>1, <3>2 DEF Grown
  <2>3. \A y \in held' : y.file = g => \E e \in Defined(g) : y = Code(g, e)
    BY <1>3, <1>5, <2>1 DEF x
  <2> QED BY <2>2, <2>3
<1>13. CountedInv'
  <2> SUFFICES ASSUME NEW g \in Untouched, NEW e \in Defined(g),
                      Code(g, e) \in held', Len(items') < MaxObserved, Apart(g, e)
               PROVE  \E i \in DOMAIN items' : Same(items'[i], Code(g, e))
    BY <1>1, <1>11 DEF CountedInv, Untouched, Apart, Code, Nested, Covers, Same
  <2>1. /\ Len(items) <= Len(items') /\ items \in Seq(Items) /\ items' \in Seq(Items)
        /\ Len(items) < MaxObserved
    BY <1>2, <1>6, ManifestAssumption DEF Grown, TypedInv
  <2>2. ASSUME NEW i \in DOMAIN items
        PROVE  i \in DOMAIN items' /\ items'[i].file = items[i].file /\ items'[i].sym = items[i].sym
    BY <1>6, <2>1 DEF Grown, Refreshed
  <2>3. CASE Code(g, e) \in held
    <3>1. PICK i \in DOMAIN items : Same(items[i], Code(g, e))
      BY <2>1, <2>3 DEF ManifestInv, CountedInv
    <3> QED BY <2>2, <3>1 DEF Same
  <2>4. CASE Code(g, e) = x
    <3> DEFINE s == Superseded(items, xs)
    <3>1. s \in Seq(Items) /\ Len(s) = Len(items) /\ \A i \in DOMAIN items : Refreshed(items[i], s[i], xs)
      BY <1>4, <2>1, SupersededType
    <3> HIDE DEF s
    <3>2. DOMAIN s = DOMAIN items
      BY <2>1, <3>1
    <3>3. CASE items' = Append(s, Item(x))
      <4> DEFINE it == Item(x)
      <4>1. it \in Items /\ Same(it, x)
        BY <1>3, ItemType
      <4> HIDE DEF it
      <4>2. Len(s) + 1 \in DOMAIN Append(s, it) /\ Append(s, it)[Len(s) + 1] = it
        BY <3>1, <4>1
      <4> QED BY <2>4, <3>3, <4>1, <4>2 DEF it
    <3>4. CASE items' = s /\ Tracked(s, x)
      <4>1. PICK i \in DOMAIN s : s[i].file = x.file /\ (s[i].sym = x.sym \/ Nested(s[i], x))
        BY <3>4 DEF Tracked
      <4>2. CASE s[i].sym = x.sym
        BY <2>4, <3>4, <4>1, <4>2 DEF Same
      <4>3. CASE Nested(s[i], x)
        <5>1. x.file = g /\ x.sym = e.sym /\ x.first = e.first /\ x.last = e.last
          BY <2>4 DEF Code
        <5>2. i \in DOMAIN items /\ items[i].file = g /\ Refreshed(items[i], s[i], xs)
          BY <3>1, <3>2, <4>1, <5>1 DEF Refreshed
        <5>3. items[i].status # "stale"
          BY <5>2 DEF ManifestInv, UneditedInv
        <5>4. s[i] = items[i]
          BY <5>2, <5>3 DEF Refreshed
        <5>5. g \notin hurried /\ g \notin strayed
          BY <1>2 DEF TypedInv, Untouched
        <5>6. InPlace(items[i], layout)
          BY <5>2, <5>3, <5>5 DEF ManifestInv, StandingInv, Standing
        <5>7. PICK c \in Defined(g) : /\ c.sym = items[i].sym
                                      /\ c.first = items[i].first /\ c.last = items[i].last
          BY <5>2, <5>6 DEF InPlace, Defined
        <5>8. Nested(e, c)
          BY <4>3, <5>1, <5>4, <5>7 DEF Nested, Covers
        <5>9. c = e
          BY <5>8 DEF Apart
        <5> QED BY <2>4, <3>4, <4>1, <5>1, <5>2, <5>4, <5>7, <5>9 DEF Same
      <4> QED BY <4>1, <4>2, <4>3
    <3>5. ~(items' = s /\ Len(s) >= MaxObserved)
      BY <2>1, <3>1, ManifestAssumption
    <3> QED BY <1>3, <1>7, <3>1, <3>3, <3>4, <3>5, ObservedType DEF s
  <2> QED BY <1>5, <2>3, <2>4
<1>14. ProjectedInv'
  BY <1>1 DEF ProjectedInv
<1> QED BY <1>9, <1>10, <1>12, <1>13, <1>14 DEF ManifestInv

\* An item with another status.
LEMMA StatusType ==
  ASSUME NEW x \in Items, NEW st \in {"missing", "satisfied", "stale"}
  PROVE  LET y == [x EXCEPT !.status = st]
         IN  /\ y \in Items /\ y.status = st
             /\ y.file = x.file /\ y.sym = x.sym /\ y.first = x.first /\ y.last = x.last
             /\ y.schema = x.schema /\ y.mount = x.mount
BY DEF Items

\* y is x but for its status.
Kin(x, y) ==
  /\ y \in Items
  /\ y.file = x.file /\ y.sym = x.sym /\ y.first = x.first /\ y.last = x.last
  /\ y.schema = x.schema /\ y.mount = x.mount

\* What an edit makes outdated.
LEMMA MarkedStaleType ==
  ASSUME NEW is \in Seq(Items), NEW f
  PROVE  /\ MarkedStale(is, f) \in Seq(Items) /\ Len(MarkedStale(is, f)) = Len(is)
         /\ \A i \in DOMAIN is :
              /\ Kin(is[i], MarkedStale(is, f)[i])
              /\ is[i].file # f \/ is[i].status = "missing" => MarkedStale(is, f)[i] = is[i]
              /\ is[i].file = f /\ is[i].status # "missing" =>
                   MarkedStale(is, f)[i].status = "stale"
<1> DEFINE new(i) == IF is[i].file = f /\ is[i].status # "missing"
                     THEN [is[i] EXCEPT !.status = "stale"] ELSE is[i]
           r == MarkedStale(is, f)
<1>1. r = [i \in DOMAIN is |-> new(i)]
  BY DEF MarkedStale
<1>2. ASSUME NEW i \in DOMAIN is
      PROVE  /\ Kin(is[i], new(i))
             /\ is[i].file # f \/ is[i].status = "missing" => new(i) = is[i]
             /\ is[i].file = f /\ is[i].status # "missing" => new(i).status = "stale"
  <2> DEFINE x == is[i]
             y == [x EXCEPT !.status = "stale"]
  <2>1. x \in Items
    OBVIOUS
  <2>2. Kin(x, y) /\ y.status = "stale" /\ Kin(x, x)
    <3> HIDE DEF x
    <3> QED BY <2>1, StatusType DEF Kin
  <2>3. new(i) = IF x.file = f /\ x.status # "missing" THEN y ELSE x
    OBVIOUS
  <2> HIDE DEF x, y, new
  <2>4. /\ Kin(x, new(i))
        /\ x.file # f \/ x.status = "missing" => new(i) = x
        /\ x.file = f /\ x.status # "missing" => new(i).status = "stale"
    BY <2>2, <2>3
  <2> QED BY <2>4 DEF x
<1> HIDE DEF new
<1>3. \A i \in DOMAIN is : new(i) \in Items
  BY <1>2 DEF Kin
<1>4. Len(is) \in Nat /\ DOMAIN is = 1 .. Len(is)
  OBVIOUS
<1>5. r \in Seq(Items) /\ Len(r) = Len(is)
  BY <1>1, <1>3, <1>4
<1> QED BY <1>1, <1>2, <1>5

\* What is read of a file after its edit is the new layout.
LEMMA PostEditType ==
  ASSUME NEW f \in Files, NEW n \in DOMAIN Layouts[f], NEW xs \in PostEdit(f, n)
  PROVE  /\ xs \in Seq(Pieces)
         /\ \A k \in DOMAIN xs : /\ xs[k].file = f
                                 /\ \E d \in Layouts[f][n] : xs[k] = Code(f, d)
<1> DEFINE tables == IF f \in SqlFiles THEN {d \in Layouts[f][n] : d.schema} ELSE {}
           N == Cardinality(tables)
<1>1. PICK ds \in [1 .. N -> tables] : xs = [i \in 1 .. N |-> Code(f, ds[i])]
  BY DEF PostEdit
<1>2. N \in Nat /\ tables \subseteq Layouts[f][n]
  <2>1. IsFiniteSet(Layouts[f][n]) /\ tables \subseteq Layouts[f][n]
    BY ManifestAssumption
  <2> HIDE DEF tables
  <2> QED BY <2>1, FS_Subset, FS_CardinalityType
<1> HIDE DEF N, tables
<1>3. \A i \in 1 .. N : ds[i] \in Layouts[f][n]
  BY <1>2
<1>4. \A i \in 1 .. N : Code(f, ds[i]) \in Pieces /\ Code(f, ds[i]).file = f
  BY <1>3, CodeType
<1> QED BY <1>1, <1>2, <1>3, <1>4

\* An edit that lands makes the items of the file it names STALE and leaves the others;
\* the code of the other files stays in context.
LEMMA LandsKeeps ==
  ASSUME ManifestInv, NEW f \in Files, NEW w \in Files, NEW n \in DOMAIN Layouts[w],
         NEW kept \in SUBSET held, \A y \in held : y.file # f => y \in kept,
         Lands(f, w, n, kept)
  PROVE  ManifestInv'
<1> DEFINE is == MarkedStale(items, f)
           now == layout'[f]
<1>1. PICK xs \in PostEdit(f, now) :
        held' = IngestedAll(kept, xs) /\ items' = Reconciled(is, xs)
  BY DEF Lands
<1>2. /\ projected' = FALSE /\ layout' = [layout EXCEPT ![w] = n]
      /\ edited' = edited \cup {f} /\ strayed' = (strayed \cup {w}) \ {f}
      /\ hurried \subseteq hurried' /\ hurried' \subseteq hurried \cup {f}
      /\ Hurried(f) => f \in hurried'
  BY DEF Lands, Call
<1>3. TypedInv
  BY DEF ManifestInv
<1>4. /\ layout' = [g \in Files |-> layout'[g]]
      /\ \A g \in Files : layout'[g] \in DOMAIN Layouts[g] /\ (g # w => layout'[g] = layout[g])
      /\ now \in DOMAIN Layouts[f]
  BY <1>2, <1>3 DEF TypedInv
<1>5. /\ xs \in Seq(Pieces)
      /\ \A k \in DOMAIN xs : xs[k].file = f /\ \E d \in Layouts[f][now] : xs[k] = Code(f, d)
  <2> HIDE DEF now
  <2> QED BY <1>1, <1>4, PostEditType
<1>6. /\ is \in Seq(Items) /\ Len(is) = Len(items) /\ DOMAIN is = DOMAIN items
      /\ \A i \in DOMAIN items :
           /\ Kin(items[i], is[i])
           /\ items[i].file # f \/ items[i].status = "missing" => is[i] = items[i]
           /\ items[i].file = f /\ items[i].status # "missing" => is[i].status = "stale"
  <2>1. items \in Seq(Items)
    BY <1>3 DEF TypedInv
  <2>2. /\ is \in Seq(Items) /\ Len(is) = Len(items)
        /\ \A i \in DOMAIN items :
             /\ Kin(items[i], is[i])
             /\ items[i].file # f \/ items[i].status = "missing" => is[i] = items[i]
             /\ items[i].file = f /\ items[i].status # "missing" => is[i].status = "stale"
    BY <2>1, MarkedStaleType
  <2> HIDE DEF is
  <2> QED BY <2>1, <2>2
<1> HIDE DEF is
<1>7. Grown(is, items', xs)
  BY <1>1, <1>5, <1>6, ReconciledGrown
<1>8. /\ held' \subseteq Pieces /\ held' \subseteq kept \cup ToSet(xs)
      /\ \A z : InContext(z, kept \cup ToSet(xs)) => InContext(z, held')
  <2>1. kept \in SUBSET Pieces
    BY <1>3 DEF TypedInv
  <2> QED BY <1>1, <1>5, <2>1, IngestedAllType
<1>9. \A k \in DOMAIN xs : xs[k] \in ToSet(xs)
  BY DEF ToSet
<1>10. TypedInv'
  <2>1. Distinct(is)
    BY <1>3, <1>6 DEF TypedInv, Distinct, Kin, Same
  <2>2. items' \in Seq(Items) /\ Len(items') <= MaxObserved /\ Distinct(items')
    BY <1>3, <1>6, <1>7, <2>1 DEF Grown, TypedInv
  <2>3. edited' \subseteq Files /\ hurried' \subseteq edited'
    BY <1>2, <1>3 DEF TypedInv
  <2> QED BY <1>4, <1>8, <2>2, <2>3 DEF TypedInv, Distinct, Same
<1>11. StandingInv'
  <2>1. ASSUME NEW i \in DOMAIN is
        PROVE  Standing(is[i], layout', held', hurried', strayed')
    <3>1. i \in DOMAIN items /\ Kin(items[i], is[i])
      BY <1>6, <2>1
    <3>2. CASE items[i].file = f
      <4>1. items[i].status = "missing" => Hurried(f)
        BY <3>1, <3>2 DEF Hurried
      <4> QED BY <1>2, <1>6, <3>1, <3>2, <4>1 DEF Standing, Kin
    <3>3. CASE items[i].file # f
      <4>1. is[i] = items[i] /\ items[i].file \in Files
        BY <1>6, <3>1, <3>3 DEF Kin, Items
      <4>2. Standing(items[i], layout, held, hurried, strayed)
        BY <3>1 DEF ManifestInv, StandingInv
      <4>3. items[i].file \notin strayed' =>
              items[i].file \notin strayed /\ (InPlace(items[i], layout) => InPlace(items[i], layout'))
        BY <1>2, <1>4, <3>3, <4>1 DEF InPlace
      <4>4. InContext(items[i], held) => InContext(items[i], held')
        <5>1. InContext(items[i], held) => InContext(items[i], kept)
          BY <3>3 DEF InContext, Same
        <5>2. InContext(items[i], kept) => InContext(items[i], kept \cup ToSet(xs))
          BY DEF InContext
        <5> QED BY <1>8, <5>1, <5>2
      <4> QED BY <1>2, <4>1, <4>2, <4>3, <4>4 DEF Standing
    <3> QED BY <3>2, <3>3
  <2>2. ASSUME NEW k \in DOMAIN xs
        PROVE  InPlace(xs[k], layout') /\ InContext(xs[k], held')
    <3>1. PICK d \in Layouts[f][now] : xs[k] = Code(f, d)
      BY <1>5
    <3>2. InPlace(xs[k], layout')
      BY <1>4, <3>1, CodeType DEF InPlace
    <3>3. InContext(xs[k], kept \cup ToSet(xs))
      BY <1>9 DEF InContext, Same
    <3> QED BY <1>8, <3>2, <3>3
  <2>3. \A i \in DOMAIN items' : Standing(items'[i], layout', held', hurried', strayed')
    BY <1>5, <1>6, <1>7, <2>1, <2>2, GrownStands
  <2> QED BY <2>3 DEF StandingInv
<1>12. \A g \in Untouched' : g # f /\ g \in Untouched /\ Defined(g)' = Defined(g)
  BY <1>2, <1>4 DEF Defined, Untouched
<1>13. UneditedInv'
  <2> SUFFICES ASSUME NEW g \in Untouched'
               PROVE  /\ \A i \in DOMAIN items' : items'[i].file = g => items'[i].status # "stale"
                      /\ \A y \in held' : y.file = g => \E e \in Defined(g) : y = Code(g, e)
    BY <1>12 DEF UneditedInv, Code
  <2>1. /\ \A i \in DOMAIN items : items[i].file = g => items[i].status # "stale"
        /\ \A y \in held : y.file = g => \E e \in Defined(g) : y = Code(g, e)
    BY <1>12 DEF ManifestInv, UneditedInv
  <2>2. ASSUME NEW i \in DOMAIN items', items'[i].file = g
        PROVE  items'[i].status # "stale"
    <3>1. CASE i \in DOMAIN is
      <4>1. Refreshed(is[i], items'[i], xs) /\ Kin(items[i], is[i]) /\ i \in DOMAIN items
        BY <1>6, <1>7, <3>1 DEF Grown
      <4>2. is[i] = items[i] /\ items[i].file = g
        BY <1>6, <1>12, <2>2, <4>1 DEF Refreshed, Kin
      <4> QED BY <2>1, <4>1, <4>2 DEF Refreshed
    <3>2. CASE \E k \in DOMAIN xs : items'[i] = Item(xs[k])
      <4>1. \A k \in DOMAIN xs : xs[k] \in Pieces
        BY <1>5
      <4> QED BY <3>2, <4>1, ItemType
    <3> QED BY <1>7, <3>1, <3>2 DEF Grown
  <2>3. \A y \in held' : y.file = g => \E e \in Defined(g) : y = Code(g, e)
    <3>1. \A y \in ToSet(xs) : y.file = f
      BY <1>5 DEF ToSet
    <3> QED BY <1>8, <1>12, <2>1, <3>1
  <2> QED BY <2>2, <2>3
<1>14. CountedInv'
  <2> SUFFICES ASSUME NEW g \in Untouched', NEW e \in Defined(g),
                      Code(g, e) \in held', Len(items') < MaxObserved, Apart(g, e)
               PROVE  \E i \in DOMAIN items' : Same(items'[i], Code(g, e))
    BY <1>12 DEF CountedInv, Apart, Code, Nested, Covers, Same
  <2>1. /\ Len(items) <= Len(items') /\ items \in Seq(Items) /\ items' \in Seq(Items)
        /\ Len(items) < MaxObserved
    BY <1>3, <1>6, <1>7, ManifestAssumption DEF Grown, TypedInv
  <2>2. Code(g, e) \in held
    <3>1. \A y \in ToSet(xs) : y.file = f
      BY <1>5 DEF ToSet
    <3>2. Code(g, e).file = g
      BY DEF Code
    <3> QED BY <1>8, <1>12, <3>1, <3>2
  <2>3. PICK i \in DOMAIN items : Same(items[i], Code(g, e))
    BY <1>12, <2>1, <2>2 DEF ManifestInv, CountedInv
  <2>4. i \in DOMAIN items' /\ Refreshed(is[i], items'[i], xs) /\ Kin(items[i], is[i])
    BY <1>6, <1>7, <2>1, <2>3 DEF Grown
  <2> QED BY <2>3, <2>4 DEF Same, Refreshed, Kin
<1>15. ProjectedInv'
  BY <1>2 DEF ProjectedInv
<1> QED BY <1>10, <1>11, <1>13, <1>14, <1>15 DEF ManifestInv

\* An edit that is rolled back makes the items of its file STALE.
LEMMA EditRejectedKeeps ==
  ASSUME ManifestInv, NEW f \in Files, EditRejected(f)
  PROVE  ManifestInv'
<1> DEFINE is == MarkedStale(items, f)
<1>1. /\ projected' = FALSE /\ edited' = edited \cup {f} /\ items' = is
      /\ UNCHANGED <<layout, held, strayed>>
      /\ hurried \subseteq hurried' /\ hurried' \subseteq hurried \cup {f}
      /\ Hurried(f) => f \in hurried'
  BY DEF EditRejected, Call
<1>2. TypedInv
  BY DEF ManifestInv
<1>3. /\ is \in Seq(Items) /\ Len(is) = Len(items) /\ DOMAIN is = DOMAIN items
      /\ \A i \in DOMAIN items :
           /\ Kin(items[i], is[i])
           /\ items[i].file # f \/ items[i].status = "missing" => is[i] = items[i]
           /\ items[i].file = f /\ items[i].status # "missing" => is[i].status = "stale"
  <2>1. items \in Seq(Items)
    BY <1>2 DEF TypedInv
  <2>2. /\ is \in Seq(Items) /\ Len(is) = Len(items)
        /\ \A i \in DOMAIN items :
             /\ Kin(items[i], is[i])
             /\ items[i].file # f \/ items[i].status = "missing" => is[i] = items[i]
             /\ items[i].file = f /\ items[i].status # "missing" => is[i].status = "stale"
    BY <2>1, MarkedStaleType
  <2> HIDE DEF is
  <2> QED BY <2>1, <2>2
<1> HIDE DEF is
<1>4. TypedInv'
  <2>1. Distinct(is)
    BY <1>2, <1>3 DEF TypedInv, Distinct, Kin, Same
  <2>2. edited' \subseteq Files /\ hurried' \subseteq edited'
    BY <1>1, <1>2 DEF TypedInv
  <2> QED BY <1>1, <1>2, <1>3, <2>1, <2>2 DEF TypedInv, Distinct, Same
<1>5. StandingInv'
  <2>1. ASSUME NEW i \in DOMAIN items
        PROVE  Standing(is[i], layout, held, hurried', strayed)
    <3>1. items[i].file = f /\ items[i].status = "missing" => Hurried(f)
      BY DEF Hurried
    <3>2. Standing(items[i], layout, held, hurried, strayed)
      BY DEF ManifestInv, StandingInv
    <3> QED BY <1>1, <1>3, <3>1, <3>2 DEF Standing, Kin
  <2> QED BY <1>1, <1>3, <2>1 DEF StandingInv
<1>6. \A g \in Untouched' : g # f /\ g \in Untouched
  BY <1>1 DEF Untouched
<1>7. \A g \in Files : Defined(g)' = Defined(g)
  BY <1>1 DEF Defined
<1>8. UneditedInv'
  <2> SUFFICES ASSUME NEW g \in Untouched'
               PROVE  /\ \A i \in DOMAIN is : is[i].file = g => is[i].status # "stale"
                      /\ \A y \in held : y.file = g => \E e \in Defined(g) : y = Code(g, e)
    BY <1>1, <1>7 DEF UneditedInv, Untouched, Code
  <2> QED BY <1>3, <1>6 DEF ManifestInv, UneditedInv, Kin
<1>9. CountedInv'
  <2> SUFFICES ASSUME NEW g \in Untouched', NEW e \in Defined(g),
                      Code(g, e) \in held, Len(items) < MaxObserved, Apart(g, e)
               PROVE  \E i \in DOMAIN items' : Same(items'[i], Code(g, e))
    BY <1>1, <1>3, <1>7 DEF CountedInv, Untouched, Apart, Code, Nested, Covers, Same
  <2>1. PICK i \in DOMAIN items : Same(items[i], Code(g, e))
    BY <1>6 DEF ManifestInv, CountedInv
  <2> QED BY <1>1, <1>3, <2>1 DEF Same, Kin
<1>10. ProjectedInv'
  BY <1>1 DEF ProjectedInv
<1> QED BY <1>4, <1>5, <1>8, <1>9, <1>10 DEF ManifestInv

\* The start of a step looks for every item that is not STALE.
LEMMA ProjectedType ==
  ASSUME NEW is \in Seq(Items), NEW hs
  PROVE  /\ Projected(is, hs) \in Seq(Items) /\ Len(Projected(is, hs)) = Len(is)
         /\ \A i \in DOMAIN is :
              /\ Kin(is[i], Projected(is, hs)[i])
              /\ Projected(is, hs)[i].status = IF is[i].status = "stale" THEN "stale"
                                               ELSE IF Covered(is[i], hs) THEN "satisfied"
                                               ELSE "missing"
<1> DEFINE st(i) == IF is[i].status = "stale" THEN "stale"
                    ELSE IF Covered(is[i], hs) THEN "satisfied" ELSE "missing"
           new(i) == [is[i] EXCEPT !.status = st(i)]
           r == Projected(is, hs)
<1>1. r = [i \in DOMAIN is |-> new(i)]
  <2>1. \A i \in DOMAIN is : is[i] \in Items
    OBVIOUS
  <2> QED BY <2>1 DEF Projected
<1>2. ASSUME NEW i \in DOMAIN is
      PROVE  Kin(is[i], new(i)) /\ new(i).status = st(i)
  <2>1. is[i] \in Items /\ st(i) \in {"missing", "satisfied", "stale"}
    OBVIOUS
  <2> HIDE DEF st
  <2> QED BY <2>1, StatusType DEF Kin
<1> HIDE DEF new
<1>3. \A i \in DOMAIN is : new(i) \in Items
  BY <1>2 DEF Kin
<1>4. Len(is) \in Nat /\ DOMAIN is = 1 .. Len(is)
  OBVIOUS
<1>5. r \in Seq(Items) /\ Len(r) = Len(is)
  BY <1>1, <1>3, <1>4
<1> QED BY <1>1, <1>2, <1>5

\* The start of a step leaves every item at its lines.
LEMMA ProjectKeeps ==
  ASSUME ManifestInv, Project
  PROVE  ManifestInv'
<1> DEFINE is == Projected(items, held)
<1>1. items' = is /\ UNCHANGED <<layout, held, edited, hurried, strayed>>
  BY DEF Project
<1>2. TypedInv
  BY DEF ManifestInv
<1>3. /\ is \in Seq(Items) /\ Len(is) = Len(items) /\ DOMAIN is = DOMAIN items
      /\ \A i \in DOMAIN items :
           /\ Kin(items[i], is[i])
           /\ is[i].status = IF items[i].status = "stale" THEN "stale"
                             ELSE IF Covered(items[i], held) THEN "satisfied" ELSE "missing"
  <2>1. items \in Seq(Items)
    BY <1>2 DEF TypedInv
  <2>2. /\ is \in Seq(Items) /\ Len(is) = Len(items)
        /\ \A i \in DOMAIN items :
             /\ Kin(items[i], is[i])
             /\ is[i].status = IF items[i].status = "stale" THEN "stale"
                               ELSE IF Covered(items[i], held) THEN "satisfied" ELSE "missing"
    BY <2>1, ProjectedType
  <2> HIDE DEF is
  <2> QED BY <2>1, <2>2
<1> HIDE DEF is
<1>4. \A g \in Files : Defined(g)' = Defined(g)
  BY <1>1 DEF Defined
<1>5. TypedInv'
  <2>1. Distinct(is)
    BY <1>2, <1>3 DEF TypedInv, Distinct, Kin, Same
  <2> QED BY <1>1, <1>2, <1>3, <2>1 DEF TypedInv, Distinct, Same
<1>6. StandingInv'
  <2>1. ASSUME NEW i \in DOMAIN items
        PROVE  Standing(is[i], layout, held, hurried, strayed)
    <3>1. Standing(items[i], layout, held, hurried, strayed)
      BY DEF ManifestInv, StandingInv
    <3>2. InPlace(items[i], layout) => InPlace(is[i], layout)
      BY <1>3 DEF InPlace, Kin
    <3>3. InContext(items[i], held) => InContext(is[i], held)
      BY <1>3 DEF InContext, Same, Kin
    <3> QED BY <1>3, <3>1, <3>2, <3>3 DEF Standing, Kin
  <2> QED BY <1>1, <1>3, <2>1 DEF StandingInv
<1>7. UneditedInv'
  <2> SUFFICES ASSUME NEW g \in Untouched
               PROVE  /\ \A i \in DOMAIN is : is[i].file = g => is[i].status # "stale"
                      /\ \A y \in held : y.file = g => \E e \in Defined(g) : y = Code(g, e)
    BY <1>1, <1>4 DEF UneditedInv, Untouched, Code
  <2> QED BY <1>3 DEF ManifestInv, UneditedInv, Kin
<1>8. CountedInv'
  <2> SUFFICES ASSUME NEW g \in Untouched, NEW e \in Defined(g),
                      Code(g, e) \in held, Len(items) < MaxObserved, Apart(g, e)
               PROVE  \E i \in DOMAIN items' : Same(items'[i], Code(g, e))
    BY <1>1, <1>3, <1>4 DEF CountedInv, Untouched, Apart, Code, Nested, Covers, Same
  <2>1. PICK i \in DOMAIN items : Same(items[i], Code(g, e))
    BY DEF ManifestInv, CountedInv
  <2> QED BY <1>1, <1>3, <2>1 DEF Same, Kin
<1>9. ProjectedInv'
  <2>1. ASSUME NEW i \in DOMAIN items, is[i].status = "missing"
        PROVE  ~InContext(is[i], held)
    <3>1. ~Covered(items[i], held)
      BY <1>3, <2>1
    <3> QED BY <1>3, <3>1 DEF Covered, InContext, Same, Kin
  <2> QED BY <1>1, <1>3, <2>1 DEF ProjectedInv, InContext, Same
<1> QED BY <1>5, <1>6, <1>7, <1>8, <1>9 DEF ManifestInv

\* Between two steps nothing changes.
LEMMA StutterKeeps ==
  ASSUME ManifestInv, UNCHANGED vars
  PROVE  ManifestInv'
<1>1. UNCHANGED <<layout, items, held, edited, projected, hurried, strayed>>
  BY DEF vars
<1>2. \A f \in Files : Defined(f)' = Defined(f)
  BY <1>1 DEF Defined
<1>3. TypedInv'
  BY <1>1 DEF ManifestInv, TypedInv, Distinct, Same
<1>4. StandingInv'
  BY <1>1 DEF ManifestInv, StandingInv
<1>5. UneditedInv'
  BY <1>1, <1>2 DEF ManifestInv, UneditedInv, Untouched, Code
<1>6. CountedInv'
  BY <1>1, <1>2 DEF ManifestInv, CountedInv, Untouched, Apart, Code, Nested, Covers, Same
<1>7. ProjectedInv'
  BY <1>1 DEF ManifestInv, ProjectedInv, InContext, Same
<1> QED BY <1>3, <1>4, <1>5, <1>6, <1>7 DEF ManifestInv

\* Every step keeps the invariant.
LEMMA StepKeeps ==
  ASSUME ManifestInv, [Next]_vars
  PROVE  ManifestInv'
<1>1. ASSUME NEW f \in Files, NEW d \in Defined(f), View(f, d)
      PROVE  ManifestInv'
  BY <1>1, ViewKeeps
<1>2. ASSUME NEW f \in Files, NEW w \in Files, NEW n \in DOMAIN Layouts[w], EditLands(f, w, n)
      PROVE  ManifestInv'
  <2> DEFINE kept == {x \in held : x.file # f}
  <2>1. kept \in SUBSET held /\ \A y \in held : y.file # f => y \in kept
    OBVIOUS
  <2>2. Lands(f, w, n, kept)
    BY <1>2 DEF EditLands
  <2> HIDE DEF kept
  <2> QED BY <1>2, <2>1, <2>2, LandsKeeps
<1>3. ASSUME NEW f \in Files, NEW w \in Files, NEW n \in DOMAIN Layouts[w], DrainLands(f, w, n)
      PROVE  ManifestInv'
  <2>1. Lands(f, w, n, held) /\ held \in SUBSET held
    BY <1>3 DEF DrainLands
  <2> QED BY <1>3, <2>1, LandsKeeps
<1>4. ASSUME NEW f \in Files, EditRejected(f)
      PROVE  ManifestInv'
  BY <1>4, EditRejectedKeeps
<1>5. CASE Project
  BY <1>5, ProjectKeeps
<1>6. CASE UNCHANGED vars
  BY <1>6, StutterKeeps
<1> QED BY <1>1, <1>2, <1>3, <1>4, <1>5, <1>6 DEF Next

-----------------------------------------------------------------------------
(* What suffices for an edit.                                              *)

Counts(x) == x.status \in {"satisfied", "stale"}

\* What is grounded, and which of it are symbols.
LEMMA GroundedMembers ==
  ASSUME NEW is \in Seq(Items)
  PROVE  /\ ToSet(Grounded(is)) = {x \in ToSet(is) : Counts(x)}
         /\ ToSet(Symbols(is)) = {x \in ToSet(is) : Counts(x) /\ ~x.schema}
<1> DEFINE S == {x \in ToSet(is) : x.status \in {"satisfied", "stale"}}
           gs == Grounded(is)
           T == {x \in ToSet(is) : ~x.schema}
<1>1. gs = Only(is, S) /\ Symbols(is) = Only(gs, T)
  <2>1. gs = Only(is, S)
    BY DEF Grounded
  <2>2. Symbols(is) = Only(gs, T)
    BY DEF Symbols
  <2> QED BY <2>1, <2>2
<1> HIDE DEF S, gs
<1>2. gs \in Seq(Items) /\ ToSet(gs) = ToSet(is) \cap S
  BY <1>1, OnlySelects
<1>3. ToSet(gs) = {x \in ToSet(is) : Counts(x)}
  BY <1>2 DEF S, Counts
<1> HIDE DEF T
<1>4. ToSet(Symbols(is)) = ToSet(gs) \cap T
  BY <1>1, <1>2, OnlySelects
<1>5. ToSet(Symbols(is)) = {x \in ToSet(gs) : ~x.schema}
  BY <1>3, <1>4 DEF T
<1> QED BY <1>3, <1>5 DEF gs

\* The files of long symbols are few.
LEMMA FilesFinite ==
  ASSUME NEW is \in Seq(Items), NEW S \in SUBSET ToSet(is)
  PROVE  IsFiniteSet({x.file : x \in S})
<1> DEFINE D == {i \in 1 .. Len(is) : is[i] \in S}
           T == {x.file : x \in S}
           f == [i \in D |-> is[i].file]
<1>1. IsFiniteSet(D)
  <2>1. IsFiniteSet(1 .. Len(is)) /\ D \in SUBSET (1 .. Len(is))
    BY FS_Interval
  <2> HIDE DEF D
  <2> QED BY <2>1, FS_Subset
<1>2. f \in Surjection(D, T)
  <2>1. \A x \in S : \E i \in D : is[i] = x
    BY DEF ToSet
  <2>2. f \in [D -> T]
    OBVIOUS
  <2>3. \A t \in T : \E i \in D : f[i] = t
    BY <2>1
  <2> QED BY <2>2, <2>3 DEF Surjection
<1> HIDE DEF f, D, T
<1>3. IsFiniteSet(T)
  BY <1>1, <1>2, FS_Surjection
<1> QED BY <1>3 DEF T

\* y counts as x does, and is no shorter.
Kept(x, y) ==
  /\ x.status \in {"satisfied", "stale"} => y.status \in {"satisfied", "stale"}
  /\ y.file = x.file /\ y.schema = x.schema
  /\ Width(y) >= Width(x)

\* Items that are kept suffice as before, unless there is a new gap.
LEMMA KeptSuffices ==
  ASSUME NEW is \in Seq(Items), NEW r \in Seq(Items), Ready(is),
         \A i \in DOMAIN is : i \in DOMAIN r /\ Kept(is[i], r[i]),
         Gaps(r) \subseteq Gaps(is)
  PROVE  Ready(r)
<1> DEFINE G == ToSet(Grounded(is))
           H == ToSet(Grounded(r))
           S == ToSet(Symbols(is))
           T == ToSet(Symbols(r))
           Long(X) == {x.file : x \in {y \in X : Width(y) >= MinLines}}
<1>1. /\ G = {x \in ToSet(is) : Counts(x)} /\ H = {x \in ToSet(r) : Counts(x)}
      /\ S = {x \in ToSet(is) : Counts(x) /\ ~x.schema}
      /\ T = {x \in ToSet(r) : Counts(x) /\ ~x.schema}
  BY GroundedMembers
<1>2. \/ S # {} /\ \E x \in G : x.schema /\ Width(x) >= MinLines
      \/ \E x \in S : Width(x) >= LargeLines
      \/ Cardinality(Long(S)) >= 2 /\ Gaps(is) = {}
  BY DEF Ready
<1>3. Ready(r) <=>
        \/ T # {} /\ \E x \in H : x.schema /\ Width(x) >= MinLines
        \/ \E x \in T : Width(x) >= LargeLines
        \/ Cardinality(Long(T)) >= 2 /\ Gaps(r) = {}
  BY DEF Ready
<1> HIDE DEF G, H, S, T
<1>4. ASSUME NEW x \in ToSet(is), Counts(x)
      PROVE  \E y \in ToSet(r) : Counts(y) /\ Kept(x, y) /\ Width(y) \in Int /\ Width(x) \in Int
  <2>1. PICK i \in DOMAIN is : x = is[i]
    BY DEF ToSet
  <2>2. i \in DOMAIN r /\ Kept(is[i], r[i]) /\ r[i] \in Items /\ is[i] \in Items
    OBVIOUS
  <2>3. Width(r[i]) \in Int /\ Width(is[i]) \in Int
    BY <2>2 DEF Items, Width
  <2>4. r[i] \in ToSet(r) /\ Counts(r[i])
    BY <1>4, <2>1, <2>2 DEF ToSet, Kept, Counts
  <2> QED BY <2>1, <2>2, <2>3, <2>4
<1>5. \A x \in S : \E y \in T : Kept(x, y) /\ Width(y) \in Int /\ Width(x) \in Int
  BY <1>1, <1>4 DEF Kept
<1>6. \A x \in G : \E y \in H : Kept(x, y) /\ Width(y) \in Int /\ Width(x) \in Int
  BY <1>1, <1>4
<1>7. CASE S # {} /\ \E x \in G : x.schema /\ Width(x) >= MinLines
  <2>1. T # {} /\ \E y \in H : y.schema /\ Width(y) >= MinLines
    BY <1>5, <1>6, <1>7 DEF Kept, MinLines
  <2> QED BY <1>3, <2>1
<1>8. CASE \E x \in S : Width(x) >= LargeLines
  <2>1. \E y \in T : Width(y) >= LargeLines
    BY <1>5, <1>8 DEF Kept, LargeLines
  <2> QED BY <1>3, <2>1
<1>9. CASE Cardinality(Long(S)) >= 2 /\ Gaps(is) = {}
  <2>1. Long(S) \subseteq Long(T)
    BY <1>5 DEF Kept, MinLines
  <2>2. IsFiniteSet(Long(T))
    <3> DEFINE U == {y \in T : Width(y) >= MinLines}
    <3>1. U \in SUBSET ToSet(r)
      BY <1>1
    <3> HIDE DEF U
    <3>2. IsFiniteSet({x.file : x \in U})
      BY <3>1, FilesFinite
    <3> QED BY <3>2 DEF U
  <2> DEFINE A == Long(S)
             B == Long(T)
  <2>3. A \in SUBSET B /\ IsFiniteSet(B) /\ Cardinality(A) >= 2
    BY <1>9, <2>1, <2>2
  <2> HIDE DEF A, B
  <2>4. Cardinality(B) >= 2
    <3>1. /\ IsFiniteSet(A) /\ Cardinality(A) <= Cardinality(B)
      BY <2>3, FS_Subset
    <3>2. Cardinality(A) \in Nat /\ Cardinality(B) \in Nat
      BY <2>3, <3>1, FS_CardinalityType
    <3> QED BY <2>3, <3>1, <3>2
  <2>5. Cardinality(Long(T)) >= 2 /\ Gaps(r) = {}
    BY <1>9, <2>4 DEF B
  <2> QED BY <1>3, <2>5
<1> QED BY <1>2, <1>7, <1>8, <1>9

\* A refreshed item keeps what it counts for.
LEMMA ReconciledKept ==
  ASSUME NEW is \in Seq(Items), NEW xs \in Seq(Pieces), NEW i \in DOMAIN is
  PROVE  LET r == Reconciled(is, xs)
         IN  /\ i \in DOMAIN r
             /\ r[i].file = is[i].file /\ r[i].schema = is[i].schema
             /\ r[i].status = is[i].status \/ r[i].status = "satisfied"
<1> DEFINE r == Reconciled(is, xs)
<1>1. Grown(is, r, xs)
  BY ReconciledGrown
<1> HIDE DEF r
<1>2. i \in DOMAIN r /\ Refreshed(is[i], r[i], xs)
  BY <1>1 DEF Grown
<1>3. /\ i \in DOMAIN r
      /\ r[i].file = is[i].file /\ r[i].schema = is[i].schema
      /\ r[i].status = is[i].status \/ r[i].status = "satisfied"
  BY <1>2 DEF Refreshed
<1> QED BY <1>3 DEF r

\* No step forgets an item that counts, but the start of one an item of a hurried file.
LEMMA StepKeepsItems ==
  ASSUME ManifestInv, Next, ~Forgotten, NEW i \in DOMAIN items
  PROVE  /\ i \in DOMAIN items'
         /\ items'[i].file = items[i].file /\ items'[i].schema = items[i].schema
         /\ Counts(items[i]) => Counts(items'[i])
<1> DEFINE Keeps == /\ i \in DOMAIN items'
                    /\ items'[i].file = items[i].file /\ items'[i].schema = items[i].schema
                    /\ Counts(items[i]) => Counts(items'[i])
<1>1. items \in Seq(Items) /\ held \subseteq Pieces
  BY DEF ManifestInv, TypedInv
<1>2. ASSUME NEW f \in Files, NEW d \in Defined(f), View(f, d)
      PROVE  Keeps
  <2> DEFINE xs == <<Code(f, d)>>
  <2>1. items' = Reconciled(items, xs)
    BY <1>2 DEF View
  <2>2. xs \in Seq(Pieces)
    <3>1. layout[f] \in DOMAIN Layouts[f]
      BY DEF ManifestInv, TypedInv
    <3>2. Code(f, d) \in Pieces
      BY <3>1, CodeType DEF Defined
    <3> QED BY <3>2
  <2> HIDE DEF xs
  <2> QED BY <1>1, <2>1, <2>2, ReconciledKept DEF Counts
<1>3. ASSUME NEW f \in Files, NEW w \in Files, NEW n \in DOMAIN Layouts[w], NEW kept,
             Lands(f, w, n, kept)
      PROVE  Keeps
  <2> DEFINE is == MarkedStale(items, f)
             now == layout'[f]
  <2>1. PICK xs \in PostEdit(f, now) : items' = Reconciled(is, xs)
    BY <1>3 DEF Lands
  <2>2. xs \in Seq(Pieces)
    <3>1. now \in DOMAIN Layouts[f]
      BY <1>3 DEF Lands, ManifestInv, TypedInv
    <3> HIDE DEF now
    <3> QED BY <3>1, PostEditType
  <2>3. /\ is \in Seq(Items) /\ i \in DOMAIN is /\ Kin(items[i], is[i])
        /\ is[i].status = items[i].status \/ is[i].status = "stale"
    <3>1. /\ is \in Seq(Items) /\ Len(is) = Len(items)
          /\ Kin(items[i], is[i])
          /\ items[i].file # f \/ items[i].status = "missing" => is[i] = items[i]
          /\ items[i].file = f /\ items[i].status # "missing" => is[i].status = "stale"
      BY <1>1, MarkedStaleType
    <3> HIDE DEF is
    <3> QED BY <1>1, <3>1
  <2> HIDE DEF is
  <2>4. /\ i \in DOMAIN items'
        /\ items'[i].file = is[i].file /\ items'[i].schema = is[i].schema
        /\ items'[i].status = is[i].status \/ items'[i].status = "satisfied"
    BY <2>1, <2>2, <2>3, ReconciledKept
  <2> QED BY <2>3, <2>4 DEF Kin, Counts
<1>4. ASSUME NEW f \in Files, EditRejected(f)
      PROVE  Keeps
  <2> DEFINE is == MarkedStale(items, f)
  <2>1. items' = is
    BY <1>4 DEF EditRejected
  <2>2. /\ is \in Seq(Items) /\ Len(is) = Len(items)
        /\ Kin(items[i], is[i])
        /\ items[i].file # f \/ items[i].status = "missing" => is[i] = items[i]
        /\ items[i].file = f /\ items[i].status # "missing" => is[i].status = "stale"
    BY <1>1, MarkedStaleType
  <2> HIDE DEF is
  <2> QED BY <1>1, <2>1, <2>2 DEF Kin, Counts
<1>5. CASE Project
  <2> DEFINE is == Projected(items, held)
  <2>1. items' = is
    BY <1>5 DEF Project
  <2>2. /\ is \in Seq(Items) /\ Len(is) = Len(items)
        /\ Kin(items[i], is[i])
        /\ is[i].status = IF items[i].status = "stale" THEN "stale"
                          ELSE IF Covered(items[i], held) THEN "satisfied" ELSE "missing"
    BY <1>1, ProjectedType
  <2> HIDE DEF is
  <2>3. items[i].status = "satisfied" => Covered(items[i], held)
    <3> SUFFICES ASSUME items[i].status = "satisfied", ~Covered(items[i], held)
                 PROVE  FALSE
      OBVIOUS
    <3>1. items[i].file \notin hurried
      BY <2>1, <2>2 DEF Forgotten
    <3>2. InContext(items[i], held)
      BY <3>1 DEF ManifestInv, StandingInv, Standing
    <3> QED BY <3>2 DEF Covered, InContext, Same
  <2> QED BY <1>1, <2>1, <2>2, <2>3 DEF Kin, Counts
<1> QED BY <1>2, <1>3, <1>4, <1>5 DEF Next, EditLands, DrainLands

-----------------------------------------------------------------------------
(* Theorems.                                                               *)

\* What the manifest holds belongs together in every state: loads, edits that land or are
\* rolled back, drained steps and projections keep it (manifest.py and the loop's
\* _mark_stale_for_files and _ingest_code_artifacts).
THEOREM ManifestInvariant == Spec => []ManifestInv
<1>1. Init => ManifestInv
  BY InitManifest
<1>2. ManifestInv /\ [Next]_vars => ManifestInv'
  BY StepKeeps
<1> QED BY <1>1, <1>2, PTL DEF Spec

\* The manifest stays within its limit and knows no symbol of a file twice, whatever is
\* loaded, refreshed or edited (supersede_stale_with_observations and the cap of
\* MAX_OBSERVED_ITEMS).
THEOREM ManifestTypeCorrect == Spec => []ManifestTypeOK
<1>1. ManifestInv => ManifestTypeOK
  <2> SUFFICES ASSUME ManifestInv
               PROVE  ManifestTypeOK
    OBVIOUS
  <2>1. TypedInv /\ \A i \in DOMAIN items : items[i] \in Items
    BY DEF ManifestInv, TypedInv
  <2> QED BY <2>1 DEF TypedInv, Distinct, Items, ManifestTypeOK
<1> QED BY <1>1, ManifestInvariant, PTL

\* What is called SATISFIED is in context, and lies where the item says unless an edit
\* whose call named another file wrote it, but for files of which an item was edited in
\* the response that loaded it (project_manifest and _mark_stale_for_files).
THEOREM SatisfiedCurrent == Spec => []SatisfiedIsCurrent
<1>1. ManifestInv => SatisfiedIsCurrent
  <2> SUFFICES ASSUME ManifestInv, NEW i \in DOMAIN items,
                      items[i].status = "satisfied",
                      items[i].file \notin hurried
               PROVE  /\ items[i].file \notin strayed =>
                           \E d \in Defined(items[i].file) :
                             /\ d.sym = items[i].sym
                             /\ d.first = items[i].first /\ d.last = items[i].last
                      /\ \E y \in held : /\ y.file = items[i].file
                                         /\ y.sym = items[i].sym \/ Covers(y, items[i])
    BY DEF SatisfiedIsCurrent
  <2>1. /\ items[i].file \notin strayed => InPlace(items[i], layout)
        /\ InContext(items[i], held)
    BY DEF ManifestInv, StandingInv, Standing
  <2> QED BY <2>1 DEF InPlace, InContext, Same, Defined
<1> QED BY <1>1, ManifestInvariant, PTL

\* What fact locking refuses to show again is counted by the manifest, but for nested code
\* what the limit leaves out and the files excepted above (fact_locking.py against the
\* sufficiency of manifest.py).
THEOREM LockedCodeIsCounted == Spec => []LockedIsCounted
<1>1. ManifestInv => LockedIsCounted
  <2> SUFFICES ASSUME ManifestInv, projected, NEW f \in Files \ (hurried \cup strayed),
                      NEW d \in Defined(f), Locked(Code(f, d)), Len(items) < MaxObserved, Apart(f, d)
               PROVE  \E y \in ToSet(Grounded(items)) :
                        Same(Code(f, d), y) /\ Width(Code(f, d)) = Width(y)
    BY DEF LockedIsCounted, Apart
  <2> DEFINE x == Code(f, d)
  <2>1. TypedInv /\ items \in Seq(Items)
    BY DEF ManifestInv, TypedInv
  <2>2. x.file = f /\ x.sym = d.sym /\ x.first = d.first /\ x.last = d.last
    BY DEF Code
  <2>3. f \in Untouched
    BY <2>2 DEF Locked, Untouched
  <2>4. PICK y \in held : y.file = f /\ (y.sym = x.sym \/ Covers(y, x))
    BY <2>2 DEF Locked
  <2>5. PICK e \in Defined(f) : y = Code(f, e)
    BY <2>3, <2>4 DEF ManifestInv, UneditedInv
  <2>6. y.sym = e.sym /\ y.first = e.first /\ y.last = e.last
    BY <2>5 DEF Code
  <2>7. e = d
    <3>1. Covers(y, x) => Nested(d, e)
      BY <2>2, <2>6 DEF Covers, Nested
    <3>2. y.sym = x.sym => e = d
      BY <2>1, <2>2, <2>6, OneDefinition
    <3> QED BY <2>4, <3>1, <3>2 DEF Apart
  <2>8. x \in held
    BY <2>5, <2>7
  <2>9. PICK i \in DOMAIN items : Same(items[i], x)
    BY <2>3, <2>8 DEF ManifestInv, CountedInv
  <2>10. items[i] \in Items /\ items[i].file = f /\ items[i].sym = d.sym
    BY <2>1, <2>2, <2>9 DEF Same
  <2>11. items[i].status # "stale"
    BY <2>3, <2>10 DEF ManifestInv, UneditedInv
  <2>12. items[i].status # "missing"
    BY <2>8, <2>9 DEF ManifestInv, ProjectedInv, InContext
  <2>13. Counts(items[i])
    BY <2>10, <2>11, <2>12 DEF Items, Counts
  <2>14. InPlace(items[i], layout)
    BY <2>10, <2>11 DEF ManifestInv, StandingInv, Standing
  <2>15. PICK c \in Defined(f) :
           c.sym = d.sym /\ c.first = items[i].first /\ c.last = items[i].last
    BY <2>10, <2>14 DEF InPlace, Defined
  <2>16. c = d
    BY <2>1, <2>15, OneDefinition
  <2>17. Width(x) = Width(items[i])
    BY <2>2, <2>15, <2>16 DEF Width
  <2>18. items[i] \in ToSet(Grounded(items))
    <3>1. ToSet(Grounded(items)) = {z \in ToSet(items) : Counts(z)}
      BY <2>1, GroundedMembers
    <3>2. items[i] \in ToSet(items)
      BY DEF ToSet
    <3> QED BY <2>13, <3>1, <3>2
  <2>19. Same(x, items[i])
    BY <2>9 DEF Same
  <2> QED BY <2>17, <2>18, <2>19
<1> QED BY <1>1, ManifestInvariant, PTL

\* Readiness for an edit is lost only by a load that opens a gap or finds a symbol
\* smaller, or by an item of a hurried file (compute_sufficiency over the statuses that
\* _mark_stale_for_files and the projection leave).
THEOREM ReadinessKept == Spec => ReadyUntilGap
<1> DEFINE Step == Ready(items) /\ ~Ready(items') =>
                     Shrunk \/ Forgotten \/ ~(Gaps(items') \subseteq Gaps(items))
<1>1. ManifestInv /\ ManifestInv' /\ [Next]_vars => [Step]_vars
  <2> SUFFICES ASSUME ManifestInv, ManifestInv', Next, Ready(items), ~Shrunk, ~Forgotten,
                      Gaps(items') \subseteq Gaps(items)
               PROVE  Ready(items')
    OBVIOUS
  <2>1. items \in Seq(Items) /\ items' \in Seq(Items)
    BY DEF ManifestInv, TypedInv
  <2>2. ASSUME NEW i \in DOMAIN items
        PROVE  i \in DOMAIN items' /\ Kept(items[i], items'[i])
    <3>1. /\ i \in DOMAIN items'
          /\ items'[i].file = items[i].file /\ items'[i].schema = items[i].schema
          /\ Counts(items[i]) => Counts(items'[i])
      BY StepKeepsItems
    <3>2. items[i] \in Items /\ items'[i] \in Items
      BY <2>1, <3>1
    <3>3. Width(items'[i]) >= Width(items[i])
      <4>1. ~(Width(items'[i]) < Width(items[i]))
        BY DEF Shrunk
      <4>2. Width(items'[i]) \in Int /\ Width(items[i]) \in Int
        BY <3>2 DEF Items, Width
      <4> QED BY <4>1, <4>2
    <3> QED BY <3>1, <3>3 DEF Kept, Counts
  <2> QED BY <2>1, <2>2, KeptSuffices
<1> QED BY <1>1, ManifestInvariant, PTL DEF Spec, ReadyUntilGap
=============================================================================
