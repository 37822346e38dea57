------------------------- MODULE ContextStoreProofs -------------------------
(***************************************************************************)
(* Theorems about ContextStore, for any layout of the project, any codes of *)
(* the slices and any limits: the code in context is the code on disk, what *)
(* is refused as held is shown, and the dates are those of the anchors.     *)
(***************************************************************************)
EXTENDS ContextStore, FiniteInduction, SequenceTheorems

-----------------------------------------------------------------------------
(* The inductive invariant.                                                *)

Spans == [first : Nat, last : Nat]

\* Evidence: a hit, a symbol without its code, or the code of a symbol.
Pieces ==
  {x \in [file : Files, sym : Slices \cup {NoSymbol}, first : Nat, last : Nat,
          text : Texts \cup {NoText}] :
     /\ x.sym \in Slices => x.file = FileOf(x.sym)
     /\ x.text # NoText => x.sym \in Slices /\ Width(x) = LinesOf[x.text]}

Results == [item : Pieces, repeats : Seq(Pieces)]

\* Each anchor has its date, and what grounded it.
TypedInv ==
  /\ step \in 0 .. MaxSteps
  /\ text \in [Slices -> Texts]
  /\ indexed \in [Slices -> Spans]
  /\ code \in Seq(Pieces)
  /\ \A x \in Anchors : x.text # NoText
  /\ DOMAIN created = Ids
  /\ \A i \in Ids : created[i] \in 1 .. step
  /\ raw \in Seq(Pieces) /\ Len(raw) <= Limit
  /\ \A x \in Anchors : [file |-> x.file, id |-> Id(x)] \in grounded
  /\ results \in Seq(Results)
  /\ step = 0 => results = <<>>

\* What is held, or on its way.
Known ==
  Anchors \cup ToSet(raw) \cup {results[i].item : i \in DOMAIN results}
    \cup UNION {ToSet(results[i].repeats) : i \in DOMAIN results}

Current(x) == x.text # NoText /\ x.file \notin outdated => x = Viewed(x.sym)

CurrentInv == \A x \in Known : Current(x)

\* The repo map is right about files that were never written.
IndexInv ==
  \A s \in Slices : FileOf(s) \notin outdated \cup modified => indexed[s] = Place(text, s)

\* The results so far that repeat nothing.
FreshBefore(out, j) == {i \in 1 .. j - 1 : out[i].repeats = <<>>}

FreshItemsBefore(out, j) == {out[i].item : i \in FreshBefore(out, j)}

\* A result that repeats nothing still repeats nothing when it is stored, and a hit
\* that is repeated has been stored by then.
BatchInv ==
  \A j \in DOMAIN results :
    /\ results[j].repeats = <<>> =>
         \A y \in Anchors \cup FreshItemsBefore(results, j) :
           SameEvidence(results[j].item, y) /\ Redundant(results[j].item, y)
             => Better(results[j].item, y)
    /\ \A y \in ToSet(results[j].repeats) :
         y.text # NoText \/ y.file \in crowded \/ y \in FreshItemsBefore(results, j)

\* The working set holds every anchor that nothing pushed out.
CoverInv ==
  \A x \in Anchors : x.file \notin outdated \cup crowded => x \in ToSet(raw)

ContextInv == TypedInv /\ CurrentInv /\ IndexInv /\ BatchInv /\ CoverInv

-----------------------------------------------------------------------------
(* Lines.                                                                  *)

\* A slice is a slice of its file.
LEMMA FileOfSlice ==
  ASSUME NEW s \in Slices
  PROVE  FileOf(s) \in Files /\ s \in SlicesOf(FileOf(s))
<1>1. \E f \in Files : s \in SlicesOf(f)
  BY DEF Slices
<1> QED BY <1>1 DEF FileOf

\* A slice has a rank in its file.
LEMMA RankOfSlice ==
  ASSUME NEW s \in Slices
  PROVE  /\ Rank(s) \in 1 .. Len(Layout[FileOf(s)])
         /\ Layout[FileOf(s)][Rank(s)] = s
         /\ Len(Layout[FileOf(s)]) \in Nat
<1> DEFINE q == Layout[FileOf(s)]
<1>1. q \in Seq(SlicesOf(FileOf(s))) /\ s \in SlicesOf(FileOf(s))
  BY FileOfSlice, LayoutAssumption
<1>2. \E k \in DOMAIN q : q[k] = s
  BY <1>1 DEF SlicesOf, ToSet
<1>3. Rank(s) \in DOMAIN q /\ q[Rank(s)] = s
  BY <1>2 DEF Rank
<1> QED BY <1>1, <1>3

\* The lines of a text.
LEMMA LinesType ==
  ASSUME NEW t \in [Slices -> Texts], NEW f \in Files, NEW n \in 1 .. Len(Layout[f])
  PROVE  /\ Layout[f][n] \in SlicesOf(f) /\ SlicesOf(f) \subseteq Slices
         /\ LinesOf[t[Layout[f][n]]] \in Nat \ {0}
<1>1. Layout[f] \in Seq(SlicesOf(f)) /\ SlicesOf(f) \subseteq Slices
  BY LayoutAssumption DEF Slices
<1>2. Layout[f][n] \in SlicesOf(f)
  BY <1>1
<1> QED BY <1>1, <1>2, ContextAssumption

\* A slice ends where the one before it ends, and its lines after.
LEMMA EndsUnfolds ==
  ASSUME NEW t \in [Slices -> Texts], NEW f \in Files
  PROVE  /\ Ends(t, f) \in [0 .. Len(Layout[f]) -> Nat]
         /\ Ends(t, f)[0] = 0
         /\ \A n \in 1 .. Len(Layout[f]) :
              Ends(t, f)[n] = Ends(t, f)[n - 1] + LinesOf[t[Layout[f][n]]]
<1> DEFINE N == Len(Layout[f])
           Step(n, r) == r + LinesOf[t[Layout[f][n]]]
           F == [p \in (1 .. N) \X Nat |-> Step(p[1], p[2])]
           Body(h) == [n \in 0 .. Len(Layout[f]) |->
                         IF n = 0 THEN 0 ELSE h[n - 1] + LinesOf[t[Layout[f][n]]]]
           end == CHOOSE h : h = Body(h)
<1>1. N \in Nat /\ \A n \in 1 .. N : LinesOf[t[Layout[f][n]]] \in Nat
  BY LinesType, LayoutAssumption
<1>2. F \in [(1 .. N) \X Nat -> Nat]
  BY <1>1
<1>3. Ends(t, f) = end
  BY DEF Ends
<1>4. PICK g : Unfolds(g, N, Nat, 0, F)
  <2> HIDE DEF F, N
  <2> QED BY <1>1, <1>2, RecursionExists
<1>5. g = Body(g)
  <2>1. g \in [0 .. N -> Nat] /\ g[0] = 0
    BY <1>4 DEF Unfolds
  <2>2. ASSUME NEW n \in 1 .. N
        PROVE  g[n] = Step(n, g[n - 1])
    <3>1. g[n] = F[<<n, g[n - 1]>>]
      BY <1>4 DEF Unfolds
    <3>2. n - 1 \in 0 .. N
      BY <1>1
    <3>3. <<n, g[n - 1]>> \in (1 .. N) \X Nat
      BY <2>1, <3>2
    <3> QED BY <3>1, <3>3
  <2>3. \A n \in 0 .. N : n = 0 \/ n \in 1 .. N
    BY <1>1
  <2> QED BY <2>1, <2>2, <2>3
<1>6. end = Body(end)
  BY <1>5
<1> HIDE DEF end
<1>7. end = [n \in 0 .. N |-> end[n]] /\ end[0] = 0
  BY <1>1, <1>6
<1>8. ASSUME NEW n \in 1 .. N
      PROVE  end[n] = Step(n, end[n - 1])
  <2>1. n \in 0 .. Len(Layout[f]) /\ n # 0
    BY <1>1
  <2> QED BY <1>6, <2>1
<1>9. Unfolds(end, N, Nat, 0, F)
  <2>1. \A n \in 1 .. N : end[n - 1] \in Nat => end[n] = F[<<n, end[n - 1]>>]
    BY <1>8
  <2> HIDE DEF F, N
  <2> QED BY <1>1, <1>2, <1>7, <2>1, RecursionUnfolds
<1>10. end \in [0 .. N -> Nat]
  BY <1>9 DEF Unfolds
<1> QED BY <1>3, <1>7, <1>8, <1>10

\* Slices end one after the other.
LEMMA EndsGrow ==
  ASSUME NEW t \in [Slices -> Texts], NEW f \in Files,
         NEW m \in 0 .. Len(Layout[f]), NEW n \in 0 .. Len(Layout[f]), m < n
  PROVE  Ends(t, f)[m] < Ends(t, f)[n]
<1> DEFINE N == Len(Layout[f])
           e == Ends(t, f)
           P == {i \in 0 .. N : m < i => e[m] < e[i]}
<1>1. /\ N \in Nat /\ e \in [0 .. N -> Nat]
      /\ \A i \in 1 .. N : e[i] = e[i - 1] + LinesOf[t[Layout[f][i]]]
      /\ \A i \in 1 .. N : LinesOf[t[Layout[f][i]]] \in Nat \ {0}
  BY EndsUnfolds, LinesType, LayoutAssumption
<1>2. 0 \in P
  BY <1>1
<1>3. ASSUME NEW i \in 0 .. N - 1, i \in P
      PROVE  i + 1 \in P
  <2>1. i + 1 \in 1 .. N /\ (i + 1) - 1 = i /\ i \in 0 .. N
    BY <1>1
  <2>2. e[i + 1] = e[i] + LinesOf[t[Layout[f][i + 1]]]
    BY <1>1, <2>1
  <2>3. e[i] < e[i + 1] /\ e[m] \in Nat /\ e[i] \in Nat /\ e[i + 1] \in Nat
    <3>1. LinesOf[t[Layout[f][i + 1]]] \in Nat \ {0}
      BY <1>1, <2>1
    <3>2. e[m] \in Nat /\ e[i] \in Nat
      BY <1>1, <2>1
    <3> HIDE DEF e
    <3> QED BY <2>2, <3>1, <3>2
  <2>4. m < i + 1 => m < i \/ m = i
    BY <2>1
  <2> QED BY <1>3, <2>1, <2>3, <2>4
<1> HIDE DEF P
<1>4. 0 .. N \subseteq P
  BY <1>1, <1>2, <1>3, PrefixInduction
<1> QED BY <1>4 DEF P

\* Where slices end depends on the slices of the file.
LEMMA EndsSame ==
  ASSUME NEW t \in [Slices -> Texts], NEW u \in [Slices -> Texts], NEW f \in Files,
         \A s \in SlicesOf(f) : t[s] = u[s]
  PROVE  \A n \in 0 .. Len(Layout[f]) : Ends(t, f)[n] = Ends(u, f)[n]
<1> DEFINE N == Len(Layout[f])
           P == {n \in 0 .. N : Ends(t, f)[n] = Ends(u, f)[n]}
<1>1. N \in Nat /\ \A n \in 1 .. N : t[Layout[f][n]] = u[Layout[f][n]]
  BY LinesType, LayoutAssumption
<1>2. 0 \in P
  BY <1>1, EndsUnfolds
<1>3. ASSUME NEW n \in 0 .. N - 1, n \in P
      PROVE  n + 1 \in P
  <2>1. n + 1 \in 1 .. N /\ (n + 1) - 1 = n
    BY <1>1
  <2>2. /\ Ends(t, f)[n + 1] = Ends(t, f)[n] + LinesOf[t[Layout[f][n + 1]]]
        /\ Ends(u, f)[n + 1] = Ends(u, f)[n] + LinesOf[u[Layout[f][n + 1]]]
    BY <2>1, EndsUnfolds
  <2> QED BY <1>1, <1>3, <2>1, <2>2
<1> HIDE DEF P
<1>4. 0 .. N \subseteq P
  BY <1>1, <1>2, <1>3, PrefixInduction
<1> QED BY <1>4 DEF P

\* A slice has as many lines as its code.
LEMMA PlaceType ==
  ASSUME NEW t \in [Slices -> Texts], NEW s \in Slices
  PROVE  /\ Place(t, s) \in Spans
         /\ Place(t, s).first <= Place(t, s).last
         /\ Width(Place(t, s)) = LinesOf[t[s]]
<1> DEFINE f == FileOf(s)
           k == Rank(s)
           e == Ends(t, f)
<1>1. f \in Files /\ k \in 1 .. Len(Layout[f]) /\ Layout[f][k] = s /\ Len(Layout[f]) \in Nat
  BY FileOfSlice, RankOfSlice
<1>2. /\ e[k] = e[k - 1] + LinesOf[t[s]] /\ e[k] \in Nat /\ e[k - 1] \in Nat
      /\ LinesOf[t[s]] \in Nat \ {0}
  <2>1. k \in 0 .. Len(Layout[f]) /\ k - 1 \in 0 .. Len(Layout[f])
    BY <1>1
  <2> QED BY <1>1, <2>1, EndsUnfolds, LinesType
<1>3. Place(t, s) = [first |-> e[k - 1] + 1, last |-> e[k]]
  BY DEF Place
<1> HIDE DEF e, k
<1> QED BY <1>2, <1>3 DEF Spans, Width

\* A slice does not lie in another one.
LEMMA PlacesApart ==
  ASSUME NEW t \in [Slices -> Texts], NEW r \in Slices, NEW s \in Slices,
         FileOf(r) = FileOf(s),
         Place(t, r).first <= Place(t, s).first, Place(t, s).last <= Place(t, r).last
  PROVE  r = s
<1> DEFINE f == FileOf(s)
           e == Ends(t, f)
           j == Rank(r)
           k == Rank(s)
<1>1. /\ f \in Files /\ Len(Layout[f]) \in Nat
      /\ j \in 1 .. Len(Layout[f]) /\ Layout[f][j] = r
      /\ k \in 1 .. Len(Layout[f]) /\ Layout[f][k] = s
  BY FileOfSlice, RankOfSlice
<1>2. /\ j \in 0 .. Len(Layout[f]) /\ j - 1 \in 0 .. Len(Layout[f])
      /\ k \in 0 .. Len(Layout[f]) /\ k - 1 \in 0 .. Len(Layout[f])
  BY <1>1
<1>3. e[j - 1] \in Nat /\ e[j] \in Nat /\ e[k - 1] \in Nat /\ e[k] \in Nat
  BY <1>1, <1>2, EndsUnfolds
<1>4. e[j - 1] <= e[k - 1] /\ e[k] <= e[j]
  BY <1>3 DEF Place
<1>5. ~(j < k)
  BY <1>1, <1>2, <1>3, <1>4, EndsGrow
<1>6. ~(k < j)
  <2>1. k < j => k - 1 < j - 1
    BY <1>1
  <2> QED BY <1>1, <1>2, <1>3, <1>4, <2>1, EndsGrow
<1> QED BY <1>1, <1>5, <1>6

\* A slice stays where it is as long as no slice of its file changes.
LEMMA PlaceSame ==
  ASSUME NEW t \in [Slices -> Texts], NEW u \in [Slices -> Texts], NEW s \in Slices,
         \A r \in SlicesOf(FileOf(s)) : t[r] = u[r]
  PROVE  Place(t, s) = Place(u, s)
<1> DEFINE f == FileOf(s)
           k == Rank(s)
<1>1. f \in Files /\ k \in 1 .. Len(Layout[f]) /\ Len(Layout[f]) \in Nat
  BY FileOfSlice, RankOfSlice
<1>2. k \in 0 .. Len(Layout[f]) /\ k - 1 \in 0 .. Len(Layout[f])
  BY <1>1
<1>3. Ends(t, f)[k] = Ends(u, f)[k] /\ Ends(t, f)[k - 1] = Ends(u, f)[k - 1]
  BY <1>1, <1>2, EndsSame
<1> QED BY <1>3 DEF Place

-----------------------------------------------------------------------------
(* Evidence.                                                               *)

\* A view is the code of its symbol.
LEMMA ViewedPiece ==
  ASSUME text \in [Slices -> Texts], NEW s \in Slices
  PROVE  /\ Viewed(s) \in Pieces
         /\ Viewed(s).text # NoText /\ Viewed(s).sym = s /\ Viewed(s).file = FileOf(s)
         /\ Viewed(s).first = Place(text, s).first /\ Viewed(s).last = Place(text, s).last
         /\ Viewed(s).first <= Viewed(s).last
<1>1. /\ Place(text, s) \in Spans /\ Place(text, s).first <= Place(text, s).last
      /\ Width(Place(text, s)) = LinesOf[text[s]]
      /\ FileOf(s) \in Files /\ text[s] \in Texts /\ NoText \notin Texts
  BY PlaceType, FileOfSlice, ContextAssumption
<1> DEFINE p == Place(text, s)
<1>2. Viewed(s) = [file |-> FileOf(s), sym |-> s, first |-> p.first, last |-> p.last,
                   text |-> text[s]]
  BY DEF Viewed, Evidence
<1> HIDE DEF p
<1>3. p.first \in Nat /\ p.last \in Nat
  BY <1>1 DEF p, Spans
<1> QED BY <1>1, <1>2, <1>3 DEF p, Pieces, Width

\* What a search finds has no code.
LEMMA HitPiece ==
  ASSUME text \in [Slices -> Texts], NEW x \in Hits
  PROVE  x \in Pieces /\ x.text = NoText
<1>0. PICK s \in Found : \E l \in Place(text, s).first .. Place(text, s).last :
        x = Evidence(FileOf(s), IF l = Place(text, s).first THEN s ELSE NoSymbol,
                     [first |-> l, last |-> l], NoText)
  BY DEF Hits
<1>1. PICK l \in Place(text, s).first .. Place(text, s).last :
        x = Evidence(FileOf(s), IF l = Place(text, s).first THEN s ELSE NoSymbol,
                     [first |-> l, last |-> l], NoText)
  BY <1>0
<1>2. /\ s \in Slices /\ FileOf(s) \in Files /\ l \in Nat
      /\ NoText \notin Texts /\ NoSymbol \notin Slices
  <2>1. s \in Slices
    BY LayoutAssumption
  <2>2. Place(text, s).first \in Nat /\ Place(text, s).last \in Nat
    BY <2>1, PlaceType DEF Spans
  <2> QED BY <2>1, <2>2, FileOfSlice, ContextAssumption, LayoutAssumption
<1> DEFINE y == IF l = Place(text, s).first THEN s ELSE NoSymbol
<1>3. y \in Slices \cup {NoSymbol} /\ (y \in Slices => y = s)
  BY <1>2
<1>4. x = [file |-> FileOf(s), sym |-> y, first |-> l, last |-> l, text |-> NoText]
  BY <1>1 DEF Evidence
<1> HIDE DEF y
<1> QED BY <1>2, <1>3, <1>4 DEF Pieces

\* Nor has a symbol that the repo map names.
LEMMA LocatedPiece ==
  ASSUME indexed \in [Slices -> Spans], NEW s \in Slices
  PROVE  Located(s) \in Pieces /\ Located(s).text = NoText
<1>1. /\ FileOf(s) \in Files /\ NoText \notin Texts
      /\ indexed[s].first \in Nat /\ indexed[s].last \in Nat
  BY FileOfSlice, ContextAssumption DEF Spans
<1>2. Located(s) = [file |-> FileOf(s), sym |-> s, first |-> indexed[s].first,
                    last |-> indexed[s].last, text |-> NoText]
  BY DEF Located, Evidence
<1> QED BY <1>1, <1>2 DEF Pieces

\* Code that is read is current.
LEMMA ReadablePiece ==
  ASSUME text \in [Slices -> Texts], indexed \in [Slices -> Spans], NEW x \in Readable
  PROVE  x \in Pieces /\ (x.text # NoText => x = Viewed(x.sym))
<1>1. CASE \E s \in Slices : x = Viewed(s)
  BY <1>1, ViewedPiece
<1>2. CASE x \in Hits
  BY <1>2, HitPiece
<1>3. CASE \E s \in Found : x = Located(s)
  BY <1>3, LocatedPiece, LayoutAssumption
<1> QED BY <1>1, <1>2, <1>3 DEF Readable

\* What a piece is.
LEMMA PieceType ==
  ASSUME NEW x \in Pieces
  PROVE  /\ x.file \in Files /\ x.first \in Nat /\ x.last \in Nat
         /\ x.sym \in Slices \cup {NoSymbol} /\ NoSymbol \notin Slices
         /\ x.sym \in Slices => x.file = FileOf(x.sym)
         /\ x.text # NoText => /\ x.sym \in Slices
                               /\ Width(x) = LinesOf[x.text]
                               /\ LinesOf[x.text] \in Nat \ {0}
BY ContextAssumption, LayoutAssumption DEF Pieces

\* Code of a file that was not written is the code of one view for each symbol.
LEMMA SameCode ==
  ASSUME NEW x \in Pieces, NEW y \in Pieces, Current(x), Current(y),
         x.text # NoText, y.text # NoText, x.file \notin outdated,
         x.file = y.file, x.sym = y.sym
  PROVE  x = y
BY DEF Current

\* Such code is replaced by itself only.
LEMMA ReplacesSelf ==
  ASSUME NEW x \in Pieces, NEW z \in Pieces, Current(x), Current(z),
         x.text # NoText, z.text # NoText, z.file \notin outdated, Replaces(x, z)
  PROVE  x = z
<1>1. x.sym \in Slices /\ z.sym \in Slices /\ NoSymbol \notin Slices
  BY PieceType
<1>2. x.file = z.file /\ x.sym = z.sym
  BY <1>1 DEF Replaces, SameEvidence, Overlap
<1> QED BY <1>2, SameCode

\* Code covers itself.
LEMMA OverlapSelf ==
  ASSUME NEW x \in Pieces, x.text # NoText
  PROVE  Overlap(x, x)
<1>1. x.first \in Nat /\ x.last \in Nat /\ Width(x) \in Nat \ {0}
  BY PieceType
<1> QED BY <1>1 DEF Overlap, Width

\* A repetition is evidence seen before; nothing is repeated when the new is better
\* than all it could repeat.
LEMMA RepeatedType ==
  ASSUME NEW x, NEW prior \in Seq(Pieces)
  PROVE  /\ Repeated(x, prior) \in Seq(Pieces)
         /\ ToSet(Repeated(x, prior)) \subseteq ToSet(prior)
         /\ Repeated(x, prior) = <<>> <=>
              \A y \in ToSet(prior) : SameEvidence(x, y) /\ Redundant(x, y) => Better(x, y)
<1> DEFINE S == {y \in ToSet(prior) : SameEvidence(x, y) /\ Redundant(x, y)}
           same == Only(prior, S)
<1>1. same \in Seq(Pieces) /\ ToSet(same) = ToSet(prior) \cap S
  <2> HIDE DEF S
  <2> QED BY OnlySelects
<1>2. Repeated(x, prior) = IF \A y \in ToSet(same) : Better(x, y) THEN <<>> ELSE same
  BY DEF Repeated
<1>3. ToSet(same) = S
  BY <1>1
<1> HIDE DEF same
<1>4. CASE \A y \in ToSet(same) : Better(x, y)
  <2>1. Repeated(x, prior) = <<>>
    BY <1>2, <1>4
  <2>2. ToSet(<<>>) = {}
    BY DEF ToSet
  <2> QED BY <1>3, <1>4, <2>1, <2>2
<1>5. CASE ~\A y \in ToSet(same) : Better(x, y)
  <2>1. Repeated(x, prior) = same
    BY <1>2, <1>5
  <2>2. same # <<>>
    <3>1. ToSet(same) # {}
      BY <1>5
    <3> QED BY <3>1 DEF ToSet
  <2> QED BY <1>1, <1>3, <1>5, <2>1, <2>2
<1> QED BY <1>4, <1>5

-----------------------------------------------------------------------------
(* Batches.                                                                *)

\* A result that repeats nothing is better than all it could repeat, in the anchors and
\* in the results before it; what another result repeats is among these.
BatchedAt(out, held, j) ==
  /\ out[j].repeats = <<>> =>
       \A y \in held \cup FreshItemsBefore(out, j) :
         SameEvidence(out[j].item, y) /\ Redundant(out[j].item, y) => Better(out[j].item, y)
  /\ ToSet(out[j].repeats) \subseteq held \cup FreshItemsBefore(out, j)

Batched(out, held) == \A j \in DOMAIN out : BatchedAt(out, held, j)

\* The items that repeat nothing.
LEMMA FreshItemsType ==
  ASSUME NEW out \in Seq(Results)
  PROVE  /\ FreshItems(out) \in Seq(Pieces)
         /\ ToSet(FreshItems(out)) =
              {out[i].item : i \in {k \in DOMAIN out : out[k].repeats = <<>>}}
<1> DEFINE S == {o \in ToSet(out) : o.repeats = <<>>}
           fresh == Only(out, S)
<1>1. fresh \in Seq(Results) /\ ToSet(fresh) = ToSet(out) \cap S
  <2> HIDE DEF S
  <2> QED BY OnlySelects
<1>2. FreshItems(out) = [i \in DOMAIN fresh |-> fresh[i].item]
  BY DEF FreshItems
<1> HIDE DEF fresh
<1>3. DOMAIN fresh = 1 .. Len(fresh) /\ Len(fresh) \in Nat
      /\ \A i \in 1 .. Len(fresh) : fresh[i].item \in Pieces
  <2>1. DOMAIN fresh = 1 .. Len(fresh) /\ Len(fresh) \in Nat
        /\ \A i \in 1 .. Len(fresh) : fresh[i] \in Results
    BY <1>1
  <2> QED BY <2>1 DEF Results
<1>4. FreshItems(out) \in Seq(Pieces)
  BY <1>2, <1>3
<1>5. ToSet(FreshItems(out)) = {o.item : o \in ToSet(fresh)}
  BY <1>2 DEF ToSet
<1>6. ToSet(fresh) = S
  BY <1>1
<1>7. {o.item : o \in S} = {out[i].item : i \in {k \in DOMAIN out : out[k].repeats = <<>>}}
  BY DEF ToSet
<1> QED BY <1>4, <1>5, <1>6, <1>7

\* One more result, held against what is held and the results so far.
Taken(out, x) ==
  Append(out, [item |-> x, repeats |-> Repeated(x, code \o FreshItems(out))])

\* g takes the results one after the other.
Deduping(g, xs) ==
  /\ g \in [0 .. Len(xs) -> Seq(Results)]
  /\ g[0] = <<>>
  /\ \A n \in 1 .. Len(xs) : g[n] = Taken(g[n - 1], xs[n])
  /\ Deduped(xs) = g[Len(xs)]

\* A taken result is a result.
LEMMA TakenType ==
  ASSUME code \in Seq(Pieces), NEW out \in Seq(Results), NEW x \in Pieces
  PROVE  Taken(out, x) \in Seq(Results)
<1>1. code \o FreshItems(out) \in Seq(Pieces)
  BY FreshItemsType
<1>2. Repeated(x, code \o FreshItems(out)) \in Seq(Pieces)
  BY <1>1, RepeatedType
<1> QED BY <1>2 DEF Taken, Results

\* The recursion of Deduped takes them.
LEMMA DedupedUnfolds ==
  ASSUME code \in Seq(Pieces), NEW xs \in Seq(Pieces)
  PROVE  \E g : Deduping(g, xs)
<1> DEFINE N == Len(xs)
           F == [p \in (1 .. N) \X Seq(Results) |-> Taken(p[2], xs[p[1]])]
           Body(h) == [n \in 0 .. Len(xs) |->
                         IF n = 0 THEN <<>> ELSE Taken(h[n - 1], xs[n])]
           taken == CHOOSE h : h = Body(h)
<1>1. N \in Nat /\ <<>> \in Seq(Results) /\ \A n \in 1 .. N : xs[n] \in Pieces
  OBVIOUS
<1>2. F \in [(1 .. N) \X Seq(Results) -> Seq(Results)]
  BY <1>1, TakenType
<1>3. Deduped(xs) = taken[N]
  BY DEF Deduped, Taken
<1>4. PICK g : Unfolds(g, N, Seq(Results), <<>>, F)
  <2> HIDE DEF F, N
  <2> QED BY <1>1, <1>2, RecursionExists
<1>5. g = Body(g)
  <2>1. g \in [0 .. N -> Seq(Results)] /\ g[0] = <<>>
    BY <1>4 DEF Unfolds
  <2>2. ASSUME NEW n \in 1 .. N
        PROVE  g[n] = Taken(g[n - 1], xs[n])
    <3>1. g[n] = F[<<n, g[n - 1]>>]
      BY <1>4 DEF Unfolds
    <3>2. n - 1 \in 0 .. N
      BY <1>1
    <3>3. <<n, g[n - 1]>> \in (1 .. N) \X Seq(Results)
      BY <2>1, <3>2
    <3> QED BY <3>1, <3>3
  <2>3. \A n \in 0 .. N : n = 0 \/ n \in 1 .. N
    BY <1>1
  <2> QED BY <2>1, <2>2, <2>3
<1>6. taken = Body(taken)
  BY <1>5
<1> HIDE DEF taken
<1>7. taken = [n \in 0 .. N |-> taken[n]] /\ taken[0] = <<>>
  BY <1>1, <1>6
<1>8. ASSUME NEW n \in 1 .. N
      PROVE  taken[n] = Taken(taken[n - 1], xs[n])
  <2>1. n \in 0 .. Len(xs) /\ n # 0
    BY <1>1
  <2> QED BY <1>6, <2>1
<1>9. Unfolds(taken, N, Seq(Results), <<>>, F)
  <2>1. \A n \in 1 .. N : taken[n - 1] \in Seq(Results) => taken[n] = F[<<n, taken[n - 1]>>]
    BY <1>8
  <2> HIDE DEF F, N
  <2> QED BY <1>1, <1>2, <1>7, <2>1, RecursionUnfolds
<1>10. taken \in [0 .. N -> Seq(Results)]
  BY <1>9 DEF Unfolds
<1>11. Deduping(taken, xs)
  BY <1>3, <1>7, <1>8, <1>10 DEF Deduping
<1> QED BY <1>11

\* One more result keeps a batch sound.
LEMMA TakenBatched ==
  ASSUME code \in Seq(Pieces), NEW out \in Seq(Results), NEW x \in Pieces,
         Batched(out, Anchors)
  PROVE  Batched(Taken(out, x), Anchors)
<1> DEFINE n == Len(out)
           prior == code \o FreshItems(out)
           rep == Repeated(x, prior)
           new == [item |-> x, repeats |-> rep]
           r == Taken(out, x)
<1>1. prior \in Seq(Pieces) /\ ToSet(prior) = Anchors \cup ToSet(FreshItems(out))
  <2>1. FreshItems(out) \in Seq(Pieces)
    BY FreshItemsType
  <2> DEFINE q == FreshItems(out)
  <2> HIDE DEF q
  <2>2. q \in Seq(Pieces)
    BY <2>1 DEF q
  <2>3. \A i \in DOMAIN (code \o q) :
          (code \o q)[i] = IF i <= Len(code) THEN code[i] ELSE q[i - Len(code)]
    BY <2>2
  <2>4. DOMAIN (code \o q) = 1 .. Len(code) + Len(q) /\ Len(code) \in Nat /\ Len(q) \in Nat
        /\ DOMAIN code = 1 .. Len(code) /\ DOMAIN q = 1 .. Len(q)
    BY <2>2
  <2>5. ToSet(code \o q) \subseteq ToSet(code) \cup ToSet(q)
    BY <2>3, <2>4 DEF ToSet
  <2>6. ToSet(code) \subseteq ToSet(code \o q)
    <3>1. \A i \in DOMAIN code : i \in DOMAIN (code \o q) /\ (code \o q)[i] = code[i]
      BY <2>3, <2>4
    <3> QED BY <3>1 DEF ToSet
  <2>7. ToSet(q) \subseteq ToSet(code \o q)
    <3>1. \A i \in DOMAIN q : /\ i + Len(code) \in DOMAIN (code \o q)
                             /\ (code \o q)[i + Len(code)] = q[i]
      <4> TAKE i \in DOMAIN q
      <4>1. i + Len(code) \in DOMAIN (code \o q) /\ ~(i + Len(code) <= Len(code))
            /\ (i + Len(code)) - Len(code) = i
        BY <2>4
      <4> QED BY <2>3, <4>1
    <3> QED BY <3>1 DEF ToSet
  <2> QED BY <2>2, <2>5, <2>6, <2>7 DEF q, Anchors
<1>2. ToSet(FreshItems(out)) = FreshItemsBefore(out, n + 1)
  <2>1. DOMAIN out = 1 .. (n + 1) - 1 /\ n \in Nat
    OBVIOUS
  <2> QED BY <2>1, FreshItemsType DEF FreshBefore, FreshItemsBefore
<1>3. /\ ToSet(rep) \subseteq ToSet(prior)
      /\ rep = <<>> <=> \A y \in ToSet(prior) : SameEvidence(x, y) /\ Redundant(x, y) => Better(x, y)
  <2> HIDE DEF prior
  <2> QED BY <1>1, RepeatedType
<1>4. /\ n \in Nat /\ DOMAIN r = 1 .. n + 1 /\ DOMAIN out = 1 .. n
      /\ r[n + 1] = new /\ \A i \in 1 .. n : r[i] = out[i]
  BY DEF Taken
<1> HIDE DEF r, rep, prior
<1>5. \A j \in 1 .. n + 1 : FreshBefore(r, j) = FreshBefore(out, j)
  BY <1>4 DEF FreshBefore
<1>6. \A j \in 1 .. n + 1 : FreshItemsBefore(r, j) = FreshItemsBefore(out, j)
  BY <1>4, <1>5 DEF FreshBefore, FreshItemsBefore
<1>7. ASSUME NEW j \in 1 .. n
      PROVE  BatchedAt(r, Anchors, j)
  <2>1. r[j] = out[j] /\ j \in 1 .. n + 1 /\ j \in DOMAIN out
    BY <1>4
  <2>2. FreshItemsBefore(r, j) = FreshItemsBefore(out, j) /\ BatchedAt(out, Anchors, j)
    BY <1>6, <2>1 DEF Batched
  <2> QED BY <2>1, <2>2 DEF BatchedAt
<1>8. BatchedAt(r, Anchors, n + 1)
  <2>1. r[n + 1].item = x /\ r[n + 1].repeats = rep /\ n + 1 \in 1 .. n + 1
    BY <1>4
  <2>2. ToSet(prior) = Anchors \cup FreshItemsBefore(r, n + 1)
    BY <1>1, <1>2, <1>6, <2>1
  <2> QED BY <1>3, <2>1, <2>2 DEF BatchedAt
<1>9. \A j \in DOMAIN r : j \in 1 .. n \/ j = n + 1
  BY <1>4
<1>10. Batched(r, Anchors)
  BY <1>7, <1>8, <1>9 DEF Batched
<1> QED BY <1>10 DEF r

\* What a batch of reads makes: its results, of what was read.
LEMMA DedupedBatched ==
  ASSUME code \in Seq(Pieces), NEW xs \in Seq(Pieces)
  PROVE  /\ Deduped(xs) \in Seq(Results)
         /\ Batched(Deduped(xs), Anchors)
         /\ \A i \in DOMAIN Deduped(xs) : Deduped(xs)[i].item \in ToSet(xs)
<1> DEFINE N == Len(xs)
<1>1. PICK g : Deduping(g, xs)
  BY DedupedUnfolds
<1>2. /\ g \in [0 .. N -> Seq(Results)] /\ g[0] = <<>> /\ Deduped(xs) = g[N]
      /\ \A n \in 1 .. N : g[n] = Taken(g[n - 1], xs[n])
  BY <1>1 DEF Deduping
<1> DEFINE P == {n \in 0 .. N : /\ Batched(g[n], Anchors)
                                /\ \A i \in DOMAIN g[n] : g[n][i].item \in ToSet(xs)}
<1>3. N \in Nat
  OBVIOUS
<1>4. 0 \in P
  BY <1>2, <1>3 DEF Batched
<1>5. ASSUME NEW m \in 0 .. N - 1, m \in P
      PROVE  m + 1 \in P
  <2>1. m + 1 \in 1 .. N /\ (m + 1) - 1 = m /\ m \in 0 .. N
    BY <1>3
  <2>2. g[m + 1] = Taken(g[m], xs[m + 1]) /\ g[m] \in Seq(Results)
    BY <1>2, <2>1
  <2>3. xs[m + 1] \in Pieces /\ xs[m + 1] \in ToSet(xs)
    BY <2>1 DEF ToSet
  <2>4. Batched(g[m + 1], Anchors)
    BY <1>5, <2>2, <2>3, TakenBatched
  <2>5. \A i \in DOMAIN g[m + 1] : g[m + 1][i].item \in ToSet(xs)
    <3> DEFINE out == g[m]
               new == [item |-> xs[m + 1], repeats |-> Repeated(xs[m + 1], code \o FreshItems(out))]
    <3>1. g[m + 1] = Append(out, new)
      BY <2>2 DEF Taken
    <3>2. out \in Seq(Results) /\ \A i \in DOMAIN out : out[i].item \in ToSet(xs)
      BY <1>5, <2>2
    <3>3. new.item \in ToSet(xs)
      BY <2>3
    <3> HIDE DEF new, out
    <3>4. \A i \in DOMAIN Append(out, new) :
            Append(out, new)[i] = new \/ (i \in DOMAIN out /\ Append(out, new)[i] = out[i])
      BY <3>2
    <3> QED BY <3>1, <3>2, <3>3, <3>4
  <2> QED BY <2>1, <2>4, <2>5
<1> HIDE DEF P
<1>6. 0 .. N \subseteq P
  BY <1>3, <1>4, <1>5, PrefixInduction
<1>7. N \in P
  BY <1>3, <1>6
<1> QED BY <1>2, <1>3, <1>7 DEF P

-----------------------------------------------------------------------------
(* The working set.                                                        *)

\* The last members of a sequence, all of them when there are no more.
LEMMA LastOfType ==
  ASSUME NEW T, NEW q \in Seq(T), NEW n \in Nat \ {0}
  PROVE  /\ LastOf(q, n) \in Seq(T)
         /\ Len(LastOf(q, n)) <= n
         /\ ToSet(LastOf(q, n)) \subseteq ToSet(q)
         /\ Len(LastOf(q, n)) < n => ToSet(LastOf(q, n)) = ToSet(q)
         /\ q # <<>> => q[Len(q)] \in ToSet(LastOf(q, n))
<1> DEFINE m == IF Len(q) > n THEN Len(q) - n + 1 ELSE 1
           r == LastOf(q, n)
<1>1. /\ Len(q) \in Nat /\ m \in Nat /\ m >= 1 /\ m <= Len(q) + 1
      /\ r = SubSeq(q, m, Len(q)) /\ DOMAIN q = 1 .. Len(q)
  BY DEF LastOf
<1>2. /\ Len(q) - m + 1 <= n
      /\ Len(q) - m + 1 < n => m = 1
  BY <1>1
<1> HIDE DEF m, r
<1>3. r \in Seq(T) /\ Len(r) = Len(q) - m + 1
  <2>1. r \in Seq(T) /\ Len(r) = IF m <= Len(q) THEN Len(q) - m + 1 ELSE 0
    BY <1>1
  <2> QED BY <1>1, <2>1
<1>4. Len(r) \in Nat /\ DOMAIN r = 1 .. Len(r)
  BY <1>3
<1>5. \A i \in DOMAIN r : r[i] = q[m + i - 1] /\ m + i - 1 \in DOMAIN q
  BY <1>1, <1>3, <1>4
<1>6. ToSet(r) \subseteq ToSet(q)
  BY <1>5 DEF ToSet
<1>7. Len(r) < n => ToSet(r) = ToSet(q)
  <2> SUFFICES ASSUME Len(r) < n
               PROVE  ToSet(q) \subseteq ToSet(r)
    BY <1>6
  <2>1. m = 1 /\ Len(r) = Len(q)
    BY <1>1, <1>2, <1>3
  <2>2. \A i \in DOMAIN q : i \in DOMAIN r /\ r[i] = q[i]
    <3> TAKE i \in DOMAIN q
    <3>1. i \in DOMAIN r /\ m + i - 1 = i
      BY <1>1, <1>4, <2>1
    <3> QED BY <1>5, <3>1
  <2> QED BY <2>2 DEF ToSet
<1>8. q # <<>> => q[Len(q)] \in ToSet(r)
  <2> SUFFICES ASSUME q # <<>>
               PROVE  q[Len(q)] \in ToSet(r)
    OBVIOUS
  <2>1. Len(q) >= 1
    OBVIOUS
  <2>2. Len(r) >= 1
    <3>1. n >= 1
      OBVIOUS
    <3> QED BY <1>1, <1>3, <2>1, <3>1 DEF m
  <2>3. Len(r) \in DOMAIN r /\ m + Len(r) - 1 = Len(q)
    BY <1>1, <1>3, <1>4, <2>2
  <2>4. r[Len(r)] = q[Len(q)]
    BY <1>5, <2>3
  <2> QED BY <2>3, <2>4 DEF ToSet
<1>9. Len(r) <= n
  BY <1>2, <1>3
<1> QED BY <1>3, <1>6, <1>7, <1>8, <1>9 DEF r

\* g touches the pieces one after the other.
Touching(g, working, xs) ==
  /\ g \in [0 .. Len(xs) -> Seq(Pieces)]
  /\ g[0] = working
  /\ \A n \in 1 .. Len(xs) : g[n] = Touch(g[n - 1], xs[n])
  /\ TouchAll(working, xs) = LastOf(g[Len(xs)], Limit)

\* What is touched stands last, and what it does not replace stays.
LEMMA TouchType ==
  ASSUME NEW working \in Seq(Pieces), NEW x \in Pieces
  PROVE  /\ Touch(working, x) \in Seq(Pieces)
         /\ ToSet(Touch(working, x)) = {y \in ToSet(working) : ~Replaces(x, y)} \cup {x}
         /\ Touch(working, x) # <<>>
         /\ Touch(working, x)[Len(Touch(working, x))] = x
<1> DEFINE S == {y \in ToSet(working) : ~Replaces(x, y)}
           kept == Only(working, S)
<1>1. kept \in Seq(Pieces) /\ ToSet(kept) = ToSet(working) \cap S
  <2> HIDE DEF S
  <2> QED BY OnlySelects
<1>2. Touch(working, x) = Append(kept, x)
  BY DEF Touch
<1>3. ToSet(kept) = S
  BY <1>1
<1> HIDE DEF kept
<1>4. Append(kept, x) \in Seq(Pieces) /\ ToSet(Append(kept, x)) = ToSet(kept) \cup {x}
  BY <1>1, AppendSet
<1> HIDE DEF S
<1>5. Append(kept, x) # <<>> /\ Append(kept, x)[Len(Append(kept, x))] = x
  BY <1>1
<1> QED BY <1>2, <1>3, <1>4, <1>5 DEF S

\* The recursion of TouchAll touches them.
LEMMA TouchAllUnfolds ==
  ASSUME NEW working \in Seq(Pieces), NEW xs \in Seq(Pieces)
  PROVE  \E g : Touching(g, working, xs)
<1> DEFINE N == Len(xs)
           F == [p \in (1 .. N) \X Seq(Pieces) |-> Touch(p[2], xs[p[1]])]
           Body(h) == [n \in 0 .. Len(xs) |->
                         IF n = 0 THEN working ELSE Touch(h[n - 1], xs[n])]
           touched == CHOOSE h : h = Body(h)
<1>1. N \in Nat /\ \A n \in 1 .. N : xs[n] \in Pieces
  OBVIOUS
<1>2. F \in [(1 .. N) \X Seq(Pieces) -> Seq(Pieces)]
  BY <1>1, TouchType
<1>3. TouchAll(working, xs) = LastOf(touched[N], Limit)
  BY DEF TouchAll
<1>4. PICK g : Unfolds(g, N, Seq(Pieces), working, F)
  <2> HIDE DEF F, N
  <2> QED BY <1>1, <1>2, RecursionExists
<1>5. g = Body(g)
  <2>1. g \in [0 .. N -> Seq(Pieces)] /\ g[0] = working
    BY <1>4 DEF Unfolds
  <2>2. ASSUME NEW n \in 1 .. N
        PROVE  g[n] = Touch(g[n - 1], xs[n])
    <3>1. g[n] = F[<<n, g[n - 1]>>]
      BY <1>4 DEF Unfolds
    <3>2. n - 1 \in 0 .. N
      BY <1>1
    <3>3. <<n, g[n - 1]>> \in (1 .. N) \X Seq(Pieces)
      BY <2>1, <3>2
    <3> QED BY <3>1, <3>3
  <2>3. \A n \in 0 .. N : n = 0 \/ n \in 1 .. N
    BY <1>1
  <2> QED BY <2>1, <2>2, <2>3
<1>6. touched = Body(touched)
  BY <1>5
<1> HIDE DEF touched
<1>7. touched = [n \in 0 .. N |-> touched[n]] /\ touched[0] = working
  BY <1>1, <1>6
<1>8. ASSUME NEW n \in 1 .. N
      PROVE  touched[n] = Touch(touched[n - 1], xs[n])
  <2>1. n \in 0 .. Len(xs) /\ n # 0
    BY <1>1
  <2> QED BY <1>6, <2>1
<1>9. Unfolds(touched, N, Seq(Pieces), working, F)
  <2>1. \A n \in 1 .. N : touched[n - 1] \in Seq(Pieces) => touched[n] = F[<<n, touched[n - 1]>>]
    BY <1>8
  <2> HIDE DEF F, N
  <2> QED BY <1>1, <1>2, <1>7, <2>1, RecursionUnfolds
<1>10. touched \in [0 .. N -> Seq(Pieces)]
  BY <1>9 DEF Unfolds
<1>11. Touching(touched, working, xs)
  BY <1>3, <1>7, <1>8, <1>10 DEF Touching
<1> QED BY <1>11

\* What the touched pieces do not replace is still there, unless the working set is
\* full; the last of them is there.
LEMMA TouchAllType ==
  ASSUME NEW working \in Seq(Pieces), NEW xs \in Seq(Pieces)
  PROVE  LET r == TouchAll(working, xs)
         IN  /\ r \in Seq(Pieces) /\ Len(r) <= Limit
             /\ ToSet(r) \subseteq ToSet(working) \cup ToSet(xs)
             /\ \A z \in ToSet(working) :
                  (\A x \in ToSet(xs) : Replaces(x, z) => x = z)
                    => z \in ToSet(r) \/ Len(r) = Limit
             /\ xs # <<>> => xs[Len(xs)] \in ToSet(r)
<1> DEFINE N == Len(xs)
           r == TouchAll(working, xs)
<1>1. PICK g : Touching(g, working, xs)
  BY TouchAllUnfolds
<1>2. /\ g \in [0 .. N -> Seq(Pieces)] /\ g[0] = working
      /\ \A n \in 1 .. N : g[n] = Touch(g[n - 1], xs[n])
      /\ r = LastOf(g[N], Limit)
  BY <1>1 DEF Touching
<1> DEFINE P == {n \in 0 .. N :
                   /\ ToSet(g[n]) \subseteq ToSet(working) \cup ToSet(xs)
                   /\ \A z \in ToSet(working) :
                        (\A x \in ToSet(xs) : Replaces(x, z) => x = z) => z \in ToSet(g[n])}
<1>3. N \in Nat
  OBVIOUS
<1>4. 0 \in P
  BY <1>2, <1>3
<1>5. ASSUME NEW m \in 0 .. N - 1, m \in P
      PROVE  m + 1 \in P
  <2>1. m + 1 \in 1 .. N /\ (m + 1) - 1 = m /\ m \in 0 .. N
    BY <1>3
  <2> DEFINE x == xs[m + 1]
  <2>2. g[m + 1] = Touch(g[m], x) /\ g[m] \in Seq(Pieces)
    BY <1>2, <2>1
  <2>3. x \in Pieces /\ x \in ToSet(xs)
    BY <2>1 DEF ToSet
  <2> HIDE DEF x
  <2>4. ToSet(g[m + 1]) = {y \in ToSet(g[m]) : ~Replaces(x, y)} \cup {x}
    BY <2>2, <2>3, TouchType
  <2>5. /\ ToSet(g[m]) \subseteq ToSet(working) \cup ToSet(xs)
        /\ \A z \in ToSet(working) :
             (\A y \in ToSet(xs) : Replaces(y, z) => y = z) => z \in ToSet(g[m])
    BY <1>5
  <2>6. ToSet(g[m + 1]) \subseteq ToSet(working) \cup ToSet(xs)
    BY <2>3, <2>4, <2>5
  <2>7. ASSUME NEW z \in ToSet(working), \A y \in ToSet(xs) : Replaces(y, z) => y = z
        PROVE  z \in ToSet(g[m + 1])
    BY <2>3, <2>4, <2>5, <2>7
  <2> QED BY <2>1, <2>6, <2>7
<1> HIDE DEF P
<1>6. 0 .. N \subseteq P
  BY <1>3, <1>4, <1>5, PrefixInduction
<1>7. N \in P
  BY <1>3, <1>6
<1>8. g[N] \in Seq(Pieces) /\ Limit \in Nat \ {0}
  BY <1>2, <1>3, ContextAssumption
<1>9. /\ r \in Seq(Pieces) /\ Len(r) <= Limit
      /\ ToSet(r) \subseteq ToSet(g[N])
      /\ Len(r) < Limit => ToSet(r) = ToSet(g[N])
      /\ g[N] # <<>> => g[N][Len(g[N])] \in ToSet(r)
  BY <1>2, <1>8, LastOfType
<1>10. xs # <<>> => g[N] # <<>> /\ g[N][Len(g[N])] = xs[N]
  <2> SUFFICES ASSUME xs # <<>>
               PROVE  g[N] # <<>> /\ g[N][Len(g[N])] = xs[N]
    OBVIOUS
  <2>1. N \in 1 .. N /\ N - 1 \in 0 .. N
    BY <1>3
  <2> DEFINE w == g[N - 1]
             x == xs[N]
             h == g[N]
  <2>2. h = Touch(w, x) /\ w \in Seq(Pieces) /\ x \in Pieces
    BY <1>2, <2>1
  <2> HIDE DEF w, x, h
  <2>3. h # <<>> /\ h[Len(h)] = x
    BY <2>2, TouchType
  <2> QED BY <2>3 DEF x, h
<1>11. Len(r) \in Nat
  BY <1>9
<1> HIDE DEF r
<1> QED BY <1>7, <1>8, <1>9, <1>10, <1>11 DEF P, r

-----------------------------------------------------------------------------
(* Steps.                                                                  *)

\* What is kept of a sequence of pieces.
LEMMA Kept ==
  ASSUME NEW q \in Seq(Pieces), NEW S \in SUBSET ToSet(q)
  PROVE  /\ Only(q, S) \in Seq(Pieces)
         /\ ToSet(Only(q, S)) = S
         /\ Len(Only(q, S)) <= Len(q)
<1>1. ToSet(q) \cap S = S
  OBVIOUS
<1> QED BY <1>1, OnlySelects

\* Code that was current stays current as long as no file is written.
LEMMA CurrentStays ==
  ASSUME UNCHANGED <<text, outdated>>, NEW x, Current(x)
  PROVE  Current(x)'
<1>1. Viewed(x.sym)' = Viewed(x.sym)
  BY DEF Viewed, Evidence
<1> QED BY <1>1 DEF Current

\* A request starts with nothing in context.
LEMMA InitContext == Init => ContextInv
<1> SUFFICES ASSUME Init
             PROVE  ContextInv
  OBVIOUS
<1> USE DEF Init
<1>1. Anchors = {} /\ ToSet(raw) = {} /\ Ids = {} /\ Known = {}
  <2>1. ToSet(<<>>) = {} /\ DOMAIN results = {}
    BY DEF ToSet
  <2> QED BY <2>1 DEF Anchors, Ids, Known
<1>2. text \in [Slices -> Texts]
  BY ContextAssumption
<1>3. indexed \in [Slices -> Spans]
  BY <1>2, PlaceType DEF Places
<1>4. TypedInv
  BY <1>1, <1>2, <1>3, ContextAssumption DEF TypedInv
<1>5. CurrentInv /\ CoverInv
  BY <1>1 DEF CurrentInv, CoverInv
<1>6. IndexInv
  BY DEF IndexInv, Places
<1>7. BatchInv
  BY DEF BatchInv
<1> QED BY <1>4, <1>5, <1>6, <1>7 DEF ContextInv

\* The start of a step takes code out of the context, with its dates and out of the
\* working set.
LEMMA BeginStepKeeps ==
  ASSUME ContextInv, NEW plan, BeginStep(plan)
  PROVE  ContextInv'
<1>1. PICK ids : /\ Demote(ids) /\ results = <<>> /\ results' = <<>>
                 /\ step < MaxSteps /\ step' = step + 1
                 /\ UNCHANGED <<text, indexed, grounded, modified, outdated, crowded>>
  BY DEF BeginStep
<1>2. TypedInv
  BY DEF ContextInv
<1> DEFINE A == {x \in Anchors : Id(x) \notin ids}
           R == {x \in ToSet(raw) : Id(x) \notin ids}
<1>3. code' \in Seq(Pieces) /\ Anchors' = A
  <2>1. code' = Only(code, A) /\ A \in SUBSET ToSet(code) /\ code \in Seq(Pieces)
    BY <1>1, <1>2 DEF Demote, TypedInv, Anchors
  <2> HIDE DEF A
  <2> QED BY <2>1, Kept DEF Anchors
<1>4. raw' \in Seq(Pieces) /\ ToSet(raw)' = R /\ Len(raw') <= Limit
  <2>1. raw' = Only(raw, R) /\ R \in SUBSET ToSet(raw) /\ raw \in Seq(Pieces) /\ Len(raw) <= Limit
    BY <1>1, <1>2 DEF Demote, TypedInv
  <2> HIDE DEF R
  <2>2. raw' \in Seq(Pieces) /\ ToSet(raw') = R /\ Len(raw') <= Len(raw)
    BY <2>1, Kept
  <2> QED BY <2>1, <2>2, ContextAssumption
<1>5. created' = [i \in DOMAIN created \ ids |-> created[i]]
  BY <1>1 DEF Demote, DatesWithout
<1>6. Ids' = Ids \ ids
  BY <1>3 DEF Ids
<1>7. TypedInv'
  <2>1. step' \in 0 .. MaxSteps /\ step \in Nat
    BY <1>1, <1>2, ContextAssumption DEF TypedInv
  <2>2. DOMAIN created' = Ids' /\ \A i \in Ids' : created'[i] \in 1 .. step'
    BY <1>1, <1>2, <1>5, <1>6, <2>1 DEF TypedInv
  <2>3. \A x \in Anchors' : x.text # NoText /\ [file |-> x.file, id |-> Id(x)] \in grounded'
    BY <1>1, <1>2, <1>3 DEF TypedInv
  <2>4. text' \in [Slices -> Texts] /\ indexed' \in [Slices -> Spans]
        /\ results' \in Seq(Results)
    BY <1>1, <1>2 DEF TypedInv
  <2>5. \A x : Id(x)' = Id(x)
    BY DEF Id
  <2> QED BY <1>1, <1>3, <1>4, <2>1, <2>2, <2>3, <2>4, <2>5 DEF TypedInv
<1>8. CurrentInv'
  <2>1. Known' \subseteq Known
    BY <1>1, <1>3, <1>4 DEF Known
  <2> QED BY <1>1, <2>1, CurrentStays DEF ContextInv, CurrentInv
<1>9. IndexInv'
  BY <1>1 DEF ContextInv, IndexInv
<1>10. BatchInv'
  BY <1>1 DEF BatchInv
<1>11. CoverInv'
  BY <1>1, <1>3, <1>4 DEF ContextInv, CoverInv
<1> QED BY <1>7, <1>8, <1>9, <1>10, <1>11 DEF ContextInv

\* A batch is read at once and its results are held against the anchors.
LEMMA RetrieveKeeps ==
  ASSUME ContextInv, Retrieve
  PROVE  ContextInv'
<1>0. PICK n \in 1 .. Batch : \E xs \in [1 .. n -> Readable] : results' = Deduped(xs)
  BY DEF Retrieve
<1>1. PICK xs \in [1 .. n -> Readable] : results' = Deduped(xs)
  BY <1>0
<1>2. /\ TypedInv /\ step > 0 /\ results = <<>>
      /\ UNCHANGED <<step, text, indexed, store, modified, outdated, crowded>>
  BY DEF ContextInv, Retrieve
<1>3. UNCHANGED <<code, created, raw, grounded, Anchors, Ids>>
  BY <1>2 DEF store, Anchors, Ids, Id
<1>4. \A x \in Readable : x \in Pieces /\ Current(x)
  BY <1>2, ReadablePiece DEF TypedInv, Current
<1>5. xs \in Seq(Pieces) /\ \A x \in ToSet(xs) : x \in Readable
  <2>1. n \in Nat /\ DOMAIN xs = 1 .. n /\ \A i \in 1 .. n : xs[i] \in Readable
    BY <1>1, ContextAssumption
  <2>2. xs \in [1 .. n -> Pieces]
    BY <1>4, <2>1
  <2> QED BY <2>1, <2>2 DEF ToSet
<1>6. /\ results' \in Seq(Results)
      /\ Batched(results', Anchors)
      /\ \A i \in DOMAIN results' : results'[i].item \in ToSet(xs)
  BY <1>1, <1>2, <1>5, DedupedBatched DEF TypedInv
<1>7. TypedInv'
  BY <1>2, <1>3, <1>6 DEF TypedInv
<1>8. \A i \in DOMAIN results' : results'[i].item \in Readable
  BY <1>5, <1>6
<1>9. CurrentInv'
  <2>1. \A i \in DOMAIN results' : \A y \in ToSet(results'[i].repeats) :
          y \in Anchors \/ y \in Readable
    BY <1>6, <1>8 DEF Batched, BatchedAt, FreshItemsBefore, FreshBefore
  <2>2. Known' \subseteq Known \cup Readable
    BY <1>3, <1>8, <2>1 DEF Known
  <2> QED BY <1>2, <1>4, <2>2, CurrentStays DEF ContextInv, CurrentInv
<1>10. IndexInv'
  BY <1>2 DEF ContextInv, IndexInv
<1>11. BatchInv'
  <2>1. \A x \in Anchors : x.text # NoText
    BY <1>2 DEF TypedInv
  <2> QED BY <1>3, <1>6, <2>1 DEF BatchInv, Batched, BatchedAt
<1>12. CoverInv'
  BY <1>2, <1>3 DEF ContextInv, CoverInv
<1> QED BY <1>7, <1>9, <1>10, <1>11, <1>12 DEF ContextInv

\* The first result of a batch.
LEMMA HeadType ==
  ASSUME ContextInv, results # <<>>
  PROVE  /\ 1 \in DOMAIN results /\ Head(results) = results[1]
         /\ Head(results).item \in Pieces /\ Head(results).repeats \in Seq(Pieces)
         /\ Head(results).item \in Known /\ ToSet(Head(results).repeats) \subseteq Known
         /\ Tail(results) \in Seq(Results)
         /\ Len(Tail(results)) \in Nat /\ DOMAIN Tail(results) = 1 .. Len(Tail(results))
         /\ \A j \in DOMAIN Tail(results) :
              j + 1 \in DOMAIN results /\ Tail(results)[j] = results[j + 1]
<1>1. results \in Seq(Results)
  BY DEF ContextInv, TypedInv
<1>2. 1 \in DOMAIN results /\ Head(results) = results[1] /\ results[1] \in Results
  BY <1>1
<1>3. /\ Tail(results) \in Seq(Results)
      /\ Len(Tail(results)) \in Nat /\ DOMAIN Tail(results) = 1 .. Len(Tail(results))
      /\ \A j \in DOMAIN Tail(results) :
           j + 1 \in DOMAIN results /\ Tail(results)[j] = results[j + 1]
  BY <1>1
<1> QED BY <1>2, <1>3 DEF Results, Known

\* The results before one, when the first is stored.
LEMMA FreshShifts ==
  ASSUME ContextInv, results # <<>>, NEW j \in DOMAIN Tail(results)
  PROVE  FreshItemsBefore(results, j + 1)
           = FreshItemsBefore(Tail(results), j)
               \cup (IF Head(results).repeats = <<>> THEN {Head(results).item} ELSE {})
<1> DEFINE tail == Tail(results)
<1>1. /\ 1 \in DOMAIN results /\ Head(results) = results[1]
      /\ Len(tail) \in Nat /\ DOMAIN tail = 1 .. Len(tail)
      /\ \A i \in DOMAIN tail : i + 1 \in DOMAIN results /\ tail[i] = results[i + 1]
  BY HeadType
<1> HIDE DEF tail
<1>2. j \in 1 .. Len(tail)
  BY <1>1 DEF tail
<1>3. \A i \in 1 .. (j + 1) - 1 : i = 1 \/ (i - 1 \in 1 .. j - 1 /\ results[i] = tail[i - 1])
  <2> TAKE i \in 1 .. (j + 1) - 1
  <2>1. i # 1 => i - 1 \in DOMAIN tail /\ (i - 1) + 1 = i /\ i - 1 \in 1 .. j - 1
    BY <1>1, <1>2
  <2> QED BY <1>1, <2>1
<1>4. \A i \in 1 .. j - 1 : i + 1 \in 1 .. (j + 1) - 1 /\ results[i + 1] = tail[i]
  <2> TAKE i \in 1 .. j - 1
  <2>1. i \in DOMAIN tail /\ i + 1 \in 1 .. (j + 1) - 1
    BY <1>1, <1>2
  <2> QED BY <1>1, <2>1
<1>5. 1 \in 1 .. (j + 1) - 1
  BY <1>2
<1>6. FreshItemsBefore(results, j + 1) \subseteq FreshItemsBefore(tail, j)
        \cup (IF results[1].repeats = <<>> THEN {results[1].item} ELSE {})
  BY <1>3 DEF FreshItemsBefore, FreshBefore
<1>7. FreshItemsBefore(tail, j) \subseteq FreshItemsBefore(results, j + 1)
  BY <1>4 DEF FreshItemsBefore, FreshBefore
<1>8. results[1].repeats = <<>> => results[1].item \in FreshItemsBefore(results, j + 1)
  BY <1>5 DEF FreshItemsBefore, FreshBefore
<1> QED BY <1>1, <1>6, <1>7, <1>8 DEF tail

\* What the code says of the first result still holds when it is stored.
LEMMA StoredAsHeld ==
  ASSUME ContextInv, results # <<>>
  PROVE  /\ Head(results).repeats = <<>> => Repeated(Head(results).item, code) = <<>>
         /\ \A y \in ToSet(Head(results).repeats) : y.text # NoText \/ y.file \in crowded
<1>1. /\ 1 \in DOMAIN results /\ Head(results) = results[1] /\ code \in Seq(Pieces)
  BY HeadType DEF ContextInv, TypedInv
<1>2. FreshItemsBefore(results, 1) = {}
  BY DEF FreshItemsBefore, FreshBefore
<1>3. /\ results[1].repeats = <<>> =>
           \A y \in Anchors :
             SameEvidence(results[1].item, y) /\ Redundant(results[1].item, y)
               => Better(results[1].item, y)
      /\ \A y \in ToSet(results[1].repeats) : y.text # NoText \/ y.file \in crowded
  BY <1>1, <1>2 DEF ContextInv, BatchInv
<1> QED BY <1>1, <1>3, RepeatedType DEF Anchors

\* An anchor that nothing pushed out stays in the working set: what is touched replaces
\* no other code of an unwritten file.
LEMMA TouchCovers ==
  ASSUME ContextInv, NEW xs \in Seq(Pieces), raw' = TouchAll(raw, xs),
         NEW y \in Anchors, y.file \notin outdated, NEW Out, crowded \subseteq Out,
         {z.file : z \in {v \in ToSet(raw) : Len(raw') = Limit /\ v \notin ToSet(raw')}}
           \subseteq Out,
         \A x \in ToSet(xs) : Current(x) /\ (x.text # NoText \/ x.file \in Out),
         y.file \notin Out
  PROVE  y \in ToSet(raw')
<1>1. raw \in Seq(Pieces) /\ y \in Pieces /\ y.text # NoText /\ Current(y) /\ y \in ToSet(raw)
  <2>1. code \in Seq(Pieces) /\ raw \in Seq(Pieces) /\ y.text # NoText
    BY DEF ContextInv, TypedInv
  <2>2. y \in Pieces
    BY <2>1 DEF Anchors, ToSet
  <2> QED BY <2>1, <2>2 DEF ContextInv, CurrentInv, Known, CoverInv
<1>2. \A x \in ToSet(xs) : Replaces(x, y) => x = y
  <2> SUFFICES ASSUME NEW x \in ToSet(xs), Replaces(x, y)
               PROVE  x = y
    OBVIOUS
  <2>1. x \in Pieces
    BY DEF ToSet
  <2>2. x.file = y.file
    BY DEF Replaces, SameEvidence, Overlap
  <2> QED BY <1>1, <2>1, <2>2, ReplacesSelf
<1>3. y \in ToSet(raw') \/ Len(raw') = Limit
  BY <1>1, <1>2, TouchAllType
<1> QED BY <1>1, <1>3

\* A result that repeats nothing is stored.
LEMMA FreshStored ==
  ASSUME ContextInv, StoreResult, Head(results).repeats = <<>>
  PROVE  ContextInv'
<1> DEFINE x == Head(results).item
<1>1. /\ results # <<>> /\ results' = Tail(results)
      /\ UNCHANGED <<step, text, indexed, locators, modified, outdated>>
      /\ Ground(x) /\ Ingest(x) /\ raw' = TouchAll(raw, <<x>>)
      /\ crowded' = crowded \cup (IF x.text = NoText THEN {x.file} ELSE {})
           \cup {y.file : y \in {z \in ToSet(raw) : Len(raw') = Limit /\ z \notin ToSet(raw')}}
  BY StoredAsHeld DEF StoreResult
<1>2. /\ TypedInv /\ step > 0 /\ step \in Nat
  BY <1>1, ContextAssumption DEF ContextInv, TypedInv
<1>3. /\ x \in Pieces /\ x \in Known /\ Current(x)
  BY <1>1, HeadType DEF ContextInv, CurrentInv
<1>4. /\ <<x>> \in Seq(Pieces) /\ ToSet(<<x>>) = {x} /\ <<x>> # <<>> /\ <<x>>[Len(<<x>>)] = x
  <2> HIDE DEF x
  <2> QED BY <1>3 DEF ToSet
<1> HIDE DEF x
<1>5. /\ raw' \in Seq(Pieces) /\ Len(raw') <= Limit
      /\ ToSet(raw') \subseteq ToSet(raw) \cup {x} /\ x \in ToSet(raw')
  BY <1>1, <1>2, <1>4, TouchAllType DEF TypedInv
<1>6. /\ code' \in Seq(Pieces)
      /\ Anchors' \subseteq Anchors \cup (IF x.text = NoText THEN {} ELSE {x})
      /\ DOMAIN created' = Ids' /\ \A i \in Ids' : created'[i] \in 1 .. step
  <2>1. code \in Seq(Pieces) /\ DOMAIN created = Ids /\ \A i \in Ids : created[i] \in 1 .. step
    BY <1>2 DEF TypedInv
  <2>2. CASE x.text = NoText
    <3>1. UNCHANGED <<code, created, Anchors, Ids>>
      BY <1>1, <2>2 DEF Ingest, Anchors, Ids, Id
    <3> QED BY <2>1, <2>2, <3>1
  <2>3. CASE x.text # NoText
    <3> DEFINE old == {Id(y) : y \in {z \in Anchors : Overlap(x, z) /\ z.sym = x.sym}}
               A == {y \in Anchors : Id(y) \notin old}
               q == Only(code, A)
    <3>1. /\ code' = Append(q, x)
          /\ created' = [i \in (DOMAIN created \ old) \cup {Id(x)} |->
                           IF i = Id(x) THEN step ELSE created[i]]
      BY <1>1, <2>3 DEF Ingest
    <3>2. A \in SUBSET ToSet(code)
      BY DEF Anchors
    <3>3. q \in Seq(Pieces) /\ ToSet(q) = A
      <4> HIDE DEF A
      <4> QED BY <2>1, <3>2, Kept
    <3> HIDE DEF q
    <3>4. code' \in Seq(Pieces) /\ Anchors' = A \cup {x}
      BY <1>3, <3>1, <3>3, AppendSet DEF Anchors
    <3>5. Ids' = (Ids \ old) \cup {Id(x)}
      <4>1. Ids' = {Id(y) : y \in A \cup {x}}
        BY <3>4 DEF Ids, Id
      <4>2. {Id(y) : y \in A} = Ids \ old
        BY DEF Ids
      <4> QED BY <4>1, <4>2
    <3> HIDE DEF old
    <3>6. DOMAIN created' = Ids' /\ \A i \in Ids' : created'[i] \in 1 .. step
      BY <1>2, <2>1, <3>1, <3>5
    <3> QED BY <2>3, <3>4, <3>6
  <2> QED BY <2>2, <2>3
<1>7. Tail(results) \in Seq(Results)
  BY <1>1, HeadType
<1>8. TypedInv'
  <2>1. \A y \in Anchors' : y.text # NoText /\ [file |-> y.file, id |-> Id(y)] \in grounded'
    BY <1>1, <1>2, <1>6 DEF TypedInv, Ground
  <2>2. \A y : Id(y)' = Id(y)
    BY DEF Id
  <2> QED BY <1>1, <1>2, <1>5, <1>6, <1>7, <2>1, <2>2 DEF TypedInv
<1>9. CurrentInv'
  <2>1. \A j \in DOMAIN results' : \E k \in DOMAIN results : results'[j] = results[k]
    BY <1>1, HeadType
  <2>2. Known' \subseteq Known
    BY <1>3, <1>5, <1>6, <2>1 DEF Known
  <2> QED BY <1>1, <2>2, CurrentStays DEF ContextInv, CurrentInv
<1>10. IndexInv'
  BY <1>1 DEF ContextInv, IndexInv
<1>11. BatchInv'
  <2> DEFINE tail == Tail(results)
  <2>1. SUFFICES ASSUME NEW j \in DOMAIN tail
                 PROVE  /\ tail[j].repeats = <<>> =>
                             \A y \in Anchors' \cup FreshItemsBefore(tail, j) :
                               SameEvidence(tail[j].item, y) /\ Redundant(tail[j].item, y)
                                 => Better(tail[j].item, y)
                        /\ \A y \in ToSet(tail[j].repeats) :
                             \/ y.text # NoText \/ y.file \in crowded'
                             \/ y \in FreshItemsBefore(tail, j)
    BY <1>1 DEF BatchInv
  <2>2. j + 1 \in DOMAIN results /\ tail[j] = results[j + 1]
    BY <1>1, HeadType
  <2>3. FreshItemsBefore(results, j + 1) = FreshItemsBefore(tail, j) \cup {x}
    BY <1>1, FreshShifts DEF x
  <2>4. /\ results[j + 1].repeats = <<>> =>
             \A y \in Anchors \cup FreshItemsBefore(results, j + 1) :
               SameEvidence(results[j + 1].item, y) /\ Redundant(results[j + 1].item, y)
                 => Better(results[j + 1].item, y)
        /\ \A y \in ToSet(results[j + 1].repeats) :
             \/ y.text # NoText \/ y.file \in crowded
             \/ y \in FreshItemsBefore(results, j + 1)
    BY <2>2 DEF ContextInv, BatchInv
  <2>5. x.text = NoText => x.file \in crowded'
    BY <1>1
  <2>6. crowded \subseteq crowded'
    BY <1>1
  <2>7. Anchors' \subseteq Anchors \cup {x}
    BY <1>6
  <2> HIDE DEF tail
  <2> QED BY <2>2, <2>3, <2>4, <2>5, <2>6, <2>7
<1>12. CoverInv'
  <2> SUFFICES ASSUME NEW y \in Anchors', y.file \notin outdated \cup crowded'
               PROVE  y \in ToSet(raw')
    BY <1>1 DEF CoverInv
  <2>1. CASE y = x
    BY <1>5, <2>1
  <2>2. CASE y # x
    <3>1. y \in Anchors /\ y.file \notin outdated /\ y.file \notin crowded'
      BY <1>6, <2>2
    <3>2. crowded \subseteq crowded'
      BY <1>1
    <3>3. {z.file : z \in {v \in ToSet(raw) : Len(raw') = Limit /\ v \notin ToSet(raw')}}
             \subseteq crowded'
      BY <1>1
    <3>4. \A z \in ToSet(<<x>>) : Current(z) /\ (z.text # NoText \/ z.file \in crowded')
      BY <1>1, <1>3, <1>4
    <3> QED BY <1>1, <1>4, <3>1, <3>2, <3>3, <3>4, TouchCovers
  <2> QED BY <2>1, <2>2
<1> QED BY <1>8, <1>9, <1>10, <1>11, <1>12 DEF ContextInv

\* A result that repeats what is held touches it.
LEMMA RepetitionStored ==
  ASSUME ContextInv, StoreResult, Head(results).repeats # <<>>
  PROVE  ContextInv'
<1> DEFINE ys == Head(results).repeats
<1>1. /\ results # <<>> /\ results' = Tail(results)
      /\ UNCHANGED <<step, text, indexed, locators, modified, outdated, code, created, grounded>>
      /\ raw' = TouchAll(raw, ys)
      /\ {y.file : y \in {z \in ToSet(raw) : Len(raw') = Limit /\ z \notin ToSet(raw')}}
           \subseteq crowded'
      /\ crowded \subseteq crowded'
  BY DEF StoreResult
<1>2. TypedInv
  BY DEF ContextInv
<1>3. UNCHANGED <<Anchors, Ids>>
  BY <1>1 DEF Anchors, Ids, Id
<1>4. ys \in Seq(Pieces) /\ ToSet(ys) \subseteq Known /\ Tail(results) \in Seq(Results)
  BY <1>1, HeadType
<1>5. /\ raw' \in Seq(Pieces) /\ Len(raw') <= Limit
      /\ ToSet(raw') \subseteq ToSet(raw) \cup ToSet(ys)
  <2> HIDE DEF ys
  <2> QED BY <1>1, <1>2, <1>4, TouchAllType DEF TypedInv
<1>6. TypedInv'
  <2>1. step' = 0 => results' = <<>>
    BY <1>1, <1>2 DEF TypedInv
  <2> QED BY <1>1, <1>2, <1>3, <1>4, <1>5, <2>1 DEF TypedInv, Id
<1>7. CurrentInv'
  <2>1. \A j \in DOMAIN results' : \E k \in DOMAIN results : results'[j] = results[k]
    BY <1>1, HeadType
  <2>2. Known' \subseteq Known
    BY <1>3, <1>4, <1>5, <2>1 DEF Known
  <2> QED BY <1>1, <2>2, CurrentStays DEF ContextInv, CurrentInv
<1>8. IndexInv'
  BY <1>1 DEF ContextInv, IndexInv
<1>9. BatchInv'
  <2> DEFINE tail == Tail(results)
  <2>1. SUFFICES ASSUME NEW j \in DOMAIN tail
                 PROVE  /\ tail[j].repeats = <<>> =>
                             \A y \in Anchors \cup FreshItemsBefore(tail, j) :
                               SameEvidence(tail[j].item, y) /\ Redundant(tail[j].item, y)
                                 => Better(tail[j].item, y)
                        /\ \A y \in ToSet(tail[j].repeats) :
                             \/ y.text # NoText \/ y.file \in crowded'
                             \/ y \in FreshItemsBefore(tail, j)
    BY <1>1, <1>3 DEF BatchInv
  <2>2. j + 1 \in DOMAIN results /\ tail[j] = results[j + 1]
    BY <1>1, HeadType
  <2>3. FreshItemsBefore(results, j + 1) = FreshItemsBefore(tail, j)
    BY <1>1, FreshShifts
  <2>4. /\ results[j + 1].repeats = <<>> =>
             \A y \in Anchors \cup FreshItemsBefore(results, j + 1) :
               SameEvidence(results[j + 1].item, y) /\ Redundant(results[j + 1].item, y)
                 => Better(results[j + 1].item, y)
        /\ \A y \in ToSet(results[j + 1].repeats) :
             \/ y.text # NoText \/ y.file \in crowded
             \/ y \in FreshItemsBefore(results, j + 1)
    BY <2>2 DEF ContextInv, BatchInv
  <2> HIDE DEF tail
  <2> QED BY <1>1, <2>2, <2>3, <2>4
<1>10. CoverInv'
  <2> SUFFICES ASSUME NEW y \in Anchors, y.file \notin outdated \cup crowded'
               PROVE  y \in ToSet(raw')
    BY <1>1, <1>3 DEF CoverInv
  <2>1. \A z \in ToSet(ys) : Current(z) /\ (z.text # NoText \/ z.file \in crowded')
    BY <1>1, <1>4, StoredAsHeld DEF ContextInv, CurrentInv
  <2> HIDE DEF ys
  <2> QED BY <1>1, <1>4, <2>1, TouchCovers
<1> QED BY <1>6, <1>7, <1>8, <1>9, <1>10 DEF ContextInv

-----------------------------------------------------------------------------
(* Writes.                                                                 *)

\* A write of one slice leaves the slices of the other files where and what they are.
LEMMA WriteType ==
  ASSUME text \in [Slices -> Texts], NEW s \in Slices, NEW t \in Texts,
         text' = [text EXCEPT ![s] = t]
  PROVE  /\ text' \in [Slices -> Texts]
         /\ \A r \in Slices : FileOf(r) # FileOf(s) =>
              Place(text', r) = Place(text, r) /\ Viewed(r)' = Viewed(r)
<1>1. text' \in [Slices -> Texts] /\ \A r \in Slices : r # s => text'[r] = text[r]
  OBVIOUS
<1>2. ASSUME NEW r \in Slices, FileOf(r) # FileOf(s)
      PROVE  Place(text', r) = Place(text, r) /\ Viewed(r)' = Viewed(r)
  <2>1. SlicesOf(FileOf(r)) \cap SlicesOf(FileOf(s)) = {} /\ SlicesOf(FileOf(r)) \subseteq Slices
        /\ s \in SlicesOf(FileOf(s)) /\ r \in SlicesOf(FileOf(r))
    BY <1>2, FileOfSlice, LayoutAssumption DEF Slices
  <2>2. \A v \in SlicesOf(FileOf(r)) : text'[v] = text[v]
    BY <1>1, <2>1
  <2>3. Place(text', r) = Place(text, r)
    BY <1>1, <2>2, PlaceSame
  <2>4. text'[r] = text[r]
    BY <2>1, <2>2
  <2> QED BY <2>3, <2>4 DEF Viewed, Evidence
<1> QED BY <1>1, <1>2

\* What is held of the other files is as current as before.
LEMMA WriteKeepsCurrent ==
  ASSUME text \in [Slices -> Texts], NEW s \in Slices, NEW t \in Texts,
         text' = [text EXCEPT ![s] = t], NEW x \in Pieces, Current(x),
         x.file # FileOf(s), x.file \in outdated => x.file \in outdated'
  PROVE  Current(x)'
<1>1. x.text # NoText => x.sym \in Slices /\ FileOf(x.sym) = x.file
  BY PieceType
<1>2. x.text # NoText => Viewed(x.sym)' = Viewed(x.sym)
  BY <1>1, WriteType
<1> QED BY <1>2 DEF Current

\* What is known are pieces.
LEMMA KnownPieces ==
  ASSUME ContextInv
  PROVE  Known \subseteq Pieces
<1>1. code \in Seq(Pieces) /\ raw \in Seq(Pieces) /\ results \in Seq(Results)
  BY DEF ContextInv, TypedInv
<1>2. Anchors \subseteq Pieces /\ ToSet(raw) \subseteq Pieces
  BY <1>1 DEF Anchors, ToSet
<1>3. \A i \in DOMAIN results : results[i].item \in Pieces /\ results[i].repeats \in Seq(Pieces)
  <2>1. \A i \in DOMAIN results : results[i] \in Results
    BY <1>1
  <2> QED BY <2>1 DEF Results
<1>4. \A i \in DOMAIN results : ToSet(results[i].repeats) \subseteq Pieces
  BY <1>3 DEF ToSet
<1> QED BY <1>2, <1>3, <1>4 DEF Known

\* An edit of the response lets everything go that is held of the file it names.
LEMMA EditLandsKeeps ==
  ASSUME ContextInv, NEW f \in Files, NEW s \in Slices, NEW t \in Texts, EditLands(f, s, t)
  PROVE  ContextInv'
<1> DEFINE A == {x \in Anchors : x.file # f}
           R == {x \in ToSet(raw) : x.file # f}
<1>1. /\ step > 0 /\ results = <<>> /\ results' = <<>>
      /\ text' = [text EXCEPT ![s] = t]
      /\ modified' = modified \cup {f} /\ outdated' = (outdated \cup {FileOf(s)}) \ {f}
      /\ UNCHANGED <<step, indexed, crowded>>
      /\ code' = Only(code, A) /\ raw' = Only(raw, R)
      /\ created' = [i \in DOMAIN created \ {i \in DOMAIN created : i[1] = f} |-> created[i]]
      /\ grounded' = {e \in grounded : e.id \notin {Id(x) : x \in {y \in Anchors : y.file = f}}}
  BY DEF EditLands, Write, Invalidate, DatesWithout
<1>2. TypedInv
  BY DEF ContextInv
<1>3. text' \in [Slices -> Texts]
  BY <1>1, <1>2, WriteType DEF TypedInv
<1>4. code' \in Seq(Pieces) /\ Anchors' = A
  <2>1. code \in Seq(Pieces) /\ A \in SUBSET ToSet(code)
    BY <1>2 DEF TypedInv, Anchors
  <2> HIDE DEF A
  <2> QED BY <1>1, <2>1, Kept DEF Anchors
<1>5. raw' \in Seq(Pieces) /\ ToSet(raw') = R /\ Len(raw') <= Limit
  <2>1. raw \in Seq(Pieces) /\ R \in SUBSET ToSet(raw) /\ Len(raw) <= Limit
    BY <1>2 DEF TypedInv
  <2> HIDE DEF R
  <2>2. raw' \in Seq(Pieces) /\ ToSet(raw') = R /\ Len(raw') <= Len(raw)
    BY <1>1, <2>1, Kept
  <2> QED BY <2>1, <2>2, ContextAssumption
<1>6. \A x : Id(x)[1] = x.file /\ Id(x)' = Id(x)
  BY DEF Id
<1>7. Ids' = {i \in Ids : i[1] # f}
  BY <1>4, <1>6 DEF Ids
<1>8. TypedInv'
  <2>1. DOMAIN created' = Ids' /\ \A i \in Ids' : created'[i] \in 1 .. step
    BY <1>1, <1>2, <1>7 DEF TypedInv
  <2>2. ASSUME NEW x \in Anchors'
        PROVE  x.text # NoText /\ [file |-> x.file, id |-> Id(x)] \in grounded'
    <3>1. x \in Anchors /\ x.file # f
      BY <1>4
    <3>2. [file |-> x.file, id |-> Id(x)] \in grounded /\ x.text # NoText
      BY <1>2, <3>1 DEF TypedInv
    <3>3. Id(x) \notin {Id(z) : z \in {y \in Anchors : y.file = f}}
      BY <1>6, <3>1
    <3> QED BY <1>1, <3>2, <3>3
  <2> QED BY <1>1, <1>2, <1>3, <1>4, <1>5, <1>6, <2>1, <2>2 DEF TypedInv
<1>9. CurrentInv'
  <2>1. Known' \subseteq {x \in Known : x.file # f}
    BY <1>1, <1>4, <1>5 DEF Known
  <2> SUFFICES ASSUME NEW x \in Known, x.file # f
               PROVE  Current(x)'
    BY <2>1 DEF CurrentInv
  <2>2. x \in Pieces /\ Current(x)
    BY KnownPieces DEF ContextInv, CurrentInv
  <2>3. CASE x.file = FileOf(s)
    BY <1>1, <2>3 DEF Current
  <2>4. CASE x.file # FileOf(s)
    BY <1>1, <1>2, <2>2, <2>4, WriteKeepsCurrent DEF TypedInv
  <2> QED BY <2>3, <2>4
<1>10. IndexInv'
  <2> SUFFICES ASSUME NEW r \in Slices, FileOf(r) \notin outdated' \cup modified'
               PROVE  indexed'[r] = Place(text', r)
    BY DEF IndexInv
  <2>1. FileOf(r) # FileOf(s) /\ FileOf(r) \notin outdated \cup modified
    BY <1>1
  <2> QED BY <1>1, <1>2, <2>1, WriteType DEF ContextInv, IndexInv, TypedInv
<1>11. BatchInv'
  BY <1>1 DEF BatchInv
<1>12. CoverInv'
  BY <1>1, <1>4, <1>5 DEF ContextInv, CoverInv
<1> QED BY <1>8, <1>9, <1>10, <1>11, <1>12 DEF ContextInv

\* A step of the plan that is drained, or a save of the user, lets nothing go: the code
\* of the file is outdated.
LEMMA UntoldWriteKeeps ==
  ASSUME ContextInv, NEW s \in Slices, NEW t \in Texts,
         (\E g \in Files : DrainLands(g, s, t)) \/ UserSaves(s, t)
  PROVE  ContextInv'
<1> DEFINE f == FileOf(s)
<1>1. /\ text' = [text EXCEPT ![s] = t]
      /\ modified \subseteq modified' /\ outdated' = outdated \cup {f}
      /\ UNCHANGED <<step, indexed, crowded, results, code, created, raw, grounded>>
  BY DEF DrainLands, UserSaves, Write, store
<1>2. TypedInv
  BY DEF ContextInv
<1>3. text' \in [Slices -> Texts]
  BY <1>1, <1>2, WriteType DEF TypedInv
<1>4. UNCHANGED <<Anchors, Ids, Known>>
  BY <1>1 DEF Anchors, Ids, Id, Known
<1>5. TypedInv'
  BY <1>1, <1>2, <1>3, <1>4 DEF TypedInv, Id
<1>6. CurrentInv'
  <2> SUFFICES ASSUME NEW x \in Known
               PROVE  Current(x)'
    BY <1>4 DEF CurrentInv
  <2>1. x \in Pieces /\ Current(x)
    BY KnownPieces DEF ContextInv, CurrentInv
  <2>2. CASE x.file = f
    BY <1>1, <2>2 DEF Current
  <2>3. CASE x.file # f
    BY <1>1, <1>2, <2>1, <2>3, WriteKeepsCurrent DEF TypedInv
  <2> QED BY <2>2, <2>3
<1>7. IndexInv'
  <2> SUFFICES ASSUME NEW r \in Slices, FileOf(r) \notin outdated' \cup modified'
               PROVE  indexed'[r] = Place(text', r)
    BY DEF IndexInv
  <2>1. FileOf(r) # f /\ FileOf(r) \notin outdated \cup modified
    BY <1>1
  <2> QED BY <1>1, <1>2, <2>1, WriteType DEF ContextInv, IndexInv, TypedInv
<1>8. BatchInv'
  BY <1>1, <1>4 DEF ContextInv, BatchInv
<1>9. CoverInv'
  BY <1>1, <1>4 DEF ContextInv, CoverInv
<1> QED BY <1>5, <1>6, <1>7, <1>8, <1>9 DEF ContextInv

\* What leaves the files and the context alone.
LEMMA OthersKeep ==
  ASSUME ContextInv, (\E f \in Files : EditRejected(f)) \/ Reindex \/ UNCHANGED vars
  PROVE  ContextInv'
<1>1. /\ UNCHANGED <<step, text, crowded, outdated, results, code, created, raw, grounded>>
      /\ modified \subseteq modified'
      /\ UNCHANGED indexed \/ indexed' = Places(text)
  BY DEF EditRejected, Reindex, vars, store
<1>2. TypedInv
  BY DEF ContextInv
<1>3. UNCHANGED <<Anchors, Ids, Known>>
  BY <1>1 DEF Anchors, Ids, Id, Known
<1>4. indexed' \in [Slices -> Spans]
  <2>1. text \in [Slices -> Texts] /\ indexed \in [Slices -> Spans]
    BY <1>2 DEF TypedInv
  <2>2. Places(text) \in [Slices -> Spans]
    BY <2>1, PlaceType DEF Places
  <2> QED BY <1>1, <2>1, <2>2
<1>5. TypedInv'
  BY <1>1, <1>2, <1>3, <1>4 DEF TypedInv, Id
<1>6. CurrentInv'
  BY <1>1, <1>3, CurrentStays DEF ContextInv, CurrentInv
<1>7. IndexInv'
  BY <1>1 DEF ContextInv, IndexInv, Places
<1>8. BatchInv'
  BY <1>1, <1>3 DEF ContextInv, BatchInv
<1>9. CoverInv'
  BY <1>1, <1>3 DEF ContextInv, CoverInv
<1> QED BY <1>5, <1>6, <1>7, <1>8, <1>9 DEF ContextInv

-----------------------------------------------------------------------------
(* Theorems.                                                               *)

\* What is held, what is on its way, the index and the dates belong together in every
\* state: start of a step, batch of reads, store, edit, drained step, save and reindexing
\* keep it (state_assembled_loop.py, context_compress.py).
THEOREM ContextInvariant == Spec => []ContextInv
<1>1. Init => ContextInv
  BY InitContext
<1>2. ContextInv /\ [Next]_vars => ContextInv'
  <2> SUFFICES ASSUME ContextInv, [Next]_vars
               PROVE  ContextInv'
    OBVIOUS
  <2>1. ASSUME NEW plan, BeginStep(plan)
        PROVE  ContextInv'
    BY <2>1, BeginStepKeeps
  <2>2. CASE Retrieve
    BY <2>2, RetrieveKeeps
  <2>3. CASE StoreResult
    BY <2>3, FreshStored, RepetitionStored
  <2>4. ASSUME NEW f \in Files, NEW s \in Slices, NEW t \in Texts, EditLands(f, s, t)
        PROVE  ContextInv'
    BY <2>4, EditLandsKeeps
  <2>5. ASSUME NEW s \in Slices, NEW t \in Texts,
               (\E f \in Files : DrainLands(f, s, t)) \/ UserSaves(s, t)
        PROVE  ContextInv'
    BY <2>5, UntoldWriteKeeps
  <2>6. CASE (\E f \in Files : EditRejected(f)) \/ Reindex \/ UNCHANGED vars
    BY <2>6, OthersKeep
  <2> QED BY <2>1, <2>2, <2>3, <2>4, <2>5, <2>6 DEF Next
<1> QED BY <1>1, <1>2, PTL DEF Spec

\* Every anchor has its date and its file is active, so that neither age nor budget
\* takes it (_invalidate_context_files and demote_stale_code keep dates and anchors
\* together).
THEOREM ContextTypeCorrect == Spec => []ContextTypeOK
<1>1. ContextInv => ContextTypeOK
  <2> SUFFICES ASSUME ContextInv
               PROVE  ContextTypeOK
    OBVIOUS
  <2>1. ASSUME NEW x \in Anchors
        PROVE  /\ x.sym \in Slices /\ x.text \in Texts /\ Width(x) = LinesOf[x.text]
               /\ x.file \in ActiveFiles
    <3>1. x \in Pieces /\ x.text # NoText /\ [file |-> x.file, id |-> Id(x)] \in grounded
      BY KnownPieces DEF ContextInv, TypedInv, Known
    <3> QED BY <3>1 DEF Pieces, ActiveFiles
  <2> QED BY <2>1 DEF ContextInv, TypedInv, ContextTypeOK
<1> QED BY <1>1, ContextInvariant, PTL

\* Code in context is the code on disk at its lines unless a drained step, the user or an
\* edit whose call named another file wrote its file (_invalidate_context_files on the
\* event edit_applied).
THEOREM BodiesAreCurrent == Spec => []BodiesCurrent
<1>1. ContextInv => BodiesCurrent
  BY DEF ContextInv, TypedInv, CurrentInv, Current, Known, Bodies, BodiesCurrent
<1> QED BY <1>1, ContextInvariant, PTL

\* A view that fact locking refuses is a view of code that the prompt shows, unless other
\* evidence pushed it out or the file was written (fact_locking.py and _search_cache_view).
THEOREM LockedCodeIsShown == Spec => []LockedIsShown
<1>1. ContextInv => LockedIsShown
  <2> SUFFICES ASSUME ContextInv, NEW s \in Slices,
                      Locked(s), FileOf(s) \notin outdated \cup crowded
               PROVE  s \in Shown
    BY DEF LockedIsShown
  <2>1. FileOf(s) \notin modified /\ text \in [Slices -> Texts]
    BY DEF Locked, ContextInv, TypedInv
  <2>2. PICK x \in Anchors \cup ToSet(raw) :
          /\ x.text # NoText
          /\ x.file = FileOf(s)
          /\ x.sym = s \/ (x.first <= indexed[s].first /\ indexed[s].last <= x.last)
    BY DEF Locked
  <2>3. x \in Pieces /\ x = Viewed(x.sym) /\ x.sym \in Slices /\ FileOf(x.sym) = FileOf(s)
    <3>1. x \in Known
      BY DEF Known
    <3>2. x \in Pieces /\ Current(x)
      BY <3>1, KnownPieces DEF ContextInv, CurrentInv
    <3> QED BY <2>2, <3>2, PieceType DEF Current
  <2>4. x.sym = s
    <3>1. indexed[s] = Place(text, s)
      BY <2>1 DEF ContextInv, IndexInv
    <3>2. x.first = Place(text, x.sym).first /\ x.last = Place(text, x.sym).last
      BY <2>1, <2>3, ViewedPiece
    <3> QED BY <2>1, <2>2, <2>3, <3>1, <3>2, PlacesApart
  <2>5. x \in ToSet(raw)
    BY <2>2 DEF ContextInv, CoverInv
  <2>6. raw # <<>> /\ x \in ToSet(WorkingSet)
    <3>1. raw # <<>>
      BY <2>5 DEF ToSet
    <3> QED BY <2>5, <3>1 DEF WorkingSet
  <2> QED BY <2>1, <2>2, <2>4, <2>6 DEF Shown
<1> QED BY <1>1, ContextInvariant, PTL
=============================================================================
