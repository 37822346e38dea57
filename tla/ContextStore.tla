---------------------------- MODULE ContextStore ----------------------------
(***************************************************************************)
(* The code in context of one request: context_anchors.code (durable, with *)
(* the step of each load), the working set raw_evidence_store from which   *)
(* the prompt's LOADED CODE ANCHORS are made, and the locators, beside the *)
(* files of the project (src/src/agent/state_assembled_loop.py,            *)
(* src/src/agent/context_compress.py,                                      *)
(* src/src/hooks/preflight/fact_locking.py).                               *)
(*                                                                         *)
(* A slice is a symbol of a file; the slices of a file lie one after the   *)
(* other.  Its code is one of Texts: a number of lines and of characters.  *)
(* The first line of a slice defines it.  A grep hit is one line: on a     *)
(* first line it carries the symbol, elsewhere it carries none; it has no  *)
(* code.  codebase_retrieve returns symbols at the lines of the repo map,  *)
(* without code.                                                           *)
(***************************************************************************)
EXTENDS Integers, FiniteSets, Sequences, SequencesExt, Selections

CONSTANTS
  Layout,         \* [files -> sequences of their slices]
  Texts,          \* codes a slice may have
  LinesOf,        \* [Texts -> lines]
  CharsOf,        \* [Texts -> characters]
  FirstText,      \* what every slice holds when the request starts
  Found,          \* bound: slices in which a search finds something
  Limit,          \* LOADED_CODE_ANCHOR_LIMIT
  Batch,          \* bound: calls of one parallel batch
  MaxSteps,       \* max_steps
  MaxWrites,      \* bound: edits, tried or made, and saves of the request
  NoSymbol, NoText

ASSUME ContextAssumption ==
  /\ FirstText \in Texts
  /\ LinesOf \in [Texts -> Nat \ {0}]
  /\ CharsOf \in [Texts -> Nat \ {0}]
  /\ Limit \in Nat \ {0}
  /\ {Batch, MaxSteps, MaxWrites} \subseteq Nat
  /\ NoText \notin Texts

Files == DOMAIN Layout
SlicesOf(f) == ToSet(Layout[f])
Slices == UNION {SlicesOf(f) : f \in Files}
FileOf(s) == CHOOSE f \in Files : s \in SlicesOf(f)

ASSUME LayoutAssumption ==
  /\ \A f \in Files : Layout[f] \in Seq(SlicesOf(f))
  /\ \A f, g \in Files : f # g => SlicesOf(f) \cap SlicesOf(g) = {}
  /\ Found \subseteq Slices
  /\ NoSymbol \notin Slices

HotAge == 1       \* HOT_ANCHOR_AGE_STEPS

VARIABLES
  step,
  text,           \* the files: the code of each slice
  indexed,        \* the lines of each slice in the repo map
  code,           \* context_anchors.code
  created,        \* context_anchors.created_steps
  locators,       \* context_anchors.locators
  raw,            \* search_cache["raw_evidence_store"]
  grounded,       \* evidence.entries: file and artifact
  modified,       \* changes.files
  results,        \* results of the batch that are not stored yet
  writes,         \* edits and saves so far
  outdated,       \* history: files written under the code in context
  crowded         \* history: files whose code the working set let go

store == <<code, created, locators, raw, grounded>>
vars == <<step, text, indexed, store, modified, results, writes,
          outdated, crowded>>

-----------------------------------------------------------------------------
(* Lines and evidence.                                                     *)

\* The line at which each slice of the file ends.
Ends(t, f) ==
  LET end[n \in 0 .. Len(Layout[f])] ==
        IF n = 0 THEN 0 ELSE end[n - 1] + LinesOf[t[Layout[f][n]]]
  IN  end

Rank(s) == CHOOSE k \in DOMAIN Layout[FileOf(s)] : Layout[FileOf(s)][k] = s

Place(t, s) ==
  [first |-> Ends(t, FileOf(s))[Rank(s) - 1] + 1, last |-> Ends(t, FileOf(s))[Rank(s)]]

Places(t) == [s \in Slices |-> Place(t, s)]

Evidence(f, s, place, t) ==
  [file |-> f, sym |-> s, first |-> place.first, last |-> place.last, text |-> t]

Id(x) == <<x.file, x.first, x.last>>
Width(x) == x.last - x.first + 1

\* What view_symbol_code returns: the code on disk.
Viewed(s) == Evidence(FileOf(s), s, Place(text, s), text[s])

\* What grep_search and codebase_retrieve return.
Hits ==
  UNION {{Evidence(FileOf(s), IF l = Place(text, s).first THEN s ELSE NoSymbol,
                   [first |-> l, last |-> l], NoText) :
            l \in Place(text, s).first .. Place(text, s).last} : s \in Found}
Located(s) == Evidence(FileOf(s), s, indexed[s], NoText)

SameEvidence(x, y) ==
  /\ x.file = y.file
  /\ x.sym = y.sym
  /\ x.sym = NoSymbol => Id(x) = Id(y)

\* More than nine tenths of the shorter one lie in the other.
Overlap(x, y) ==
  LET first   == IF x.first > y.first THEN x.first ELSE y.first
      last    == IF x.last < y.last THEN x.last ELSE y.last
      shorter == IF Width(x) < Width(y) THEN Width(x) ELSE Width(y)
  IN  x.file = y.file /\ 10 * (last - first + 1) > 9 * shorter

Redundant(x, prior) ==
  \/ x.text # NoText /\ x.text = prior.text
  \/ prior.first <= x.first /\ x.last <= prior.last

Chars(x) == IF x.text = NoText THEN 0 ELSE CharsOf[x.text]

Better(x, y) ==
  \/ Chars(x) > Chars(y)
  \/ Chars(x) = Chars(y) /\ Width(x) > Width(y)
-----------------------------------------------------------------------------
(* The prompt and the lock.                                                *)

LastOf(seq, n) == SubSeq(seq, IF Len(seq) > n THEN Len(seq) - n + 1 ELSE 1, Len(seq))

\* _search_cache_view: the working set, or without one the durable anchors.
WorkingSet == IF raw # <<>> THEN raw ELSE LastOf(code, Limit)

\* The symbols of unchanged files whose code the prompt shows (the code of the
\* changed files is reduced to a line each once their validation has passed).
Shown == {x.sym : x \in {y \in ToSet(WorkingSet) :
                            y.text # NoText /\ y.file \notin modified}}

Anchors == ToSet(code)

\* Fact locking refuses a view: the lines of the symbol in the repo map lie in
\* code that is held, or code of the symbol is held.
Locked(s) ==
  /\ FileOf(s) \notin modified
  /\ \E x \in Anchors \cup ToSet(raw) :
       /\ x.text # NoText
       /\ x.file = FileOf(s)
       /\ \/ x.sym = s
          \/ x.first <= indexed[s].first /\ indexed[s].last <= x.last

ActiveFiles == {e.file : e \in grounded} \cup modified

-----------------------------------------------------------------------------
(* Start of a step: code that is neither hot nor recent becomes a locator  *)
(* (L3), and when the prompt is over its budget whole files follow, the    *)
(* oldest first, but for the active files and the file of the plan (L2).   *)

DatesWithout(ids) == [i \in DOMAIN created \ ids |-> created[i]]

Demote(ids) ==
  /\ code' = Only(code, {x \in Anchors : Id(x) \notin ids})
  /\ created' = DatesWithout(ids)
  /\ raw' = Only(raw, {x \in ToSet(raw) : Id(x) \notin ids})
  /\ locators' = locators \cup ids

Aged(now, hot) ==
  {Id(x) : x \in {y \in Anchors : y.file \notin hot /\ now - created[Id(y)] > HotAge}}

Age(f) == CHOOSE d \in {created[Id(x)] : x \in {y \in Anchors : y.file = f}} :
            \A x \in Anchors : x.file = f => d <= created[Id(x)]

\* What the fold may take: the oldest of the files it may fold.
Folds(hot, aged) ==
  LET foldable == {x.file : x \in {y \in Anchors : y.file \notin hot /\ Id(y) \notin aged}}
      oldest   == {fs \in SUBSET foldable :
                     \A f \in fs, g \in foldable \ fs : Age(f) <= Age(g)}
  IN  {{Id(x) : x \in {y \in Anchors : y.file \in fs}} : fs \in oldest}

BeginStep(plan) ==
  LET hot  == ActiveFiles \cup plan
      aged == Aged(step + 1, hot)
  IN  /\ results = <<>>
      /\ step < MaxSteps
      /\ step' = step + 1
      /\ \E folded \in Folds(hot, aged) : Demote(aged \cup folded)
      /\ UNCHANGED <<text, indexed, grounded, modified, results, writes,
                     outdated, crowded>>

-----------------------------------------------------------------------------
(* A batch of retrieval calls: every call is held against the lock and     *)
(* read at once; then the results are stored one after the other.          *)

Readable ==
  {Viewed(s) : s \in {t \in Slices : ~Locked(t)}} \cup Hits
    \cup {Located(s) : s \in Found}

\* _dedupe_result_anchors: the evidence that a result repeats.
Repeated(x, prior) ==
  LET same == Only(prior, {y \in ToSet(prior) : SameEvidence(x, y) /\ Redundant(x, y)})
  IN  IF \A y \in ToSet(same) : Better(x, y) THEN <<>> ELSE same

\* The items of the results that repeat nothing.
FreshItems(out) ==
  LET fresh == Only(out, {o \in ToSet(out) : o.repeats = <<>>})
  IN  [i \in DOMAIN fresh |-> fresh[i].item]

\* _dedupe_parallel_anchor_results: the results of a batch against the anchors
\* and against each other.
Deduped(xs) ==
  LET Take(out, x) ==
        Append(out, [item |-> x, repeats |-> Repeated(x, code \o FreshItems(out))])
      taken[n \in 0 .. Len(xs)] == IF n = 0 THEN <<>> ELSE Take(taken[n - 1], xs[n])
  IN  taken[Len(xs)]

Retrieve ==
  /\ step > 0
  /\ results = <<>>
  /\ \E n \in 1 .. Batch : \E xs \in [1 .. n -> Readable] : results' = Deduped(xs)
  /\ UNCHANGED <<step, text, indexed, store, modified, writes, outdated,
                 crowded>>

\* _touch_raw_evidence_lru for one entry: what it replaces, and the order.
Replaces(x, y) ==
  \/ SameEvidence(x, y)
  \/ Overlap(x, y) /\ (NoSymbol \in {x.sym, y.sym} \/ x.sym = y.sym)

Touch(working, x) == Append(Only(working, {y \in ToSet(working) : ~Replaces(x, y)}), x)

TouchAllAnew(working, xs) == LastOf(xs, Limit)

TouchAll(working, xs) ==
  LET touched[n \in 0 .. Len(xs)] ==
        IF n = 0 THEN working ELSE Touch(touched[n - 1], xs[n])
  IN  LastOf(touched[Len(xs)], Limit)

IngestKeepingDates(x) ==
  LET old == {Id(y) : y \in {z \in Anchors : Overlap(x, z) /\ z.sym = x.sym}}
  IN  IF x.text = NoText
      THEN UNCHANGED <<code, created>>
      ELSE /\ code' = Append(Only(code, {y \in Anchors : Id(y) \notin old}), x)
           /\ created' = [i \in DOMAIN created \cup {Id(x)} |->
                            IF i = Id(x) THEN step ELSE created[i]]

\* _ingest_code_artifacts: only a symbol with its code is an anchor.
Ingest(x) ==
  LET old == {Id(y) : y \in {z \in Anchors : Overlap(x, z) /\ z.sym = x.sym}}
  IN  IF x.text = NoText
      THEN UNCHANGED <<code, created>>
      ELSE /\ code' = Append(Only(code, {y \in Anchors : Id(y) \notin old}), x)
           /\ created' = [i \in (DOMAIN created \ old) \cup {Id(x)} |->
                            IF i = Id(x) THEN step ELSE created[i]]

\* A view grounds target_implementation; a hit may ground other slots of its
\* file, which makes more files active and is left out.
Ground(x) ==
  grounded' = grounded \cup
    (IF x.text = NoText THEN {} ELSE {[file |-> x.file, id |-> Id(x)]})

StoreResult ==
  /\ results # <<>>
  /\ LET x        == Head(results).item
         repeated == IF Head(results).repeats # <<>> THEN Head(results).repeats
                     ELSE Repeated(x, code)
     IN  /\ IF repeated = <<>>
            THEN Ground(x) /\ Ingest(x) /\ raw' = TouchAll(raw, <<x>>)
            ELSE /\ raw' = TouchAll(raw, repeated)
                 /\ UNCHANGED <<code, created, grounded>>
         /\ crowded' = crowded
              \cup (IF x.text = NoText /\ repeated = <<>> THEN {x.file} ELSE {})
              \cup {y.file : y \in {z \in ToSet(raw) :
                                      Len(raw') = Limit /\ z \notin ToSet(raw')}}
  /\ results' = Tail(results)
  /\ UNCHANGED <<step, text, indexed, locators, modified, writes, outdated>>

-----------------------------------------------------------------------------
(* Writes.  An edit of the response drops everything held of the file its  *)
(* call names; the Edit model chose the file that is written, that of any  *)
(* window it was shown (EditTurn).  A step of the plan that is drained     *)
(* drops nothing, and nobody is told when the user saves.                  *)

Count == writes < MaxWrites /\ writes' = writes + 1

Write(s, t) == Count /\ text' = [text EXCEPT ![s] = t]

InvalidateAnchors(f) ==
  /\ code' = Only(code, {x \in Anchors : x.file # f})
  /\ created' = DatesWithout({i \in DOMAIN created : i[1] = f})
  /\ grounded' = {e \in grounded : e.id \notin {Id(x) : x \in {y \in Anchors : y.file = f}}}
  /\ UNCHANGED <<raw, locators>>

\* _invalidate_context_files and the event artifacts_invalidated.
Invalidate(f) ==
  /\ code' = Only(code, {x \in Anchors : x.file # f})
  /\ created' = DatesWithout({i \in DOMAIN created : i[1] = f})
  /\ raw' = Only(raw, {x \in ToSet(raw) : x.file # f})
  /\ grounded' = {e \in grounded : e.id \notin {Id(x) : x \in {y \in Anchors : y.file = f}}}
  /\ UNCHANGED locators

\* The call names f, and slice s of f or of another file is written.
EditLands(f, s, t) ==
  /\ step > 0
  /\ results = <<>>
  /\ Write(s, t)
  /\ Invalidate(f)
  /\ modified' = modified \cup {f}
  /\ outdated' = (outdated \cup {FileOf(s)}) \ {f}
  /\ UNCHANGED <<step, indexed, results, crowded>>

\* The validation fails: rolled back, and the event edit_applied stays.
EditRejected(f) ==
  /\ step > 0
  /\ results = <<>>
  /\ Count
  /\ modified' = modified \cup {f}
  /\ UNCHANGED <<step, text, indexed, store, results, outdated, crowded>>

DrainLands(f, s, t) ==
  /\ step > 0
  /\ results = <<>>
  /\ Write(s, t)
  /\ modified' = modified \cup {f}
  /\ outdated' = outdated \cup {FileOf(s)}
  /\ UNCHANGED <<step, indexed, store, results, crowded>>

UserSaves(s, t) ==
  /\ t # text[s]
  /\ Write(s, t)
  /\ outdated' = outdated \cup {FileOf(s)}
  /\ UNCHANGED <<step, indexed, store, modified, results, crowded>>

\* The repo map is indexed anew.
Reindex ==
  /\ indexed' = Places(text)
  /\ indexed' # indexed
  /\ UNCHANGED <<step, text, store, modified, results, writes, outdated,
                 crowded>>

-----------------------------------------------------------------------------
Init ==
  /\ step = 0
  /\ text = [s \in Slices |-> FirstText]
  /\ indexed = Places(text)
  /\ code = <<>>
  /\ created = << >>
  /\ locators = {}
  /\ raw = <<>>
  /\ grounded = {}
  /\ modified = {}
  /\ results = <<>>
  /\ writes = 0
  /\ outdated = {}
  /\ crowded = {}

Next ==
  \/ \E plan \in {{}} \cup {{f} : f \in Files} : BeginStep(plan)
  \/ Retrieve
  \/ StoreResult
  \/ \E s \in Slices, t \in Texts :
       \/ \E f \in Files : EditLands(f, s, t) \/ DrainLands(f, s, t)
       \/ UserSaves(s, t)
  \/ \E f \in Files : EditRejected(f)
  \/ Reindex

Spec == Init /\ [][Next]_vars

-----------------------------------------------------------------------------
(* Properties.                                                             *)

Ids == {Id(x) : x \in Anchors}
Bodies == Anchors \cup {x \in ToSet(raw) : x.text # NoText}

\* Types: every anchor has the step of its load and no step is left without an
\* anchor, and the working set stays within its limit.  The file of every anchor
\* is active, so neither age nor budget ever takes an anchor out of the prompt.
ContextTypeOK ==
  /\ step \in 0 .. MaxSteps
  /\ text \in [Slices -> Texts]
  /\ \A x \in Anchors : x.sym \in Slices /\ x.text \in Texts /\ Width(x) = LinesOf[x.text]
  /\ DOMAIN created = Ids
  /\ \A i \in Ids : created[i] \in 1 .. step
  /\ Len(raw) <= Limit
  /\ \A x \in Anchors : x.file \in ActiveFiles

\* Code in context is the code on disk, at its lines, unless its file was
\* written since by a drained step, by the user, or by an edit whose call named
\* another file.
BodiesCurrent ==
  \A x \in Bodies : x.file \notin outdated => x = Viewed(x.sym)

\* A view that is refused because its code is in context is refused because
\* the prompt shows it, unless its file was written unnoticed (as above) or
\* other evidence pushed it out.
LockedIsShown ==
  \A s \in Slices :
    /\ Locked(s)
    /\ FileOf(s) \notin outdated \cup crowded
    => s \in Shown
=============================================================================
