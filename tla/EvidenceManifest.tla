-------------------------- MODULE EvidenceManifest --------------------------
(***************************************************************************)
(* The Step Evidence Manifest of one edit request in detail: the observed  *)
(* items with their spans, how loads are reconciled into them, how edits   *)
(* make them STALE, how they are projected from the code in context at the *)
(* start of a step, and when they suffice for an edit                      *)
(* (src/src/agent/manifest.py, src/src/agent/wiring.py).                   *)
(*                                                                         *)
(* RunState and ToolGate know an item as a slice that keeps its identity.  *)
(* Here an item is a file, a symbol and the lines at which it was loaded;  *)
(* an edit moves lines, and one symbol may lie inside another.  The        *)
(* manifest of a running loop holds observed items only, each with its     *)
(* lines.  The text of the task is not passed to compute_sufficiency.      *)
(*                                                                         *)
(* The code in context is held as the anchors of one symbol each; the      *)
(* working set of the search cache adds nothing to them (ContextStore).    *)
(* The lines of the repo map are those of the disk.                        *)
(***************************************************************************)
EXTENDS Integers, FiniteSets, Sequences, SequencesExt, Selections

CONSTANTS
  Layouts,       \* [files -> what the file may define, at first the head]
  Layer,         \* [files -> integration_layer]
  SqlFiles,      \* files named *.sql
  Probes,        \* symbols that wiring_probe_symbols suggests
  MaxObserved,   \* MAX_OBSERVED_ITEMS, 32
  MaxCalls       \* bound: calls of the request

Files == DOMAIN Layouts
Layers == {"entry", "handler", "infrastructure", "other"}

\* schema: its code holds a CREATE TABLE, VIEW, ...; mount: it holds a line
\* that registers a part of the application.
IsDefinition(d) ==
  /\ DOMAIN d = {"sym", "first", "last", "schema", "mount"}
  /\ d.first \in Nat \ {0} /\ d.last \in Nat /\ d.first <= d.last
  /\ d.schema \in BOOLEAN /\ d.mount \in BOOLEAN

ASSUME ManifestAssumption ==
  /\ \A f \in Files : 1 \in DOMAIN Layouts[f]
  /\ \A f \in Files : \A i \in DOMAIN Layouts[f] :
       /\ IsFiniteSet(Layouts[f][i])
       /\ \A d, e \in Layouts[f][i] :
            IsDefinition(d) /\ (d # e => d.sym # e.sym)
  /\ Layer \in [Files -> Layers]
  /\ SqlFiles \subseteq Files
  /\ MaxObserved \in Nat \ {0}
  /\ MaxCalls \in Nat

MinLines == 3        \* lines of an item that counts
LargeLines == 50     \* lines of a symbol that suffices alone
HeaderLines == 12    \* _MIN_WIRING_HEADER_LINES

VARIABLES
  layout,      \* the files on disk: which of its layouts each has
  items,       \* required_items of the manifest
  held,        \* context_anchors.code
  edited,      \* changes.files
  projected,   \* no call since the manifest was projected
  calls,       \* calls so far
  hurried,     \* history: files edited with an item that was not projected yet
  strayed      \* history: files written by an edit that named another file

vars == <<layout, items, held, edited, projected, calls, hurried, strayed>>

-----------------------------------------------------------------------------
(* Spans, code and items.                                                  *)

Width(x) == x.last - x.first + 1
Covers(x, y) == x.first <= y.first /\ y.last <= x.last
Nested(x, y) == Covers(x, y) \/ Covers(y, x)

Defined(f) == Layouts[f][layout[f]]

Code(f, d) ==
  [file |-> f, sym |-> d.sym, first |-> d.first, last |-> d.last,
   schema |-> d.schema, mount |-> d.mount]

\* A new item; only a symbol is looked at for a mount.
Item(x) ==
  [file |-> x.file, sym |-> x.sym, first |-> x.first, last |-> x.last,
   schema |-> x.schema, mount |-> x.mount /\ ~x.schema, status |-> "missing"]

Same(x, y) == x.file = y.file /\ x.sym = y.sym

-----------------------------------------------------------------------------
(* Reconciliation of observations.                                         *)

\* supersede_stale_with_observations: the lines are renewed, by the last load of
\* the symbol, and whether it is a mount is not.
Superseded(is, xs) ==
  LET loads(i) == {k \in DOMAIN xs : is[i].status = "stale" /\ Same(is[i], xs[k])}
      last(i)  == CHOOSE k \in loads(i) : \A l \in loads(i) : l <= k
  IN  [i \in DOMAIN is |->
         IF loads(i) = {} THEN is[i]
         ELSE [is[i] EXCEPT !.status = "satisfied", !.first = xs[last(i)].first,
                            !.last = xs[last(i)].last]]

\* Mutation of Tracked: symbols are not compared.
TrackedByLines(is, x) == \E i \in DOMAIN is : is[i].file = x.file /\ Nested(is[i], x)

\* A load of lines that lie in an item of the file, or around it, is taken for
\* that item whatever its symbol.
Tracked(is, x) ==
  \E i \in DOMAIN is :
    /\ is[i].file = x.file
    /\ is[i].sym = x.sym \/ Nested(is[i], x)

Observed(is, x) ==
  IF Tracked(is, x) \/ Len(is) >= MaxObserved THEN is ELSE Append(is, Item(x))

\* Every STALE item first, then the additions.
Reconciled(is, xs) ==
  LET grown[n \in 0 .. Len(xs)] ==
        IF n = 0 THEN Superseded(is, xs) ELSE Observed(grown[n - 1], xs[n])
  IN  grown[Len(xs)]

\* Mutation of MarkedStale: an edit forgets what it made outdated.
MarkedMissing(is, f) ==
  [i \in DOMAIN is |->
     IF is[i].file = f THEN [is[i] EXCEPT !.status = "missing"] ELSE is[i]]

\* _mark_stale_for_files: an item that is still MISSING stays so.
MarkedStale(is, f) ==
  [i \in DOMAIN is |->
     IF is[i].file = f /\ is[i].status # "missing"
     THEN [is[i] EXCEPT !.status = "stale"] ELSE is[i]]

-----------------------------------------------------------------------------
(* Projection from the code in context.                                    *)

\* By lines, by name, and for a schema by any schema of any file.
Covered(item, hs) ==
  \/ \E x \in hs : x.file = item.file /\ (Covers(x, item) \/ x.sym = item.sym)
  \/ item.schema /\ \E x \in hs : x.schema

\* Mutation of Projected: code that covers a STALE item refreshes it.
ProjectedAnew(is, hs) ==
  [i \in DOMAIN is |->
     [is[i] EXCEPT !.status =
        IF Covered(is[i], hs) THEN "satisfied"
        ELSE IF @ = "stale" THEN "stale" ELSE "missing"]]

Projected(is, hs) ==
  [i \in DOMAIN is |->
     [is[i] EXCEPT !.status =
        IF @ = "stale" THEN "stale"
        ELSE IF Covered(is[i], hs) THEN "satisfied" ELSE "missing"]]

-----------------------------------------------------------------------------
(* Sufficiency for an edit.  STALE items count as grounded.                *)

Grounded(is) == Only(is, {x \in ToSet(is) : x.status \in {"satisfied", "stale"}})
Symbols(is) == Only(Grounded(is), {x \in ToSet(is) : ~x.schema})
SymbolFiles(is) == {x.file : x \in ToSet(Symbols(is))}

\* _likely_edit_target_file: the file of the largest symbol, the first of them.
EditTarget(is) ==
  LET symbols == Symbols(is)
      largest == {i \in DOMAIN symbols :
                    \A k \in DOMAIN symbols :
                      Width(symbols[k]) < Width(symbols[i])
                        \/ (Width(symbols[k]) = Width(symbols[i]) /\ i <= k)}
  IN  symbols[CHOOSE i \in largest : TRUE].file

\* caller_has_setup_evidence: a mount, or in an entry file a header, where the
\* first long item decides and a probe is no header.
HasSetup(is, f) ==
  LET own    == Only(Symbols(is), {x \in ToSet(is) : x.file = f})
      header == Only(own, {x \in ToSet(own) : Width(x) >= HeaderLines})
  IN  \/ \E x \in ToSet(own) : x.mount
      \/ Layer[f] = "entry" /\ header # <<>> /\ Head(header).sym \notin Probes

SkipsWiring(f) == Layer[f] \in {"infrastructure", "other"}

\* wiring_gap_lines: files beside the edit target whose setup is not loaded.
Gaps(is) ==
  IF Cardinality(SymbolFiles(is)) < 2 THEN {}
  ELSE {f \in SymbolFiles(is) \ {EditTarget(is)} :
          /\ ~(SkipsWiring(f) /\ SkipsWiring(EditTarget(is)))
          /\ ~HasSetup(is, f)}

\* _observed_ready_for_task: a schema and a symbol, a large symbol, or symbols
\* of two files without a gap.
Ready(is) ==
  LET grounded == ToSet(Grounded(is))
      symbols  == ToSet(Symbols(is))
  IN  \/ symbols # {} /\ \E x \in grounded : x.schema /\ Width(x) >= MinLines
      \/ \E x \in symbols : Width(x) >= LargeLines
      \/ /\ Cardinality({x.file : x \in {y \in symbols : Width(y) >= MinLines}}) >= 2
         /\ Gaps(is) = {}

-----------------------------------------------------------------------------
(* What the loop does.                                                     *)

\* _ingest_code_artifacts: code of the symbol of which nine tenths lie in the
\* new code, or the reverse, is replaced.
Overlap(x, y) ==
  LET first   == IF x.first > y.first THEN x.first ELSE y.first
      last    == IF x.last < y.last THEN x.last ELSE y.last
      shorter == IF Width(x) < Width(y) THEN Width(x) ELSE Width(y)
  IN  Same(x, y) /\ 10 * (last - first + 1) > 9 * shorter

Ingested(hs, x) == {y \in hs : ~Overlap(x, y)} \cup {x}

IngestedAll(hs, xs) ==
  LET taken[n \in 0 .. Len(xs)] ==
        IF n = 0 THEN hs ELSE Ingested(taken[n - 1], xs[n])
  IN  taken[Len(xs)]

\* Mutation of Locked: changed files are locked too.
LockedForEver(x) ==
  \E y \in held : y.file = x.file /\ (y.sym = x.sym \/ Covers(y, x))

\* Fact locking refuses a view of code that is held of an unchanged file.
Locked(x) ==
  /\ x.file \notin edited
  /\ \E y \in held : y.file = x.file /\ (y.sym = x.sym \/ Covers(y, x))

\* The result of a view repeats code that is held: the old code is replayed and
\* nothing is observed.
Repeated(x) ==
  \E y \in held : Same(x, y) /\ (Width(x) = Width(y) \/ Covers(y, x))

Call == calls < MaxCalls /\ calls' = calls + 1 /\ projected' = FALSE

View(f, d) ==
  LET x == Code(f, d)
  IN  /\ ~Locked(x) /\ ~Repeated(x)
      /\ Call
      /\ held' = Ingested(held, x)
      /\ items' = Reconciled(items, <<x>>)
      /\ UNCHANGED <<layout, edited, hurried, strayed>>

\* observations_from_edited_file: every schema of an edited *.sql file, from the
\* first line to the last.
PostEdit(f, n) ==
  LET tables == IF f \in SqlFiles THEN {d \in Layouts[f][n] : d.schema} ELSE {}
      N      == Cardinality(tables)
      inOrder == {ds \in [1 .. N -> tables] :
                    \A i, k \in 1 .. N : i < k => ds[i] # ds[k] /\ ds[i].first <= ds[k].first}
  IN  {[i \in 1 .. N |-> Code(f, ds[i])] : ds \in inOrder}

Hurried(f) == \E i \in DOMAIN items : items[i].file = f /\ items[i].status = "missing"

\* An edit lands: its call names f, and the file that the Edit model chose among
\* those it was shown is written, g.  kept is the code of the context that it
\* leaves there.
Lands(f, g, n, kept) ==
  /\ n # layout[g]
  /\ Call
  /\ layout' = [layout EXCEPT ![g] = n]
  /\ edited' = edited \cup {f}
  /\ \E xs \in PostEdit(f, layout'[f]) :
       /\ held' = IngestedAll(kept, xs)
       /\ items' = Reconciled(MarkedStale(items, f), xs)
  /\ hurried' = IF Hurried(f) THEN hurried \cup {f} ELSE hurried
  /\ strayed' = (strayed \cup {g}) \ {f}

\* An edit of the response drops the code of the file it names, a step of the
\* plan that is drained keeps it.
EditLands(f, g, n) == Lands(f, g, n, {x \in held : x.file # f})
DrainLands(f, g, n) == Lands(f, g, n, held)

\* The validation fails: what was written is rolled back after edit_applied.
EditRejected(f) ==
  /\ Call
  /\ edited' = edited \cup {f}
  /\ items' = MarkedStale(items, f)
  /\ hurried' = IF Hurried(f) THEN hurried \cup {f} ELSE hurried
  /\ UNCHANGED <<layout, held, strayed>>

\* The start of a step.
Project ==
  /\ ~projected
  /\ items' = Projected(items, held)
  /\ projected' = TRUE
  /\ UNCHANGED <<layout, held, edited, calls, hurried, strayed>>

Init ==
  /\ layout = [f \in Files |-> 1]
  /\ items = <<>>
  /\ held = {}
  /\ edited = {}
  /\ projected = TRUE
  /\ calls = 0
  /\ hurried = {}
  /\ strayed = {}

Next ==
  \/ \E f \in Files :
       \/ \E d \in Defined(f) : View(f, d)
       \/ \E g \in Files : \E n \in DOMAIN Layouts[g] :
            EditLands(f, g, n) \/ DrainLands(f, g, n)
       \/ EditRejected(f)
  \/ Project

Spec == Init /\ [][Next]_vars

-----------------------------------------------------------------------------
(* Properties.                                                             *)

\* Types: the manifest stays within its limit and knows no symbol of a file
\* twice.
ManifestTypeOK ==
  /\ Len(items) <= MaxObserved
  /\ \A i, k \in DOMAIN items : i # k => ~Same(items[i], items[k])
  /\ \A i \in DOMAIN items :
       items[i].file \in Files /\ items[i].status \in {"missing", "satisfied", "stale"}
  /\ edited \subseteq Files

\* What the manifest calls SATISFIED has its code in context, and lies where the
\* item says, whatever edits have moved, unless an item of the file was edited in
\* the response that loaded it; its place is unknown when the file was written by
\* an edit whose call named another file.
SatisfiedIsCurrent ==
  \A i \in DOMAIN items :
    LET x == items[i] IN
    x.status = "satisfied" /\ x.file \notin hurried =>
      /\ x.file \notin strayed =>
           \E d \in Defined(x.file) :
             d.sym = x.sym /\ d.first = x.first /\ d.last = x.last
      /\ \E y \in held : y.file = x.file /\ (y.sym = x.sym \/ Covers(y, x))

\* Readiness for an edit is lost only by a load that opens a gap or finds a
\* symbol smaller: no edit, roll back or start of a step takes it away, but from
\* an item that counted by the code of another symbol around its old lines, or
\* of any schema.
Shrunk == \E i \in DOMAIN items : Width(items'[i]) < Width(items[i])
Forgotten ==
  \E i \in DOMAIN items :
    items[i].file \in hurried /\ items[i].status = "satisfied" /\ items'[i].status = "missing"
ReadyUntilGap ==
  [][Ready(items) /\ ~Ready(items') =>
       Shrunk \/ Forgotten \/ ~(Gaps(items') \subseteq Gaps(items))]_vars

\* At the start of a step, code that may not be viewed again because it is held
\* is counted by the manifest, but for code nested in other code, for what the
\* limit leaves out and for the files excepted above.
LockedIsCounted ==
  projected =>
    \A f \in Files \ (hurried \cup strayed) : \A d \in Defined(f) :
      LET x == Code(f, d) IN
      /\ Locked(x)
      /\ Len(items) < MaxObserved
      /\ \A e \in Defined(f) \ {d} : ~Nested(d, e)
      => \E y \in ToSet(Grounded(items)) : Same(x, y) /\ Width(x) = Width(y)
=============================================================================
