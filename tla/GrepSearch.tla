------------------------------ MODULE GrepSearch ------------------------------
(***************************************************************************)
(* grep_search (src/src/tools/assembled/grep_search.py): ripgrep searches    *)
(* the patterns of a call, all at once; the lines it prints are merged, cut, *)
(* ranked and made into the symbols to view next                            *)
(* (src/src/tools/grep_match_symbols.py).                                   *)
(*                                                                          *)
(* Before a call the fact lock refuses what repeats an earlier search of    *)
(* the request (src/src/hooks/preflight/fact_locking.py); after it the loop *)
(* remembers it and shortens what brings nothing new.                       *)
(*                                                                          *)
(* Files change while ripgrep runs, and again before the lines it found are *)
(* looked up in the files.  A line is known by the symbol it declares, the  *)
(* words it holds and the form that decides how it is ranked; every line of *)
(* a file is modelled.  How new the words of a search are is left open, and *)
(* so is the order of the views.                                            *)
(***************************************************************************)
EXTENDS Project, SequencesExt, Selections

CONSTANTS
  Rest,        \* lines that declare nothing: [1 .. n -> [file, form, words, calls, name]]
  RestLine,    \* [line of Rest, version -> where it is, 0 when it is not there]
  Folded,      \* [words -> the word in lower case]
  Dirs,        \* [directories -> the files below]
  Requests,    \* calls of the tool
  Factories,   \* names of functions that make an application
  ShownLimit,  \* matches shown when a search brings nothing new
  SeedLimit,   \* files looked at in structure mode
  ViewLimit,   \* suggested views
  RefLimit,    \* views found by references
  Nothing      \* no symbol

\* The kind of each form of line; that of text depends on the pattern, too.  A
\* handler is a decorator that is looked up in the file.
KindOfForm ==
  [def |-> "definition", ddl |-> "schema", route |-> "decorator", handler |-> "decorator",
   mount |-> "mount", app |-> "mount", import |-> "import", text |-> "usage"]

Priority ==
  [definition |-> 0, schema |-> 1, decorator |-> 2, mount |-> 3, import |-> 4,
   usage |-> 5, call_site |-> 6]

\* A pattern is a word, any or all of some words, or a regular expression for
\* words in the lines of routes and mounts.
ASSUME GrepAssumption ==
  /\ IsFiniteSet(DOMAIN Rest)
  /\ \A n \in DOMAIN Rest :
       /\ Rest[n].file \in Files /\ Rest[n].form \in DOMAIN KindOfForm \ {"def", "ddl"}
       /\ \A v \in Versions : RestLine[<<n, v>>] \in Nat
  /\ Dirs \in [DOMAIN Dirs -> SUBSET Files] /\ DOMAIN Dirs \cap Files = {}
  /\ Requests # {}
  /\ \A r \in Requests :
       /\ Len(r.patterns) \in Nat \ {0} /\ DOMAIN r.patterns = 1 .. Len(r.patterns)
       /\ \A i \in DOMAIN r.patterns :
            /\ r.patterns[i].kind \in {"word", "any", "all", "wiring"}
            /\ r.patterns[i].kind = "word" => Cardinality(r.patterns[i].words) = 1
       /\ r.path \in Files \cup DOMAIN Dirs
       /\ r.mode \in {"default", "symbol", "import", "structure"}
       /\ r.mode = "structure" => Len(r.patterns) = 1
       /\ r.caseless \in BOOLEAN /\ r.max \in Nat \ {0}
  /\ {ShownLimit, SeedLimit, ViewLimit, RefLimit} \subseteq Nat \ {0}

VARIABLES
  gpc,       \* the step the call is at
  request,   \* its arguments
  given,     \* the map the loop gave it
  runs,      \* what ripgrep printed: [pattern -> its runs, as [ok, lines]]
  past,      \* _grep_search_history
  found,     \* what is returned: [matches, views, total, truncated]
  refusal,   \* history: why it was refused
  began      \* history: the files when it began

grep == <<gpc, request, given, runs, past, found, refusal, began>>

-----------------------------------------------------------------------------
(* Lines.                                                                  *)

FormOf(s) == CASE Decl[s].sql = "none" -> "def" [] Decl[s].sql = "dml" -> "text" [] OTHER -> "ddl"

LineOf(s, v) ==
  [file |-> Decl[s].file, at |-> At(s, v), form |-> FormOf(s), calls |-> {},
   words |-> {Decl[s].name} \cup Decl[s].words, name |-> Decl[s].name]

OtherLine(n, v) ==
  [file |-> Rest[n].file, at |-> RestLine[<<n, v>>], form |-> Rest[n].form, calls |-> Rest[n].calls,
   words |-> Rest[n].words \cup Rest[n].calls, name |-> Rest[n].name]

\* The lines of each file in each version, as <<file, version>>.
Contents ==
  [p \in Files \X (Versions \cup {Gone}) |->
     {LineOf(s, p[2]) : s \in {t \in Symbols : Decl[t].file = p[1] /\ At(t, p[2]) # 0}}
     \cup {OtherLine(n, p[2]) :
             n \in {k \in DOMAIN Rest : Rest[k].file = p[1] /\ p[2] # Gone /\ RestLine[<<k, p[2]>>] # 0}}]
LinesOf(f, v) == Contents[<<f, v>>]

\* Each line of a file is modelled once.
ASSUME LinesApart ==
  \A f \in Files, v \in Versions : \A k, l \in LinesOf(f, v) : k.at = l.at => k = l

\* extract_symbol_from_match_line: only a declaration names a symbol.
SymbolIn(line) == IF line.form \in {"def", "ddl"} THEN line.name ELSE Nothing

\* The first declaration among some lines.
FirstDeclared(lines) ==
  LET declared == {l \in lines : SymbolIn(l) # Nothing}
  IN  {l \in declared : \A k \in declared : l.at <= k.at}

-----------------------------------------------------------------------------
(* ripgrep.                                                                *)

Scope(path) == IF path \in Files THEN {path} ELSE Dirs[path]

Says(words, w, caseless) == w \in words \/ (caseless /\ \E x \in words : Folded[x] = Folded[w])

\* What is searched for in each mode; the words of "all" are searched one after
\* another in the lines of the first.
Hits(line, p, mode, caseless) ==
  IF mode = "symbol" THEN line.form = "def" /\ \E w \in p.words : Says({line.name}, w, caseless)
  ELSE IF mode = "import" THEN line.form = "import" /\ \E w \in p.words : Says(line.words, w, caseless)
  ELSE IF p.kind = "all" THEN \A w \in p.words : Says(line.words, w, caseless)
  ELSE \E w \in p.words : Says(line.words, w, caseless)

\* What a run prints of a file: hits, and for wiring the two lines after each.
Printed(f, v, p, mode) ==
  LET lines == LinesOf(f, v)
      hits == {l \in lines : Hits(l, p, mode, request.caseless)}
      after == {l \in lines \ hits : \E h \in hits : l.at - h.at \in 1 .. 2}
      wiring == p.kind = "wiring" /\ mode \in {"default", "structure"}
      printed == hits \cup (IF wiring THEN after ELSE {})
      Nth(n) == CHOOSE l \in printed : Cardinality({k \in printed : k.at < l.at}) = n - 1
  IN  [n \in 1 .. Cardinality(printed) |-> [line |-> Nth(n), hit |-> Nth(n) \in hits]]

\* What a run may print: the files in any order, as ripgrep reads them in parallel.
Outputs(p, mode) ==
  {FlattenSeq([i \in DOMAIN order |-> Printed(order[i], disk[order[i]], p, mode)]) :
     order \in SetToSeqs(Scope(request.path))}

\* Mutation of Modes: declarations are searched after the rest.
ModesLate(p) ==
  IF request.mode = "default" /\ p.kind = "word" THEN <<"default", "symbol">> ELSE <<request.mode>>

\* A word is searched in its declarations first.
Modes(p) ==
  IF request.mode = "default" /\ p.kind = "word" THEN <<"symbol", "default">> ELSE <<request.mode>>

Running(i) == Len(runs[i]) < Len(Modes(request.patterns[i]))
AllRun == \A i \in DOMAIN runs : ~Running(i)

\* What a pattern brought, with the pattern.
Lines(i) ==
  LET printed == FlattenSeq([k \in DOMAIN runs[i] |-> runs[i][k].lines])
  IN  [j \in DOMAIN printed |-> [raw |-> printed[j], pattern |-> request.patterns[i]]]

\* Each printed line once, with the first pattern that found it.
Raw ==
  LET all == FlattenSeq([i \in DOMAIN runs |-> Lines(i)])
  IN  OnlyAt(all, {n \in DOMAIN all : \A k \in 1 .. n - 1 : all[k].raw # all[n].raw})

\* A failure counts when it is that of the last run and nothing was found.
Failed(i) == ~Last(runs[i]).ok /\ Lines(i) = <<>>

-----------------------------------------------------------------------------
(* Matches.                                                                *)

Kind(line, p) ==
  IF KindOfForm[line.form] = "usage" /\ p.kind = "word" /\ p.words \subseteq line.calls
  THEN "call_site" ELSE KindOfForm[line.form]

\* A call of what is searched for is taken for a match of it.
Match(line, p) ==
  LET kind == Kind(line, p)
  IN  [file |-> line.file, line |-> line, kind |-> kind, from |-> "match",
       symbol |-> IF kind = "call_site" THEN CHOOSE w \in p.words : TRUE ELSE SymbolIn(line)]

\* parse_rg_hit_line: context has no line number between colons, and no line has
\* the name of its file when only that file is searched.
Parsed(raw) ==
  LET hits == Only(raw, {r \in Range(raw) : r.raw.hit /\ request.path \notin Files})
  IN  [i \in DOMAIN hits |-> Match(hits[i].raw.line, hits[i].pattern)]

\* Calls, in files that declare nothing that was found, of what was found declared.
Needless(matches, m) ==
  LET definitions == {d \in Range(matches) : d.kind = "definition"}
  IN  /\ m.kind = "call_site"
      /\ m.symbol \in {d.symbol : d \in definitions}
      /\ m.file \notin {d.file : d \in definitions}

FileOrder == SetToSeq(Files)
Place(f) == CHOOSE i \in DOMAIN FileOrder : FileOrder[i] = f

\* Mutation of Before: by file alone.
BeforeByFile(a, b) == Place(a.file) < Place(b.file)

Before(a, b) ==
  \/ Priority[a.kind] < Priority[b.kind]
  \/ Priority[a.kind] = Priority[b.kind] /\ Place(a.file) < Place(b.file)

\* rank_matches: a stable sort.
Ranked(matches) ==
  LET kept == Only(matches, {m \in Range(matches) : ~Needless(matches, m)})
      Ahead(i) == {j \in DOMAIN kept : Before(kept[j], kept[i]) \/ (~Before(kept[i], kept[j]) /\ j < i)}
  IN  [n \in DOMAIN kept |-> kept[CHOOSE i \in DOMAIN kept : Cardinality(Ahead(i)) = n - 1]]

\* Mutation of Neighbours: the matches of all files are gone through in one list.
NeighboursAnywhere(matches, m) ==
  {d.line : d \in {x \in Range(matches) : x.line.at - m.line.at \in 1 .. 3}}

\* The matches in the three lines below.
Neighbours(matches, m) ==
  {d.line : d \in {x \in Range(matches) : x.file = m.file /\ x.line.at - m.line.at \in 1 .. 3}}

\* A decorator is taken for what it decorates: the next match that declares ...
Filled(matches, m) ==
  IF m.symbol = Nothing /\ m.kind = "decorator" /\ FirstDeclared(Neighbours(matches, m)) # {}
  THEN [m EXCEPT !.symbol = SymbolIn(CHOOSE l \in FirstDeclared(Neighbours(matches, m)) : TRUE)]
  ELSE m

\* ... and that of a handler is looked up in the next four lines of the file.
Decorated(m) ==
  LET below == {l \in LinesOf(m.file, disk[m.file]) : l.at - m.line.at \in 1 .. 4}
  IN  IF m.symbol = Nothing /\ m.line.form = "handler" /\ FirstDeclared(below) # {}
      THEN [m EXCEPT !.symbol = SymbolIn(CHOOSE l \in FirstDeclared(below) : TRUE), !.from = "decorator"]
      ELSE m

\* infer_caller_setup_symbol: the first factory above, else the application,
\* else the name that most applications use.
Setup(above) ==
  LET factories == {l \in above : l.form = "def" /\ l.name \in Factories}
      apps == {l \in above : l.form = "app"}
      Topmost(S) == CHOOSE l \in S : \A k \in S : l.at <= k.at
  IN  IF factories # {} THEN Topmost(factories).name
      ELSE IF apps # {} THEN Topmost(apps).name ELSE "create_app"

\* A mount is taken for the nearest function above, save one in the first line.
Mounted(m) ==
  LET above == {l \in LinesOf(m.file, disk[m.file]) : l.at <= m.line.at}
      defs == {l \in above : l.form = "def" /\ l.at > 1 /\ m.line.at - l.at < 24}
  IN  IF m.symbol # Nothing \/ m.line.form # "mount" \/ disk[m.file] = Gone THEN m
      ELSE [m EXCEPT !.from = "mount",
                     !.symbol = IF defs = {} THEN Setup(above)
                                ELSE (CHOOSE l \in defs : \A k \in defs : k.at <= l.at).name]

Enriched(matches) ==
  LET ranked == Ranked(matches)
  IN  [i \in DOMAIN ranked |-> Mounted(Decorated(Filled(ranked, ranked[i])))]

-----------------------------------------------------------------------------
(* Views: what is declared, or set up, or called in the matches, and what     *)
(* refers to it from other files or is referred to there.                  *)

View(file, symbol, from) == [file |-> file, symbol |-> symbol, from |-> from]

BestOf(n, S) == IF Cardinality(S) <= n THEN {S} ELSE kSubset(n, S)

\* Of the matches with one symbol in one file the first counts.
Suggested(matches) ==
  {View(matches[i].file, matches[i].symbol, matches[i].from) :
     i \in {j \in DOMAIN matches :
              /\ matches[j].symbol # Nothing
              /\ \A k \in 1 .. j - 1 : <<matches[k].file, matches[k].symbol>> # <<matches[j].file, matches[j].symbol>>}}

Referring(matches) ==
  IF given = NoMap THEN {} ELSE
  LET own == {e \in Entries(given) :
                \E i \in DOMAIN matches : /\ matches[i].kind \in {"definition", "schema"}
                                          /\ matches[i].file = FileOf(e) /\ matches[i].symbol = NameOf(e)}
      pairs == {r \in References(given) : FileOf(r[1]) # FileOf(r[2])}
  IN  {View(FileOf(e), NameOf(e), "reference") :
         e \in {r[1] : r \in {q \in pairs : q[2] \in own}} \cup {r[2] : r \in {q \in pairs : q[1] \in own}}}

\* The views, cut, and those by reference, and all of them cut again.
Views(matches) ==
  LET New(own, refs) == {v \in refs : \A w \in own : <<w.file, w.symbol>> # <<v.file, v.symbol>>}
  IN  UNION {UNION {BestOf(ViewLimit, own \cup New(own, refs)) : refs \in BestOf(RefLimit, Referring(matches))} :
               own \in BestOf(ViewLimit, Suggested(matches))}

-----------------------------------------------------------------------------
(* A call: the fact lock, the runs of ripgrep, the answer.                 *)

NotFound == [matches |-> <<>>, views |-> {}, total |-> 0, truncated |-> FALSE]

AskGrep ==
  /\ gpc \in {"idle", "answered", "refused", "failed"}
  /\ request' \in Requests
  /\ runs' = [i \in DOMAIN request'.patterns |-> <<>>]
  /\ given' = map
  /\ found' = NotFound
  /\ refusal' = "none"
  /\ began' = disk
  /\ gpc' = "gate"
  /\ UNCHANGED past

\* Mutation of Repeated: a search of another place counts, too.
RepeatedAnywhere(r) == \E h \in past : h.empty /\ h.patterns = Range(r.patterns)

\* grep_search_fingerprint: the same patterns, place and mode found nothing.
Repeated(r) ==
  \E h \in past : h.empty /\ h.patterns = Range(r.patterns) /\ h.path = r.path /\ h.mode = r.mode

\* The alternatives of a pattern, and how similar the pattern of a call is to
\* earlier ones; a batch of patterns resembles none.
Tokens(p) ==
  IF p.kind = "any" THEN {<<"word", {Folded[w]}>> : w \in p.words} ELSE {<<p.kind, {Folded[w] : w \in p.words}>>}

Resembles(r, percent) ==
  /\ Len(r.patterns) = 1
  /\ \E h \in past : \E p \in h.patterns :
       LET t == Tokens(p)
           u == Tokens(r.patterns[1])
       IN  100 * Cardinality(t \cap u) > percent * Cardinality(t \cup u)

Linked(f, g) == \E e \in References(given) : f # g /\ {FileOf(e[1]), FileOf(e[2])} = {f, g}

\* get_structural_connection: within two references of a place that was searched.
Near(path) ==
  /\ given # NoMap
  /\ \E h \in past :
       \/ h.path = path
       \/ {path, h.path} \subseteq Files
          /\ \/ Linked(path, h.path)
             \/ \E g \in Files : Linked(path, g) /\ Linked(g, h.path)

Redundant(r) == Resembles(r, 85) \/ (Resembles(r, 80) /\ Near(r.path))

\* After a failed build, a blocked edit or one that has just landed a search may
\* resemble earlier ones.  Embeddings, when there are some, refuse more, and so
\* does code in context that the word names.
Gate ==
  /\ gpc = "gate"
  /\ \E recovering \in BOOLEAN :
       refusal' \in IF Repeated(request) THEN {"repeated"}
                    ELSE IF ~recovering /\ Redundant(request) THEN {"redundant"}
                    ELSE IF ~recovering /\ past # {} THEN {"none", "similar"}
                    ELSE {"none"}
  /\ gpc' = IF refusal' = "none" THEN "search" ELSE "refused"
  /\ UNCHANGED <<request, given, runs, past, found, began>>

\* A run of ripgrep sees the files of one moment, or fails; the runs of one
\* pattern follow each other.
RunRg ==
  /\ gpc = "search"
  /\ \E i \in DOMAIN runs :
       /\ Running(i)
       /\ LET p == request.patterns[i]
              lines == Outputs(p, Modes(p)[Len(runs[i]) + 1])
          IN  \E r \in {[ok |-> TRUE, lines |-> x] : x \in lines} \cup {[ok |-> FALSE, lines |-> <<>>]} :
                runs' = [runs EXCEPT ![i] = Append(@, r)]
  /\ UNCHANGED <<gpc, request, given, past, found, refusal, began>>

\* A run that takes 30 seconds fails the call, and so does one of ripgrep's
\* errors when nothing was found.
Fail ==
  /\ gpc = "search"
  /\ AllRun => Raw = <<>> /\ \E i \in DOMAIN runs : Failed(i)
  /\ gpc' = "failed"
  /\ UNCHANGED <<request, given, runs, past, found, refusal, began>>

Cut(n, s) == SubSeq(s, 1, Min({n, Len(s)}))

\* The first line of each file; a line of context has none of the file's name.
Seeds(raw) ==
  Cut(SeedLimit,
      OnlyAt(raw, {n \in DOMAIN raw :
                     raw[n].raw.hit => \A k \in 1 .. n - 1 :
                       raw[k].raw.hit => raw[k].raw.line.file # raw[n].raw.line.file}))

Remembered(empty) ==
  past' = past \cup {[patterns |-> Range(request.patterns), path |-> request.path,
                      mode |-> request.mode, empty |-> empty]}

\* Mutation of FindNothing: the errors of ripgrep are ignored.
FindNothingRegardless ==
  /\ Raw = <<>>
  /\ Remembered(TRUE)
  /\ UNCHANGED found

FindNothing ==
  /\ Raw = <<>>
  /\ \A i \in DOMAIN runs : ~Failed(i)
  /\ Remembered(TRUE)
  /\ UNCHANGED found

\* What brings nothing new is shown in part.
FindSome ==
  LET raw == Raw
      structure == request.mode = "structure"
      matches == Enriched(Parsed(IF structure THEN Seeds(raw) ELSE Cut(request.max, raw)))
  IN  /\ raw # <<>>
      /\ \E short \in {FALSE, Len(matches) > ShownLimit}, views \in Views(matches) :
           found' = [matches |-> IF short THEN Cut(ShownLimit, matches) ELSE matches,
                     views |-> views,
                     total |-> Len(raw),
                     truncated |-> short \/ (~structure /\ Len(raw) > request.max)]
      /\ Remembered(FALSE)

Find ==
  /\ gpc = "search" /\ AllRun
  /\ FindNothing \/ FindSome
  /\ gpc' = "answered"
  /\ UNCHANGED <<request, given, runs, refusal, began>>

\* run: a new request of the user forgets the searches of the last one.
NewRequest ==
  /\ gpc \in {"answered", "refused", "failed"} /\ past # {}
  /\ past' = {}
  /\ UNCHANGED <<gpc, request, given, runs, found, refusal, began>>

-----------------------------------------------------------------------------
GrepInit ==
  /\ gpc = "idle"
  /\ request \in {CHOOSE r \in Requests : TRUE}
  /\ given = NoMap
  /\ runs = <<>> /\ past = {} /\ found = NotFound
  /\ refusal = "none"
  /\ began = disk

GrepStep == Gate \/ RunRg \/ Fail \/ Find \/ NewRequest

-----------------------------------------------------------------------------
(* Properties.                                                             *)

\* Types: a call runs no more than its patterns need, and the lists keep their
\* limits.
GrepTypeOK ==
  /\ gpc \in {"idle", "gate", "search", "answered", "refused", "failed"}
  /\ request \in Requests /\ given \in Indexes \cup {NoMap}
  /\ \A i \in DOMAIN runs : Len(runs[i]) <= 2
  /\ Len(found.matches) <= found.total /\ Cardinality(found.views) <= ViewLimit
  /\ refusal \in {"none", "repeated", "redundant", "similar"}

\* The files as a search of this request may have seen them.
SeenVersions(f) == (IF gpc = "refused" THEN 1 ELSE began[f]) .. disk[f]

\* When the tool says that nothing is there - with an empty answer, or by calling
\* a search the repetition of an empty one - then each pattern was absent from
\* each file in scope at some time: no failed run of ripgrep, no other place or
\* mode and no other pattern passes for it.  A search that minds the case stands for
\* its repetition only if that minds it, too.
NothingToFind ==
  ~request.caseless /\ ((gpc = "answered" /\ found.total = 0) \/ refusal = "repeated") =>
    \A i \in DOMAIN request.patterns, f \in Scope(request.path) :
      \E v \in SeenVersions(f) :
        \A l \in LinesOf(f, v) : ~Hits(l, request.patterns[i], request.mode, FALSE)

\* The definition of a word that is searched for first is shown, however many
\* other lines were found and however much was cut; only other definitions may
\* fill what is shown before it.
DefinitionShown ==
  LET p == request.patterns[1]
  IN  /\ gpc = "answered" /\ request.path \notin Files
      /\ p.kind = "word" /\ request.mode = "default"
      /\ runs[1][1].lines # <<>>
      => \/ \E i \in DOMAIN found.matches : Hits(found.matches[i].line, p, "symbol", request.caseless)
         \/ /\ Len(found.matches) = ShownLimit
            /\ \A i \in DOMAIN found.matches : found.matches[i].kind = "definition"

\* A view leads to a symbol that is declared in its file, or was while the call
\* ran or when the map was built; only a mount may name one that is not, and a
\* call of the word that is searched for.
ViewsLead ==
  \A v \in found.views :
    \/ v.from = "mount"
    \/ \E i \in DOMAIN request.patterns :
         request.patterns[i].kind = "word" /\ v.symbol \in request.patterns[i].words
    \/ \E n \in 1 .. disk[v.file], s \in Symbols :
         At(s, n) # 0 /\ Decl[s].file = v.file /\ Decl[s].name = v.symbol

\* An answer leads on: it shows the definition of its word, and its views lead
\* to symbols.
AnswerLeads == DefinitionShown /\ ViewsLead
=============================================================================
