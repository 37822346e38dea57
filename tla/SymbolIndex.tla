----------------------------- MODULE SymbolIndex -----------------------------
(***************************************************************************)
(* The symbols of a project and the graph that connects them: the index of  *)
(* src/src/indexer/ (parser.py, ctags.py, graph.py, repo_map.py) and the    *)
(* graph of src/src/tools/assembled/graph_bridge.py.                        *)
(*                                                                          *)
(* An index is made in two scans.  The first finds code symbols, imports    *)
(* and calls; the second reads the files again for SQL: views and tables of *)
(* .sql files, statements in the strings of functions.  A file may have     *)
(* changed in between.  An entry of the index is a symbol at the line it    *)
(* was found at, which is how the code identifies it.                       *)
(***************************************************************************)
EXTENDS Naturals, FiniteSets, Sequences, FiniteSetsExt

CONSTANTS
  Decl,         \* [1 .. n -> what is declared], in the order of the index
  Files,
  MaxVersion,   \* bound on the versions of a file
  Changing,     \* bound on the files that change: one of these
  Line,         \* [symbol, version -> its line, 0 when it is not there]
  Imports,      \* [Files -> the files its imports resolve to]
  HasCtags,     \* universal-ctags is installed and makes the first scan
  Domain,       \* [Files -> "ui", "db" or "backend"], _assign_domain
  PerFile,      \* cooccurrence_per_file
  Branch,       \* neighbours followed from a symbol
  Depth,        \* cursor_graph_bridge_depth
  StackLimit    \* frames Python leaves for strongconnect

Symbols == DOMAIN Decl
Versions == 1 .. MaxVersion
Gone == MaxVersion + 1    \* the version of a file that was deleted

\* A declaration: sql says what the second scan finds it as, code whether the
\* first scan finds it, parent the function whose string a statement is in.
ASSUME SymbolIndexAssumption ==
  /\ Len(Decl) \in Nat /\ Symbols = 1 .. Len(Decl)
  /\ IsFiniteSet(Files)
  /\ \A s \in Symbols :
       /\ Decl[s].file \in Files
       /\ Decl[s].sql \in {"none", "dml", "view", "table"}
       /\ Decl[s].code \in BOOLEAN
       /\ Decl[s].parent \in Symbols \cup {0}
       /\ \A v \in Versions : Line[<<s, v>>] \in Nat
  /\ Imports \in [Files -> SUBSET Files]
  /\ Domain \in [Files -> {"ui", "db", "backend"}]
  /\ Changing \subseteq Files
  /\ HasCtags \in BOOLEAN
  /\ {MaxVersion, PerFile, Branch, Depth, StackLimit} \subseteq Nat \ {0}

\* An index: the versions the scans read, the second not before the first.
Indexes ==
  {m \in [code : [Files -> Versions \cup {Gone}],
          sql  : [Files -> Versions \cup {Gone}]] :
     /\ \A f \in Files : m.code[f] <= m.sql[f]
     /\ Cardinality({f \in Files : m.sql[f] > 1}) <= 1
     /\ \A f \in Files \ Changing : m.sql[f] = 1}

At(s, v) == IF v = Gone THEN 0 ELSE Line[<<s, v>>]

\* What a scan finds when it reads the files at versions v.
Found(S, v) == {e \in {<<s, At(s, v[Decl[s].file])>> : s \in S} : e[2] # 0}

CodeEntries(m) == Found({s \in Symbols : Decl[s].code}, m.code)
SqlEntries(m) == Found({s \in Symbols : Decl[s].sql # "none"}, m.sql)

\* A structural symbol replaces the code symbol of the same name and line.
Entries(m) == CodeEntries(m) \cup SqlEntries(m)

FileOf(e) == Decl[e[1]].file
NameOf(e) == Decl[e[1]].name

\* The kind of an entry is that of the scan that found it.
KindOf(m, e) == IF e \in SqlEntries(m) THEN Decl[e[1]].sql ELSE "none"

Earlier(d, e) == d[1] < e[1] \/ (d[1] = e[1] /\ d[2] < e[2])
First(n, S) == {e \in S : Cardinality({d \in S : Earlier(d, e)}) < n}

-----------------------------------------------------------------------------
(* References.                                                             *)

\* A name means the first symbol of the same file, else two of the files it
\* imports, else any two.
NameTargets(m, name, file, preferred) ==
  LET named == {e \in Entries(m) : NameOf(e) = name}
      same == {e \in named : FileOf(e) = file}
      imported == {e \in named : FileOf(e) \in preferred}
  IN  IF same # {} THEN First(1, same)
      ELSE First(2, IF imported # {} THEN imported ELSE named)

\* The calls of all functions of one name in one file go to the last of them.
Caller(m, e) ==
  CHOOSE c \in CodeEntries(m) :
    /\ FileOf(c) = FileOf(e) /\ NameOf(c) = NameOf(e)
    /\ \A d \in CodeEntries(m) :
         FileOf(d) = FileOf(e) /\ NameOf(d) = NameOf(e) => ~Earlier(c, d)

\* ctags says of a reference where it is and not in which function; such
\* references are dropped, and it reports no imports.
CallEdges(m) ==
  IF HasCtags THEN {} ELSE
  UNION {{<<Caller(m, e), t>> :
            t \in UNION {NameTargets(m, n, FileOf(e), Imports[FileOf(e)]) :
                           n \in Decl[e[1]].calls}} :
           e \in CodeEntries(m)}

BaseEdges(m) ==
  UNION {{<<e, t>> : t \in UNION {NameTargets(m, n, FileOf(e), {}) :
                                    n \in Decl[e[1]].bases}} :
           e \in CodeEntries(m)}

\* A statement hangs on the function it is embedded in, at the line the second
\* scan saw it at, which the first scan may not have.
ParentOf(m, e) == <<Decl[e[1]].parent, At(Decl[e[1]].parent, m.sql[FileOf(e)])>>

ParentEdges(m) ==
  {<<ParentOf(m, e), e>> :
     e \in {d \in SqlEntries(m) : Decl[d[1]].parent # 0 /\ ParentOf(m, d) \in Entries(m)}}

References(m) == CallEdges(m) \cup BaseEdges(m) \cup ParentEdges(m)

-----------------------------------------------------------------------------
(* The graph of the bridge.  An edge has a kind, and each kind a weight;    *)
(* two symbols may be joined by edges of several kinds.  A pair gives an      *)
(* edge of one kind there and of another back.                             *)

Links(kind, back, pairs) ==
  {[from |-> p[1], to |-> p[2], kind |-> kind] : p \in pairs}
  \cup {[from |-> p[2], to |-> p[1], kind |-> back] : p \in pairs}

\* The first n symbols of a file, by line.
Top(m, f, n) ==
  LET here == {e \in Entries(m) : FileOf(e) = f}
      Above(d, e) == d[2] < e[2] \/ (d[2] = e[2] /\ Earlier(d, e))
  IN  {e \in here : Cardinality({d \in here : Above(d, e)}) < n}

ImportPairs(m) ==
  UNION {Top(m, p[1], 4) \X Top(m, p[2], 4) :
           p \in {q \in Files \X Files : q[2] \in Imports[q[1]] /\ ~HasCtags}}

NeighbourPairs(m) == UNION {Top(m, f, PerFile) \X Top(m, f, PerFile) : f \in Files}

\* A statement and the views and tables that share a word of a table with it.
SchemaPairs(m) ==
  {p \in Entries(m) \X Entries(m) :
     /\ KindOf(m, p[1]) = "dml"
     /\ KindOf(m, p[2]) \in {"view", "table"}
     /\ Decl[p[1][1]].tables \cap Decl[p[2][1]].tables # {}}

\* Each symbol with the next three.
Chained(S) ==
  {p \in S \X S :
     /\ Earlier(p[1], p[2])
     /\ Cardinality({c \in S : Earlier(p[1], c) /\ Earlier(c, p[2])}) < 3}

\* The first twelve of the symbols that share a word in their names.
NamePairs(m) ==
  UNION {Chained(First(12, {e \in Entries(m) : w \in Decl[e[1]].words})) :
           w \in UNION {Decl[s].words : s \in Symbols}}

Edges(m) ==
  {e \in Links("reference", "reference_reverse", References(m))
           \cup Links("import", "", ImportPairs(m))
           \cup Links("co_occurrence", "co_occurrence", NeighbourPairs(m))
           \cup Links("embedded_sql", "embedded_sql_reverse", ParentEdges(m))
           \cup Links("db_schema_affinity", "db_schema_reverse", SchemaPairs(m))
           \cup Links("naming_similarity", "naming_similarity", NamePairs(m)) :
     e.from # e.to /\ e.kind # ""}

\* The graph of each index.
Graphs == {<<m, Edges(m)>> : m \in Indexes}
Graph(m) == (CHOOSE g \in Graphs : g[1] = m)[2]

\* Weights in hundredths.  That of a co-occurrence falls with the number of
\* symbols in the file and with their distance, which is left out.
Weight ==
  [reference |-> 100, embedded_sql |-> 100, db_schema_affinity |-> 95,
   embedded_sql_reverse |-> 85, reference_reverse |-> 75, db_schema_reverse |-> 75,
   import |-> 55, naming_similarity |-> 30]

SmallFiles(m) ==
  {f \in Files : Cardinality({e \in Entries(m) : FileOf(e) = f}) <= 3}

WeightOf(small, e) ==
  IF e.kind # "co_occurrence" THEN Weight[e.kind]
  ELSE IF FileOf(e.from) \in small THEN 60 ELSE 40

Heavier(small, d, e) ==
  \/ WeightOf(small, d) > WeightOf(small, e)
  \/ WeightOf(small, d) = WeightOf(small, e) /\ Earlier(d.to, e.to)

\* The Branch heaviest of the edges of a symbol.
Strongest(small, out) ==
  {e \in out : Cardinality({d \in out : Heavier(small, d, e)}) < Branch}

\* From a seed the walk stays in the domain of the seed - the backend in the
\* backend and the data base - except to callers.
Crosses(e) ==
  LET here == Domain[FileOf(e.from)]
      there == Domain[FileOf(e.to)]
  IN  /\ e.kind # "reference_reverse"
      /\ IF here = "backend" THEN there = "ui" ELSE there # here

\* What a walk has seen and what it saw last, by distance from the seeds.
Walk(graph, small, seeds) ==
  LET Ahead(last, d) ==
        UNION {{e.to : e \in {x \in Strongest(small, out) : d > 1 \/ ~Crosses(x)}} :
                 out \in {{x \in graph : x.from = s} : s \in last}}
      Further(w, next) == [seen |-> w.seen \cup next, last |-> next \ w.seen]
      W[d \in 0 .. Depth] ==
        IF d = 0 THEN [seen |-> seeds, last |-> seeds]
        ELSE Further(W[d - 1], Ahead(W[d - 1].last, d))
  IN  W[Depth].seen

Walked(m, seeds) == Walk(Graph(m), SmallFiles(m), seeds)

\* strongconnect over all symbols that have edges, those of a symbol taken in
\* the order of the index: the path it is on, what it has seen, and the most
\* frames it had open.
Search(graph, steps) ==
  LET Ahead(w) ==
        First(1, {e.to : e \in {x \in graph : w.path # <<>> => x.from = w.path[Len(w.path)]}}
                 \ w.seen)
      Open(w, e) == [path |-> Append(w.path, e), seen |-> w.seen \cup {e},
                     most |-> IF Len(w.path) = w.most THEN w.most + 1 ELSE w.most]
      Close(w) == [w EXCEPT !.path = SubSeq(@, 1, Len(@) - 1)]
      Step(w, ahead) ==
        IF ahead # {} THEN Open(w, CHOOSE e \in ahead : TRUE)
        ELSE IF w.path = <<>> THEN w ELSE Close(w)
      W[n \in 0 .. steps] ==
        IF n = 0 THEN [path |-> <<>>, seen |-> {}, most |-> 0]
        ELSE Step(W[n - 1], Ahead(W[n - 1]))
  IN  W[steps]

\* The frames the search opens on the graph of each index.
Searches == {<<m, Search(Graph(m), 2 * Cardinality(Entries(m))).most>> : m \in Indexes}
Frames(m) == (CHOOSE s \in Searches : s[1] = m)[2]
=============================================================================
