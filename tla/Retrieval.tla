------------------------------ MODULE Retrieval ------------------------------
(***************************************************************************)
(* codebase_retrieve (src/src/tools/assembled/codebase_retrieve.py): from a *)
(* query to the few places in the code the Core model is shown.             *)
(*                                                                          *)
(* A call turns the query into terms, looks them up in the repo map,        *)
(* expands what it found through the symbol graph, merges both, reads the   *)
(* files of the candidates, and cuts the list.  Each of the three steps     *)
(* that need the repo map takes the one that is there at that moment, and   *)
(* between any two steps the map may be replaced - by the build of the      *)
(* worker thread or of a step that found no map - and files may change.     *)
(*                                                                          *)
(* Scores are abstract: where the code sorts and cuts, any part of that     *)
(* size may be kept; where the order only says what is read first, it is    *)
(* that of the index.                                                       *)
(***************************************************************************)
EXTENDS Project, SequencesExt, Selections

CONSTANTS
  Terms,           \* words of queries and answers
  Letters,         \* those too short to search for
  Stripped,        \* [Files -> the name of a file after lstrip("./")]
  Queries,         \* queries, as the words in them
  Aliases,         \* [Terms -> the words a word of a query stands for]
  Concepts,        \* [Terms -> the concepts inferred from a word]
  Layers,          \* [Terms -> the layers inferred from a word]
  Topics,          \* [Terms -> the domains a word of a query suggests]
  Codebase,        \* the domain where none is suggested
  Answers,         \* answers of the query model, as the keys it filled
  Matching,        \* [Symbols -> the terms its name, file, signature or kind match]
  ViewWords, LogicWords,   \* the two groups of words that make an SQL view task
  QueryLogic,      \* symbols whose names speak of SQL, queries or selects
  CandidateLimit,  \* cursor_retrieval_candidate_symbols
  LookupLimit,     \* the same, or 40
  MaxSeeds,        \* cursor_graph_bridge_max_seeds
  TopSymbols,      \* cursor_graph_bridge_max_symbols
  MaxSymbols,      \* cursor_retrieval_max_symbols
  MaxEvidence      \* MAX_EVIDENCE_ITEMS

\* The keys of an answer that the guard asks for; domain, concepts and layers
\* are welcome.
RequiredKeys == {"intent", "expanded", "keywords", "symbols", "files"}
TermKeys == {"expanded", "keywords", "concepts", "layers", "domain"}

ASSUME RetrievalAssumption ==
  /\ Queries \subseteq SUBSET Terms
  /\ {Aliases, Concepts, Layers, Topics} \subseteq [Terms -> SUBSET Terms]
  /\ Letters \subseteq Terms /\ Codebase \in Terms \ Letters
  /\ \A a \in Answers :
       /\ DOMAIN a \subseteq RequiredKeys \cup TermKeys
       /\ \A k \in DOMAIN a \cap TermKeys : a[k] \subseteq Terms
  /\ Matching \in [Symbols -> SUBSET Terms]
  /\ QueryLogic \subseteq Symbols
  /\ {CandidateLimit, LookupLimit, MaxSeeds, TopSymbols, MaxSymbols, MaxEvidence}
       \subseteq Nat \ {0}
  /\ CandidateLimit <= LookupLimit

\* A file in a hidden directory may be read under the name of another, but declares
\* no symbol of the same name: fusion could take the two for one.
ASSUME StrippedAssumption ==
  /\ DOMAIN Stripped = Files
  /\ \A s, t \in Symbols :
       Decl[s].name = Decl[t].name /\ Stripped[Decl[s].file] = Stripped[Decl[t].file]
         => Decl[s].file = Decl[t].file

VARIABLES
  walked,      \* _scc_map of the bridge: the search over the graph was made once
  pc,          \* the step the call is at
  bridge,      \* the terms of the call
  viewTask,    \* _is_sql_view_task
  candidates,  \* what the lookup found
  kinds,       \* the kinds of the candidates, the expanded ones included
  pending,     \* candidates that are not read yet
  nodes,       \* candidates whose files were read
  answer,      \* the places that are shown
  looked,      \* history: the map of the lookup
  reranked     \* history: the answer was ordered by the reranker

call == <<bridge, viewTask, candidates, kinds, pending, nodes, answer, looked, reranked>>
retrieval == <<walked, pc, call>>

\* Where the code sorts by a score and keeps the first n.
Best(n, S) == IF Cardinality(S) <= n THEN {S} ELSE kSubset(n, S)

-----------------------------------------------------------------------------
(* The terms of a call: CursorQueryBridge.fallback and the guard.          *)

OrElse(S, T) == IF S # {} THEN S ELSE T

Fallback(query) ==
  LET words == query \cup UNION {Aliases[t] : t \in query}
  IN  [keywords |-> query,
       expanded |-> words \ query,
       concepts |-> OrElse(UNION {Concepts[t] : t \in words}, words),
       layers |-> UNION {Layers[t] : t \in words},
       domain |-> OrElse(UNION {Topics[t] : t \in words}, {Codebase})]

\* The lookup leaves the keywords out.
LookupTerms(b) == b.expanded \cup b.concepts \cup b.layers \cup b.domain
SearchTerms(b) == LookupTerms(b) \cup b.keywords

\* A missing key is replaced by that of the heuristic; so is an empty domain.
Repaired(given, fallback) ==
  [k \in TermKeys |->
     IF k \notin DOMAIN given \/ (k = "domain" /\ given[k] = {})
     THEN fallback[k] ELSE given[k]]

\* validate_bridge_json: an answer with none of the required keys, or without a
\* term to search for, is replaced by the heuristic, which has a domain at least.
Guarded(given, fallback) ==
  IF \/ DOMAIN given \cap RequiredKeys = {}
     \/ SearchTerms(Repaired(given, fallback)) \subseteq Letters
  THEN fallback ELSE Repaired(given, fallback)

-----------------------------------------------------------------------------
(* A call.                                                                 *)

NoCandidates ==
  /\ candidates' = {} /\ kinds' = <<>> /\ pending' = {} /\ nodes' = {} /\ answer' = {}

Ask ==
  /\ pc \in {"idle", "answered", "raised"}
  /\ \E query \in Queries, given \in Answers :
       LET b == Guarded(given, Fallback(query)) IN
       /\ bridge' = b
       /\ viewTask' = /\ (SearchTerms(b) \cup query) \cap ViewWords # {}
                      /\ (SearchTerms(b) \cup query) \cap LogicWords # {}
  /\ pc' = "lookup"
  /\ NoCandidates
  /\ looked' = NoMap
  /\ reranked' = FALSE
  /\ UNCHANGED <<walked>>

KindsOf(m, S) == [e \in S |-> KindOf(m, e)]

\* The kinds of what was found in one map stay when others are added.
WithKindsOf(m, S) ==
  [e \in DOMAIN kinds \cup S |-> IF e \in DOMAIN kinds THEN kinds[e] ELSE KindOf(m, e)]

\* The functions around statements that match.
EmbeddedParents(m, S) == {p[1] : p \in {q \in ParentEdges(m) : q[2] \in S}}

Matches(m, terms) ==
  LET direct == {e \in Entries(m) : Matching[e[1]] \cap terms # {}}
  IN  direct \cup EmbeddedParents(m, direct)

\* A lookup that finds no map builds one: it waits for Publish.
Lookup ==
  /\ pc = "lookup"
  /\ map # NoMap
  /\ candidates' \in Best(LookupLimit, Matches(map, LookupTerms(bridge)))
  /\ kinds' = KindsOf(map, candidates')
  /\ pending' = candidates'
  /\ pc' = "expand"
  /\ looked' = map
  /\ UNCHANGED <<walked, bridge, viewTask, nodes, answer, reranked>>

\* expand_candidates: the seeds, then the symbols around them.
Expansions(m, found) ==
  UNION {IF Cardinality(seeds) >= TopSymbols THEN Best(TopSymbols, seeds)
         ELSE UNION {{seeds \cup S : S \in Best(TopSymbols - Cardinality(seeds), around)} :
                       around \in {Walked(m, seeds) \ seeds}} :
           seeds \in Best(MaxSeeds, found \cap Entries(m))}

\* The search over the whole graph is made at the first expansion that gets
\* through; on a deep graph Python's stack ends first, and so does the call.
Expand ==
  /\ pc = "expand"
  /\ candidates # {}
  /\ IF ~walked /\ Frames(map) > StackLimit
     THEN pc' = "raised" /\ UNCHANGED <<walked, pending>>
     ELSE /\ walked' = TRUE
          /\ \E S \in Expansions(map, candidates) : pending' = candidates \cup S
          /\ pc' = "merge"
  /\ UNCHANGED <<bridge, viewTask, candidates, kinds, nodes, answer, looked,
                 reranked>>

\* No candidates, or the wait for the map took too long.
SkipExpand ==
  /\ pc = "expand"
  /\ pc' = "merge"
  /\ UNCHANGED <<walked, call>>

\* Mutation of Merge: what the lookup found is dropped, too, when it is gone from
\* the map.
MergeOnlyCurrent ==
  /\ pc = "merge"
  /\ pending' = (candidates \cup pending) \cap Entries(map)
  /\ kinds' = WithKindsOf(map, pending')
  /\ pc' = "ground"
  /\ UNCHANGED <<walked, bridge, viewTask, candidates, nodes, answer, looked,
                 reranked>>

\* merge_by_ids: what is not in the map any more is dropped, unless the lookup
\* had found it.
Merge ==
  /\ pc = "merge"
  /\ pending' = candidates \cup (pending \cap Entries(map))
  /\ kinds' = WithKindsOf(map, pending')
  /\ pc' = "ground"
  /\ UNCHANGED <<walked, bridge, viewTask, candidates, nodes, answer, looked,
                 reranked>>

\* _node and the retriever strip the leading dots of the path: a symbol of a file
\* in a hidden directory is read from, and shown under, another name.
NodeFile(e) == Stripped[FileOf(e)]
Readable(e) == NodeFile(e) \in Files /\ disk[NodeFile(e)] # Gone

\* Mutation of Ground: one file more is read.
GroundOneMore ==
  /\ pc = "ground"
  /\ Cardinality(nodes) <= CandidateLimit
  /\ \E e \in First(1, OrElse(pending \cap candidates, pending)) :
       /\ pending' = pending \ {e}
       /\ nodes' = IF Readable(e) THEN nodes \cup {e} ELSE nodes
  /\ UNCHANGED <<walked, pc, bridge, viewTask, candidates, kinds, answer, looked,
                 reranked>>

\* The candidates are read one by one, those of the lookup first, until there
\* are enough.
Ground ==
  /\ pc = "ground"
  /\ Cardinality(nodes) < CandidateLimit
  /\ \E e \in First(1, OrElse(pending \cap candidates, pending)) :
       /\ pending' = pending \ {e}
       /\ nodes' = IF Readable(e) THEN nodes \cup {e} ELSE nodes
  /\ UNCHANGED <<walked, pc, bridge, viewTask, candidates, kinds, answer, looked,
                 reranked>>

Grounded ==
  /\ pc = "ground"
  /\ pending = {} \/ Cardinality(nodes) = CandidateLimit
  /\ pc' = "fuse"
  /\ UNCHANGED <<walked, call>>

-----------------------------------------------------------------------------
(* Fusion.                                                                 *)

IsView(e) == kinds[e] = "view"
IsQueryLogic(e) ==
  \/ kinds[e] = "dml"
  \/ kinds[e] # "none" /\ Decl[e[1]].tables # {}
  \/ e[1] \in QueryLogic

\* The first of a list that is in a set, as a list.
Leading(order, S) ==
  LET hits == Only(order, S)
  IN  IF hits = <<>> THEN <<>> ELSE <<Head(hits)>>

ViewsIn(order) == {e \in Range(order) : IsView(e)}
LogicIn(order) == {e \in Range(order) : IsQueryLogic(e)}

\* Mutation of Protected: the first symbol that is either is protected.
ProtectedEither(order) ==
  IF viewTask THEN Leading(order, ViewsIn(order) \cup LogicIn(order)) ELSE <<>>

\* The first query logic, then the first view that is another symbol.
Protected(order) ==
  LET logic == Leading(order, LogicIn(order))
  IN  IF viewTask THEN logic \o Leading(order, ViewsIn(order) \ Range(logic)) ELSE <<>>

FileCap == IF MaxSymbols \div 2 > 2 THEN MaxSymbols \div 2 ELSE 2

OfFile(chosen, f) == {e \in Range(chosen) : NodeFile(e) = f}

AddAny(chosen, e) ==
  IF e \in Range(chosen) \/ Len(chosen) >= MaxSymbols THEN chosen ELSE Append(chosen, e)

\* Mutation of AddCapped: one symbol more of a file gets in.
AddCappedLate(chosen, e) ==
  IF Cardinality(OfFile(chosen, NodeFile(e))) > FileCap /\ ~IsQueryLogic(e)
  THEN chosen ELSE AddAny(chosen, e)

AddCapped(chosen, e) ==
  IF Cardinality(OfFile(chosen, NodeFile(e))) >= FileCap /\ ~IsQueryLogic(e)
  THEN chosen ELSE AddAny(chosen, e)

\* The symbols of a list are added one by one.
Pass(chosen, list, capped) ==
  LET added[n \in 0 .. Len(list)] ==
        IF n = 0 THEN chosen
        ELSE IF capped THEN AddCapped(added[n - 1], list[n])
        ELSE AddAny(added[n - 1], list[n])
  IN  added[Len(list)]

\* _apply_slot_defense: the protected symbols, then the ranking with at most
\* FileCap symbols of a file, then what was left out.
SlotDefense(order) ==
  Pass(Pass(Pass(<<>>, Protected(order), FALSE), order, TRUE), order, FALSE)

Saturated == IF 4 * MaxSymbols > 50 THEN 50 ELSE 4 * MaxSymbols

FuseReranked ==
  /\ pc = "fuse"
  /\ \E S \in Best(Saturated, nodes) : \E order \in SetToSeqs(S) :
       LET chosen == SlotDefense(order) IN
       answer' = {chosen[i] : i \in {j \in DOMAIN chosen : j <= MaxEvidence}}
  /\ reranked' = TRUE
  /\ pc' = "answered"
  /\ UNCHANGED <<walked, bridge, viewTask, candidates, kinds, pending, nodes,
                 looked>>

\* Without the reranker, or when it fails, the local scores decide alone.
FuseLocally ==
  /\ pc = "fuse"
  /\ \E S \in Best(MaxSymbols, nodes) : answer' \in Best(MaxEvidence, S)
  /\ pc' = "answered"
  /\ UNCHANGED <<walked, bridge, viewTask, candidates, kinds, pending, nodes,
                 looked, reranked>>

-----------------------------------------------------------------------------
RetrievalInit ==
  /\ walked = FALSE
  /\ pc = "idle"
  /\ bridge = [k \in TermKeys |-> {}]
  /\ viewTask = FALSE
  /\ candidates = {} /\ kinds = <<>> /\ pending = {} /\ nodes = {} /\ answer = {}
  /\ looked = NoMap
  /\ reranked = FALSE

RetrievalStep ==
  \/ Lookup
  \/ Expand
  \/ SkipExpand
  \/ Merge
  \/ Ground
  \/ Grounded
  \/ FuseReranked
  \/ FuseLocally

-----------------------------------------------------------------------------
(* Properties.                                                             *)

\* Types: what is shown was read, what was read was found in a map of this
\* session, and the lists keep their limits.
RetrievalTypeOK ==
  /\ map \in Indexes \cup {NoMap} /\ looked \in Indexes \cup {NoMap}
  /\ pc \in {"idle", "lookup", "expand", "merge", "ground", "fuse", "answered", "raised"}
  /\ answer \subseteq nodes /\ nodes \subseteq DOMAIN kinds
  /\ candidates \subseteq DOMAIN kinds
  /\ pc # "merge" => pending \subseteq DOMAIN kinds
  /\ Cardinality(nodes) <= CandidateLimit
  /\ Cardinality(answer) <= MaxEvidence /\ Cardinality(answer) <= MaxSymbols

\* An answer without a place means that nothing of the map of the lookup matched,
\* or that what matched lies in deleted files - even if the map was replaced
\* in the middle of the call.  Files in hidden directories are left out: what
\* matches in them is read under another name, and mostly not found.
EmptyMeansNothing ==
  LET found == Matches(looked, LookupTerms(bridge))
  IN  pc = "answered" /\ answer = {} /\ Cardinality(found) <= LookupLimit
        => \A e \in found : disk[FileOf(e)] = Gone \/ NodeFile(e) # FileOf(e)

\* Slot defense: in a task about SQL views the reranker cannot push the last
\* view, nor the last query logic, out of the answer.
ViewKept ==
  reranked /\ viewTask /\ MaxSymbols >= 2 /\ MaxEvidence >= 2
  /\ Cardinality(nodes) <= Saturated =>
    /\ (\E e \in nodes : IsView(e)) => \E e \in answer : IsView(e)
    /\ (\E e \in nodes : IsQueryLogic(e)) => \E e \in answer : IsQueryLogic(e)

\* One file fills a reranked answer beyond its share only with query logic, or
\* when no file with room has anything to show.
NoFileCrowdsOut ==
  reranked /\ ~viewTask /\ Cardinality(nodes) <= Saturated =>
    \A f \in Files :
      Cardinality({e \in answer : NodeFile(e) = f /\ ~IsQueryLogic(e)}) > FileCap =>
        \A e \in nodes \ answer :
          Cardinality({d \in answer : NodeFile(d) = NodeFile(e)}) >= FileCap

\* What slot defense promises.
SlotsDefended == ViewKept /\ NoFileCrowdsOut

\* An expansion goes through, whatever the graph of the project.
ExpansionSurvives == pc # "raised"
=============================================================================
