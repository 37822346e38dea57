--------------------------- MODULE RepoMapService ---------------------------
(***************************************************************************)
(* The repo map of src/src/indexer/repo_map_service.py over the SQLite      *)
(* cache of src/src/indexer/symbol_cache.py.  A worker thread builds the    *)
(* map at the start of a session; the event loop and the threads of its     *)
(* pool (clients) wait for it, refresh it when it is dirty and mark paths   *)
(* dirty.  The lock guards _build_state only: _map, _dirty and              *)
(* _dirty_paths are read and written without it.                            *)
(*                                                                          *)
(* A file is its version.  An index, the cache and the map hold of each     *)
(* file the version they were made from and whether the references that its *)
(* calls make are among them.  Reading the files of a project is one step:  *)
(* the properties look at one path at a time.                               *)
(***************************************************************************)
EXTENDS Naturals, FiniteSets

CONSTANTS
  Paths,          \* project files
  Names,          \* what a mark may name once the service has normalized it
  Stripped,       \* a path after lstrip("./"): without the dot of .github
  NoPath,         \* the argument None of mark_dirty
  Clients,        \* threads that use the service
  Worker,         \* the thread mitkii-repo-map
  MaxVersion,     \* bound on the versions of a file
  Threshold,      \* _FULL_REINDEX_DIRTY_THRESHOLD
  NoMap,          \* the map before the first build
  Free            \* the lock when no thread holds it

ASSUME RepoMapAssumption ==
  /\ Worker \notin Clients
  /\ Free \notin Clients \cup {Worker}
  /\ NoMap \notin [Paths -> [version : 0 .. MaxVersion, calls : BOOLEAN]]
  /\ MaxVersion \in Nat \ {0}
  /\ Paths # {} /\ Paths \subseteq Names
  /\ NoPath \notin Names
  /\ Stripped \in [Paths -> Names]
  /\ Threshold \in Nat \ {0}

Threads == Clients \cup {Worker}

Versions == [Paths -> 0 .. MaxVersion]

\* Version 0 of a file is: not in the index.
Indexes == [Paths -> [version : 0 .. MaxVersion, calls : BOOLEAN]]
Empty == [p \in Paths |-> [version |-> 0, calls |-> FALSE]]

VARIABLES
  disk,           \* the files of the project
  cache,          \* SymbolCache, which outlives the session
  map,            \* _map
  dirty,          \* _dirty
  dirtyPaths,     \* _dirty_paths
  buildState,     \* _build_state
  lock,           \* _lock
  at,             \* where each thread is
  indexed,        \* the index a thread has read
  path,           \* the path a client is marking dirty
  floor,          \* history: what a fresh map must hold of each path
  marked,         \* history: the names that were marked in this session
  raced           \* history: a path was marked while the map was being made

service == <<map, dirty, dirtyPaths, buildState, lock>>
asked == <<floor, marked>>
serviceVars ==
  <<disk, cache, service, at, indexed, path, asked, raced>>

-----------------------------------------------------------------------------
(* A session starts with the background build; what the last one left in   *)
(* the cache is there, and the files may have changed since.               *)

NewSession ==
  /\ map' = NoMap
  /\ dirty' = FALSE
  /\ dirtyPaths' = {}
  /\ buildState' = "building"
  /\ lock' = Free
  /\ at' = [t \in Threads |-> IF t = Worker THEN "start" ELSE "idle"]
  /\ indexed' = [t \in Threads |-> Empty]
  /\ path' = [t \in Clients |-> NoPath]
  /\ floor' = disk
  /\ marked' = {}
  /\ raced' = FALSE
  /\ UNCHANGED <<disk, cache>>

ServiceInit ==
  /\ disk = [p \in Paths |-> 1]
  /\ cache = Empty
  /\ map = NoMap
  /\ dirty = FALSE
  /\ dirtyPaths = {}
  /\ buildState = "building"
  /\ lock = Free
  /\ at = [t \in Threads |-> IF t = Worker THEN "start" ELSE "idle"]
  /\ indexed = [t \in Threads |-> Empty]
  /\ path = [t \in Clients |-> NoPath]
  /\ floor = disk
  /\ marked = {}
  /\ raced = FALSE

Goto(t, place) == at' = [at EXCEPT ![t] = place]

\* Where a call of refresh_if_dirty or initial_build returns to.
Return(t) == Goto(t, IF t = Worker THEN "finish" ELSE "idle")

Locked(t) == lock = t

-----------------------------------------------------------------------------
(* _background_build_worker.                                               *)

StartWorker ==
  /\ at[Worker] = "start"
  /\ Goto(Worker, IF dirty \/ map = NoMap THEN "refresh" ELSE "initial")
  /\ UNCHANGED <<disk, cache, service, indexed, path, asked>>

FinishWorker ==
  /\ at[Worker] = "finish"
  /\ lock = Free
  /\ buildState' = "ready"
  /\ Goto(Worker, "dead")
  /\ UNCHANGED <<disk, cache, map, dirty, dirtyPaths, lock, indexed, path,
                 asked>>

FailWorker ==
  /\ at[Worker] = "failed"
  /\ lock = Free
  /\ buildState' = "error"
  /\ Goto(Worker, "dead")
  /\ UNCHANGED <<disk, cache, map, dirty, dirtyPaths, lock, indexed, path,
                 asked>>

-----------------------------------------------------------------------------
(* refresh_if_dirty, which the property map and search go through.         *)

Refresh(t) ==
  /\ at[t] = "refresh"
  /\ IF ~dirty /\ map # NoMap THEN Return(t) ELSE Goto(t, "reindex")
  /\ UNCHANGED <<disk, cache, service, indexed, path, asked>>

\* index_project: every file, with the references of its calls.
FullIndex == [p \in Paths |-> [version |-> disk[p], calls |-> TRUE]]

\* reindex_paths: of a file that is read again it stores the imports and the
\* bases of the classes, and no call.
Reread(p) == [version |-> disk[p], calls |-> FALSE]

\* _reindex_dirty_or_full: everything, or the dirty paths into the cache.
Reindex(t) ==
  /\ at[t] = "reindex"
  /\ IF dirtyPaths = {} \/ Cardinality(dirtyPaths) >= Threshold
     THEN /\ indexed' = [indexed EXCEPT ![t] = FullIndex]
          /\ Goto(t, "store")
          /\ UNCHANGED cache
     ELSE /\ cache' = [p \in Paths |->
                         IF p \in dirtyPaths THEN Reread(p) ELSE cache[p]]
          /\ Goto(t, "load")
          /\ UNCHANGED indexed
  /\ UNCHANGED <<disk, service, path, asked>>

Load(t) ==
  /\ at[t] = "load"
  /\ IF cache = Empty
     THEN indexed' = [indexed EXCEPT ![t] = FullIndex] /\ Goto(t, "store")
     ELSE indexed' = [indexed EXCEPT ![t] = cache] /\ Goto(t, "publish")
  /\ UNCHANGED <<disk, cache, service, path, asked>>

\* replace_all: one transaction.
Store(t) ==
  /\ at[t] = "store"
  /\ cache' = indexed[t]
  /\ Goto(t, "publish")
  /\ UNCHANGED <<disk, service, indexed, path, asked>>

Publish(t) ==
  /\ at[t] = "publish"
  /\ map' = indexed[t]
  /\ indexed' = [indexed EXCEPT ![t] = Empty]
  /\ Goto(t, "clean")
  /\ UNCHANGED <<disk, cache, dirty, dirtyPaths, buildState, lock, path, asked>>

Clean(t) ==
  /\ at[t] = "clean"
  /\ dirty' = FALSE
  /\ Goto(t, "clear")
  /\ UNCHANGED <<disk, cache, map, dirtyPaths, buildState, lock, indexed, path,
                 asked>>

Clear(t) ==
  /\ at[t] = "clear"
  /\ dirtyPaths' = {}
  /\ Goto(t, "ready")
  /\ UNCHANGED <<disk, cache, map, dirty, buildState, lock, indexed, path,
                 asked>>

\* The lock is not reentrant.
Ready(t) ==
  /\ at[t] = "ready"
  /\ lock = Free
  /\ buildState' = "ready"
  /\ Return(t)
  /\ UNCHANGED <<disk, cache, map, dirty, dirtyPaths, lock, indexed, path,
                 asked>>

\* Mutation of FailBuild: the exception leaves the lock taken.
FailBuildLocked(t) ==
  /\ at[t] \in {"initial", "reindex", "load", "store", "publish"}
  /\ Goto(t, IF t = Worker THEN "failed" ELSE "idle")
  /\ lock' = t
  /\ indexed' = [indexed EXCEPT ![t] = Empty]
  /\ UNCHANGED <<disk, cache, map, dirty, dirtyPaths, buildState, path, asked>>

\* Parsing, SQLite or the ranking fails.  The caller of a client's call
\* catches it, the with statement releases the lock.
FailBuild(t) ==
  /\ at[t] \in {"initial", "reindex", "load", "store", "publish"}
  /\ Goto(t, IF t = Worker THEN "failed" ELSE "idle")
  /\ lock' = IF Locked(t) THEN Free ELSE lock
  /\ indexed' = [indexed EXCEPT ![t] = Empty]
  /\ UNCHANGED <<disk, cache, map, dirty, dirtyPaths, buildState, path, asked>>

-----------------------------------------------------------------------------
(* initial_build: the cache as it is, when there is one.                   *)

InitialBuild(t) ==
  /\ at[t] = "initial"
  /\ IF cache # Empty
     THEN indexed' = [indexed EXCEPT ![t] = cache] /\ Goto(t, "publish")
     ELSE indexed' = [indexed EXCEPT ![t] = FullIndex] /\ Goto(t, "store")
  /\ UNCHANGED <<disk, cache, service, path, asked>>

-----------------------------------------------------------------------------
(* Calls of the clients.  Every caller of wait_until_ready goes on with    *)
(* the property map, whatever the wait returned.                           *)

CallRefresh(t) ==
  /\ at[t] = "idle"
  /\ Goto(t, "refresh")
  /\ UNCHANGED <<disk, cache, service, indexed, path, asked>>

\* The join ends when the worker did or when its timeout ran out.
CallWait(t) ==
  /\ at[t] = "idle"
  /\ Goto(t, "check")
  /\ UNCHANGED <<disk, cache, service, indexed, path, asked>>

\* Without a map and without a build going on, the waiting thread builds the
\* map itself, inside the with statement.
Check(t) ==
  /\ at[t] = "check"
  /\ lock = Free
  /\ IF map = NoMap /\ buildState = "idle"
     THEN lock' = t /\ Goto(t, "initial")
     ELSE UNCHANGED lock /\ Goto(t, "refresh")
  /\ UNCHANGED <<disk, cache, map, dirty, dirtyPaths, buildState, indexed,
                 path, asked>>

\* What the mark of a path asks of the next map.  The mark of a path that the
\* service renames asks for another file, a mark of no path for none.
Asks(p) ==
  /\ floor' = IF p \in Paths /\ Stripped[p] = p
              THEN [floor EXCEPT ![p] = disk[p]] ELSE floor
  /\ marked' = IF p \in Paths THEN marked \cup {Stripped[p]} ELSE marked

\* Mutation of MarkDirty: a path is only noted when the map is ready.
MarkDirtyWhenReady(t) ==
  /\ at[t] = "idle"
  /\ \E p \in Paths \cup {NoPath} : path' = [path EXCEPT ![t] = p] /\ Asks(p)
  /\ dirty' = (dirty \/ buildState = "ready")
  /\ Goto(t, "demote")
  /\ UNCHANGED <<disk, cache, map, dirtyPaths, buildState, lock, indexed>>

\* mark_dirty, after the path changed; the argument may be None, though the only
\* caller, session_factory.py, names the edited file.
MarkDirty(t) ==
  /\ at[t] = "idle"
  /\ \E p \in Paths \cup {NoPath} : path' = [path EXCEPT ![t] = p] /\ Asks(p)
  /\ dirty' = TRUE
  /\ Goto(t, "demote")
  /\ UNCHANGED <<disk, cache, map, dirtyPaths, buildState, lock, indexed>>

\* Mutation of Demote: every state becomes idle.
DemoteAny(t) ==
  /\ at[t] = "demote"
  /\ lock = Free
  /\ buildState' = "idle"
  /\ Goto(t, "add")
  /\ UNCHANGED <<disk, cache, map, dirty, dirtyPaths, lock, indexed, path,
                 asked>>

Demote(t) ==
  /\ at[t] = "demote"
  /\ lock = Free
  /\ buildState' = IF buildState = "ready" THEN "idle" ELSE buildState
  /\ Goto(t, "add")
  /\ UNCHANGED <<disk, cache, map, dirty, dirtyPaths, lock, indexed, path,
                 asked>>

\* The path loses its leading dots: the mark of a file in a hidden directory
\* becomes one of the file of that name beside it, or of no file.
AddPath(t) ==
  /\ at[t] = "add"
  /\ dirtyPaths' = IF path[t] = NoPath THEN dirtyPaths
                   ELSE dirtyPaths \cup {Stripped[path[t]]}
  /\ path' = [path EXCEPT ![t] = NoPath]
  /\ Goto(t, "idle")
  /\ UNCHANGED <<disk, cache, map, dirty, buildState, lock, indexed, asked>>

-----------------------------------------------------------------------------

\* An edit of a file, by the agent or the user; no caller marks it dirty.
Change(p) ==
  /\ disk[p] < MaxVersion
  /\ disk' = [disk EXCEPT ![p] = @ + 1]
  /\ UNCHANGED <<cache, service, at, indexed, path, asked>>

BuildStep(t) ==
  \/ Refresh(t)
  \/ Reindex(t)
  \/ Load(t)
  \/ Store(t)
  \/ Publish(t)
  \/ Clean(t)
  \/ Clear(t)
  \/ Ready(t)
  \/ InitialBuild(t)

WorkerStep == StartWorker \/ FinishWorker \/ FailWorker \/ BuildStep(Worker)

ClientStep(t) ==
  BuildStep(t) \/ Check(t) \/ Demote(t) \/ AddPath(t)

Call(t) == CallRefresh(t) \/ CallWait(t) \/ MarkDirty(t)

Marking(t) == at[t] \in {"demote", "add"}
Building(t) ==
  at[t] \in {"start", "refresh", "reindex", "load", "store", "publish",
             "clean", "clear", "ready", "initial", "finish"}

\* A path is marked before there is a map, or beside a refresh.
Overlap ==
  \E t \in Threads :
    Marking(t) /\ (map = NoMap \/ \E u \in Threads : Building(u))

Step ==
  \/ WorkerStep
  \/ \E t \in Threads : FailBuild(t)
  \/ \E t \in Clients : ClientStep(t) \/ Call(t)
  \/ \E p \in Paths : Change(p)

ServiceNext == (Step /\ raced' = (raced \/ Overlap')) \/ NewSession

\* Every thread runs; nothing makes a client call or a file change.
Fairness ==
  /\ WF_serviceVars(WorkerStep /\ raced' = (raced \/ Overlap'))
  /\ \A t \in Clients : WF_serviceVars(ClientStep(t) /\ raced' = (raced \/ Overlap'))

ServiceSpec == ServiceInit /\ [][ServiceNext]_serviceVars /\ Fairness

-----------------------------------------------------------------------------
(* Properties.                                                             *)

\* In a session the map is missing only while the build runs or after it
\* failed: is_ready, and the branch of wait_until_ready that builds the map
\* inside the lock it needs again, rest on it.
MapMissingOnlyInBuild ==
  map = NoMap => buildState \in {"building", "error"}

\* Type invariant; the lock is held between steps by a build only, and the map
\* is missing in a build and after a failed one only.
RepoTypeOK ==
  /\ disk \in Versions /\ cache \in Indexes
  /\ map \in Indexes \cup {NoMap}
  /\ dirty \in BOOLEAN
  /\ dirtyPaths \subseteq Names
  /\ buildState \in {"idle", "building", "ready", "error"}
  /\ lock \in Threads \cup {Free}
  /\ lock # Free => Building(lock)
  /\ indexed \in [Threads -> Indexes]
  /\ path \in [Clients -> Paths \cup {NoPath}]
  /\ floor \in Versions /\ marked \subseteq Names
  /\ raced \in BOOLEAN
  /\ MapMissingOnlyInBuild

\* When marks and refreshes did not overlap, a map that is not dirty holds
\* every path at least as new as when the session started and as when the
\* path was last marked under the name it has, whatever an earlier session left
\* in the cache; and it holds the calls of every file but those whose names were
\* marked, which an incremental refresh reads without them.  The mark of a path in
\* a hidden directory is left out: it renews no entry of that path.
FreshUnlessRaced ==
  /\ ~raced
  /\ map # NoMap
  /\ ~dirty
  /\ \A t \in Threads : ~Building(t) /\ ~Marking(t)
  => \A p \in Paths :
       /\ map[p].version >= floor[p]
       /\ map[p].calls \/ p \in marked

\* Every call of a client returns: no wait is for ever, the lock included.
CallsReturn == \A t \in Clients : at[t] # "idle" ~> at[t] = "idle"
=============================================================================
