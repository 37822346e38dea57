------------------------------- MODULE Project -------------------------------
(***************************************************************************)
(* A project under work: its files, which the user and the edits change,    *)
(* and the repo map that the service keeps of them (RepoMapService), as the *)
(* search tools see both.  Every map is a full index: what an incremental   *)
(* refresh loses of a file is in RepoMapService.                            *)
(***************************************************************************)
EXTENDS SymbolIndex

CONSTANTS
  MaxBuilds,       \* bound on the maps that are published
  NoMap            \* the map before the first build

ASSUME ProjectAssumption == MaxBuilds \in Nat /\ NoMap \notin Indexes

VARIABLES
  disk,        \* the version of each file
  map,         \* the map of the repo map service
  builds       \* maps published

project == <<disk, map, builds>>

ProjectInit ==
  /\ disk = [f \in Files |-> 1]
  /\ map = NoMap
  /\ builds = 0

\* A build started at any time reads every file twice.
Publish ==
  /\ builds < MaxBuilds
  /\ \E m \in Indexes :
       /\ \A f \in Files : m.sql[f] <= disk[f]
       /\ map' = m
  /\ builds' = builds + 1
  /\ UNCHANGED disk

\* The user or an edit changes a file, or deletes it.
Change(f) ==
  /\ f \in Changing /\ disk[f] < Gone
  /\ \A g \in Files \ {f} : disk[g] = 1
  /\ disk' = [disk EXCEPT ![f] = @ + 1]
  /\ UNCHANGED <<map, builds>>

ProjectNext == Publish \/ \E f \in Files : Change(f)
=============================================================================
