-------------------------- MODULE MCRepoMapService --------------------------
(* RepoMapService for TLC: a file and one in a hidden directory, whose name     *)
(* without the dot is that of no file, one client thread beside the worker.     *)
EXTENDS RepoMapService, TLC

CONSTANTS
  p1, h2, n2      \* a file, .lib/x.py, lib/x.py

MCStripped == p1 :> p1 @@ h2 :> n2
=============================================================================
