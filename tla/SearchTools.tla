----------------------------- MODULE SearchTools -----------------------------
(***************************************************************************)
(* The two tools that search a project, codebase_retrieve and grep_search.  *)
(* They share nothing but the project, so a behaviour follows one of them.  *)
(***************************************************************************)
EXTENDS Retrieval, GrepSearch

CONSTANTS MaxQueries, MaxSearches   \* bounds on the calls of each tool

VARIABLES
  tool,     \* the tool that is followed
  calls     \* its calls

vars == <<project, retrieval, grep, tool, calls>>

Init ==
  /\ ProjectInit /\ RetrievalInit /\ GrepInit
  /\ tool \in {"codebase_retrieve", "grep_search"}
  /\ calls = 0

CodebaseRetrieve ==
  /\ tool = "codebase_retrieve"
  /\ \/ calls < MaxQueries /\ Ask /\ calls' = calls + 1
     \/ RetrievalStep /\ UNCHANGED calls
  /\ UNCHANGED <<project, grep, tool>>

SearchText ==
  /\ tool = "grep_search"
  /\ \/ calls < MaxSearches /\ AskGrep /\ calls' = calls + 1
     \/ GrepStep /\ UNCHANGED calls
  /\ UNCHANGED <<project, retrieval, tool>>

\* Some call is under way, or to come.
Active ==
  IF tool = "codebase_retrieve" THEN calls < MaxQueries \/ pc \notin {"answered", "raised"}
  ELSE calls < MaxSearches \/ gpc \in {"gate", "search"}

\* Once the last call has returned the project is of no interest; and as
\* grep_search uses the map that was there when it began, another one is
\* published between its calls only.
ProjectChanges ==
  /\ Active
  /\ ProjectNext
  /\ tool = "grep_search" /\ gpc \in {"gate", "search"} => UNCHANGED map
  /\ UNCHANGED <<retrieval, grep, tool, calls>>

Next ==
  \/ ProjectChanges
  \/ CodebaseRetrieve
  \/ SearchText

Spec == Init /\ [][Next]_vars

-----------------------------------------------------------------------------
(* Properties.                                                             *)

\* The types of both.
SearchTypeOK == RetrievalTypeOK /\ GrepTypeOK

\* When either tool comes back with nothing, there was nothing to be found.
EmptyIsTrue == EmptyMeansNothing /\ NothingToFind
=============================================================================
