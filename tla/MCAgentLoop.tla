---------------------------- MODULE MCAgentLoop -----------------------------
(* AgentLoop for TLC: two files with a slice and a plan step each, one     *)
(* grep hit in the first file.  The step of the first file may also write  *)
(* the second.                                                             *)
EXTENDS AgentLoop

CONSTANTS a1, a2, h1, f1, f2, p1, p2

MCFileOf == a1 :> f1 @@ a2 :> f2 @@ h1 :> f1
MCStepFile == p1 :> f1 @@ p2 :> f2
MCWindows == p1 :> {f1, f2} @@ p2 :> {f2}

ViewOf(a) == [tool |-> "view_symbol_code", on |-> a]
GrepOf(a) == [tool |-> "grep_search", on |-> a]
EditOf(p) == [tool |-> "decision_edit", on |-> p]

Response(cs, plan, checklistUpdate) ==
  [calls |-> cs, plan |-> plan, checklist |-> checklistUpdate]

\* What the Core may do without a plan: answer, retrieve, edit.
RetrievalTurns ==
  {Response(<<>>, <<>>, "keep"),
   Response(<<ViewOf(a1)>>, <<>>, "keep"),
   Response(<<GrepOf(h1), ViewOf(a2)>>, <<>>, "keep")}

EditTurns ==
  {Response(<<EditOf(p1)>>, <<>>, "complete"),
   Response(<<ViewOf(a1), EditOf(p1), EditOf(p2)>>, <<>>, "open")}

\* Plans: alone, with a view and an edit of another step, and with an edit of
\* a step the plan names too.
PlanTurns ==
  {Response(<<>>, <<p1, p2>>, "keep"),
   Response(<<ViewOf(a2), EditOf(p1)>>, <<p2>>, "open"),
   Response(<<EditOf(p1)>>, <<p1, p2>>, "keep")}

AllTurns == RetrievalTurns \cup EditTurns \cup PlanTurns
=============================================================================
