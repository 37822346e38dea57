---------------------------- MODULE MCEditPlan ----------------------------
(***************************************************************************)
(* EditPlan on four changes.  The caps are small, so that calls and plans  *)
(* exceed them: a call is split by three symbols at most, with one clause  *)
(* after the first, and a card lists one step besides the failed one.      *)
(* The step that a split makes of d has the intent of the call itself.     *)
(***************************************************************************)
EXTENDS EditPlan

CONSTANTS a, b, c, d

MCWork == {a, b, c, d}
MCKeys == {"a", "b", "c", "all"}
MCPartKey == (a :> "a") @@ (b :> "b") @@ (c :> "c") @@ (d :> "all")

Step(key, work, symbols, heavy) ==
  [key |-> key, work |-> work, symbols |-> symbols, heavy |-> heavy,
   shown |-> TRUE, named |-> TRUE]

Plain(x) == Step("b", <<x>>, 1, FALSE)

\* One change; two or three symbols with an intent that is split; more symbols
\* than a call is split by; the clauses of an intent; one symbol listed twice.
MCCalls ==
  {Step("a", <<a>>, 1, FALSE), Plain(b), Step("all", <<a, b>>, 2, TRUE),
   Step("all", <<a, d>>, 2, TRUE),
   Step("all", <<a, b, c>>, 3, FALSE), Step("all", <<a, b, c, d>>, 4, FALSE),
   Step("all", <<a, b>>, 1, TRUE), Step("all", <<a, b, c>>, 1, TRUE),
   Step("all", <<a, b, b>>, 3, FALSE)}

\* Items that are one change, two, too many, without context or without intent.
MCItems ==
  {Step("a", <<a>>, 1, FALSE), Plain(c), Step("b", <<c, d>>, 2, FALSE),
   Step("all", <<a, b, d>>, 3, TRUE),
   [Plain(d) EXCEPT !.shown = FALSE], [Plain(d) EXCEPT !.named = FALSE]}

SeqsUpTo(S, n) == UNION {[1 .. k -> S] : k \in 0 .. n}

MCTurns ==
  [calls : SeqsUpTo(MCCalls, 2), plan : SeqsUpTo(MCItems, 1)]
  \cup [calls : SeqsUpTo(MCCalls, 1),
        plan : {<<Plain(b), Plain(c), Plain(d)>>, <<Plain(c), Plain(b)>>,
                <<Step("a", <<a>>, 1, FALSE), Plain(c), Plain(d)>>}]
=============================================================================
