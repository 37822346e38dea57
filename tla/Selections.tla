----------------------------- MODULE Selections -----------------------------
(***************************************************************************)
(* The comprehensions of the code over lists: what of a list is kept.       *)
(***************************************************************************)
EXTENDS Naturals, Sequences

\* The members of q that are in S, in their order.
Only(q, S) ==
  LET kept[n \in 0 .. Len(q)] ==
        IF n = 0 THEN <<>>
        ELSE IF q[n] \in S THEN Append(kept[n - 1], q[n])
        ELSE kept[n - 1]
  IN  kept[Len(q)]

\* The members of q at the places in P, in their order.
OnlyAt(q, P) ==
  LET places == Only([n \in DOMAIN q |-> n], P)
  IN  [n \in DOMAIN places |-> q[places[n]]]
=============================================================================
