--------------------------- MODULE MCContextStore ---------------------------
(* ContextStore for TLC: two files, one of them with two symbols.           *)
EXTENDS ContextStore, TLC

CONSTANTS f, g, a, b, c, short, long

MCLayout == f :> <<a, b>> @@ g :> <<c>>
MCSize == short :> 2 @@ long :> 3
=============================================================================
