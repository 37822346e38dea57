------------------------- MODULE MCEvidenceManifest -------------------------
(* EvidenceManifest for TLC: an entry file, a handler file with a method in  *)
(* a large class, and a schema.                                              *)
EXTENDS EvidenceManifest, TLC

CONSTANTS main, api, sql, create_app, run, cls, method, helper, t, u

Def(s, first, last) ==
  [sym |-> s, first |-> first, last |-> last, schema |-> FALSE, mount |-> FALSE]
Mount(s, first, last) == [Def(s, first, last) EXCEPT !.mount = TRUE]
Table(s, first, last) == [Def(s, first, last) EXCEPT !.schema = TRUE]

\* The second layouts: the mount is written, the class shrinks and its method
\* moves to where the helper was, a table is added before the other.
MCLayouts ==
  main :> <<{Def(create_app, 1, 13), Def(run, 15, 16)},
            {Mount(create_app, 1, 14), Def(run, 16, 29)}>>
  @@ api :> <<{Def(cls, 1, 60), Def(method, 10, 20), Def(helper, 62, 66)},
              {Def(helper, 1, 5), Def(cls, 7, 46), Def(method, 16, 20)}>>
  @@ sql :> <<{Table(t, 1, 5)}, {Table(u, 1, 2), Table(t, 4, 8)}>>

MCLayer == main :> "entry" @@ api :> "handler" @@ sql :> "other"
=============================================================================
