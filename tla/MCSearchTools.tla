----------------------------- MODULE MCSearchTools -----------------------------
(* Retrieval for TLC: an API of three functions, a DAO function with an      *)
(* embedded query, the view it selects from, and a page that calls the API.  *)
EXTENDS SearchTools

S(file, name, words, called) ==
  [file |-> file, name |-> name, words |-> words, calls |-> called, bases |-> {},
   tables |-> {}, code |-> TRUE, sql |-> "none", parent |-> 0]

MCDecl ==
  <<S("api", "list", {"report"}, {"load"}),
    S("api", "get", {}, {"load"}),
    S("api", "render", {}, {}),
    S("dao", "load", {}, {}),
    [S("dao", "load_sql", {}, {}) EXCEPT
       !.code = FALSE, !.sql = "dml", !.parent = 4, !.tables = {"report"}],
    [S("ddl", "report_view", {"report"}, {}) EXCEPT !.sql = "view", !.tables = {"report"}],
    S("page", "Page", {}, {"list"})>>

MCFiles == {"api", "dao", "ddl", "page"}
MCDomain ==
  [f \in MCFiles |-> IF f = "page" THEN "ui" ELSE IF f = "api" THEN "backend" ELSE "db"]
MCImports == [f \in MCFiles |-> CASE f = "page" -> {"api"} [] f = "api" -> {"dao"} [] OTHER -> {}]

\* In the second version of a file a line was put before its symbols, and the
\* last function of the API is gone.
MCFirst == <<2, 5, 8, 2, 4, 1, 1>>
MCLine ==
  [p \in (1 .. 7) \X (1 .. 2) |-> IF p = <<3, 2>> THEN 0 ELSE MCFirst[p[1]] + p[2] - 1]

L(file, form, words, called) ==
  [file |-> file, form |-> form, words |-> words, calls |-> called, name |-> "app"]

\* Two routes and a handler of the API, the calls in it, its import and a mount;
\* and the application of the page.
MCRest ==
  <<L("api", "route", {"router"}, {}),
    L("api", "text", {}, {"load"}),
    L("api", "route", {"router"}, {}),
    L("api", "text", {}, {"load"}),
    L("api", "handler", {"router"}, {}),
    L("api", "mount", {"router"}, {}),
    L("api", "import", {"load"}, {}),
    L("page", "app", {"router"}, {}),
    L("page", "mount", {"router"}, {}),
    L("page", "text", {"Load"}, {"list"})>>
MCRestAt == <<1, 3, 4, 6, 7, 9, 10, 2, 3, 4>>
MCRestLine == [p \in (1 .. 10) \X (1 .. 2) |-> MCRestAt[p[1]] + p[2] - 1]

MCWords ==
  {"list", "get", "render", "load", "load_sql", "report", "report_view", "Page", "router", "Load"}
MCFolded == [w \in MCWords |-> IF w = "Load" THEN "load" ELSE w]

P(kind, words) == [kind |-> kind, words |-> words]
W(word) == P("word", {word})
R(patterns, path, mode, max) ==
  [patterns |-> patterns, path |-> path, mode |-> mode, caseless |-> FALSE, max |-> max]
MCDirs == [src |-> {"api", "dao"}, site |-> {"page"}]
MCRequests ==
  {R(<<W("load")>>, "src", "default", 2),
   R(<<W("Load")>>, "src", "default", 3),
   [R(<<W("Load")>>, "src", "default", 3) EXCEPT !.caseless = TRUE],
   R(<<W("render")>>, "src", "symbol", 3),
   R(<<W("render")>>, "site", "symbol", 3),
   R(<<W("load")>>, "src", "import", 3),
   R(<<W("load")>>, "api", "default", 3),
   R(<<P("any", {"load", "report"})>>, "src", "structure", 3),
   R(<<P("all", {"load", "report"})>>, "src", "default", 3),
   R(<<P("wiring", {"router"}), P("any", {"load", "render"})>>, "src", "default", 12),
   R(<<P("wiring", {"router"})>>, "site", "structure", 3)}

\* The page is in a hidden directory.
MCStripped == [f \in MCFiles |-> IF f = "page" THEN "no page" ELSE f]

MCTerms == {"report", "list", "view", "select", "code", "sql", "x"}
MCQueries == {{"list"}, {"view", "select"}}
MCAliases == [t \in MCTerms |-> IF t = "list" THEN {"report"} ELSE {}]
MCConcepts == [t \in MCTerms |-> IF t = "report" THEN {"report"} ELSE {}]
MCLayers == [t \in MCTerms |-> IF t = "view" THEN {"sql"} ELSE {}]
MCTopics == [t \in MCTerms |-> IF t = "select" THEN {"sql"} ELSE {}]
MCAnswers ==
  {<<>>,
   [keywords |-> {"list"}, expanded |-> {"code"}, concepts |-> {}, layers |-> {}, domain |-> {}],
   [keywords |-> {}, expanded |-> {}, concepts |-> {}, layers |-> {}, domain |-> {"x"}]}
MCMatching ==
  <<{"list", "report", "code"}, {"code"}, {"code"}, {}, {"sql"}, {"report", "sql", "view"}, {"report"}>>
=============================================================================
