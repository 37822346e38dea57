----------------------------- MODULE MCEditTurn -----------------------------
(***************************************************************************)
(* Instances of EditTurn: files of at most five lines.  f and g open two    *)
(* functions, a and b are lines of a body, b much like a; A is a indented   *)
(* deeper, u is b with an escaped character, t is a statement of the module.*)
(***************************************************************************)
EXTENDS EditTurn

MCLines == {"f", "g", "a", "b", "A", "u", "t", "sep"}
MCSqueeze == [l \in MCLines |-> IF l = "A" THEN "a" ELSE l]
MCFold == [l \in MCLines |-> CASE l = "A" -> "a" [] l = "u" -> "b" [] OTHER -> l]
MCDepth == [l \in MCLines |-> CASE l \in {"a", "b", "u"} -> 1 [] l = "A" -> 2 [] OTHER -> 0]
MCSymbols == {"F", "G", "F2", "X", "Y"}
MCDefines == [l \in MCLines |-> CASE l = "f" -> "F" [] l = "g" -> "G" [] OTHER -> "none"]
MCNearName == [s \in MCSymbols |-> IF s = "F2" THEN "F" ELSE "none"]
MCPartOf == {<<"t", "a">>, <<"t", "A">>}
\* As SequenceMatcher rates lines like "    total = x + 10" (a) and "total = x" (t).
MCLikeness ==
  [p \in MCLines \X MCLines |->
     LET both == {p[1], p[2]}
     IN CASE p[1] = p[2] -> 100
          [] both = {"a", "A"} -> 90
          [] both \in {{"a", "b"}, {"b", "u"}} -> 84
          [] both = {"a", "u"} -> 79
          [] both = {"b", "A"} -> 76
          [] both = {"A", "u"} -> 72
          [] both = {"a", "t"} -> 67
          [] both \in {{"b", "t"}, {"A", "t"}, {"u", "t"}} -> 58
          [] both = {"f", "g"} -> 50
          [] both \cap {"f", "t"} # {} -> 27
          [] OTHER -> 15]

MCFiles == {"m", "n"}
MCTexts ==
  {[m |-> text, n |-> <<"g", "b">>] :
     text \in {<<"f", "a", "b", "g", "u">>, <<"f", "a", "b", "g", "a">>,
               <<"f", "a", "A">>, <<"t">>, <<>>}}
MCUserTexts == {<<"t", "f", "b">>}

MCCall(spans, focus, otherSpans) ==
  [file |-> "m", spans |-> spans, focus |-> focus, cached |-> <<<<1, 2>>>>,
   other |-> "n", otherSpans |-> otherSpans]

MCCalls ==
  {MCCall(<<<<1, 3>>>>, <<"F">>, <<>>),
   MCCall(<<<<2, 2>>>>, <<"F2">>, <<>>),
   MCCall(<<<<1, 4>>, <<2, 3>>>>, <<"F", "G">>, <<>>),
   MCCall(<<<<4, 7>>>>, <<"G", "X">>, <<<<1, 2>>>>),
   MCCall(<<<<1, 4>>, <<4, 5>>>>, <<"F", "F", "G">>, <<<<1, 2>>>>),
   MCCall(<<>>, <<"X">>, <<<<1, 2>>>>),
   MCCall(<<>>, <<"F", "X", "Y">>, <<<<1, 2>>>>)}

Site(symbol, span, mode, anchor, body) ==
  [symbol |-> symbol, span |-> span, mode |-> mode, anchor |-> anchor, body |-> body]

Sites(file, sites) == [file |-> file, sites |-> sites, blocks |-> <<>>]
Ready(file, blocks) == [file |-> file, sites |-> <<>>, blocks |-> blocks]

Places == {<<"F", NoSpan>>, <<"G", NoSpan>>, <<"X", NoSpan>>, <<"none", NoSpan>>,
           <<"none", <<2, 3>>>>, <<"none", <<9, 9>>>>}

Replacing ==
  {Site(p[1], p[2], "none", "noline", body) :
     p \in Places,
     body \in {<<>>, <<"f", "b">>, <<"f", "b", "b">>, <<"f", "a", "b", "u">>, <<"A", "b">>,
               <<"f", "a", "b", "sep", "f", "u", "b">>, <<"g", "b">>, <<"f", "f">>,
               <<"b">>}}

Anchored ==
  {Site(p[1], p[2], m[1], m[2], body) :
     p \in Places, body \in {<<"b">>, <<"a", "u">>},
     m \in {<<"after", "a">>, <<"before", "b">>, <<"swap", "a">>, <<"swap", "f">>,
            <<"none", "t">>, <<"unknown", "a">>}}

Pairs ==
  {<<Site("F", NoSpan, "none", "noline", <<"f", "b", "u">>),
     Site("G", NoSpan, m, "a", <<"b">>)>> : m \in {"none", "swap"}}
  \cup {<<Site("none", NoSpan, "after", "f", <<"u">>),
          Site("none", NoSpan, "before", "u", <<"f", "a">>)>>,
        <<Site("F", NoSpan, "none", "noline", <<"f", "b">>),
          Site("none", <<2, 3>>, "none", "noline", <<"b", "u">>)>>}

MCAnswers ==
  {Sites("m", <<s>>) : s \in Replacing \cup Anchored}
  \cup {Sites("m", p) : p \in Pairs}
  \cup {Sites("n", <<Site("none", NoSpan, "none", "noline", <<"g", "u">>)>>)}
  \cup {Ready("m", b) :
          b \in {<<Block(<<>>, <<"t">>)>>,
                 <<Block(<<"a">>, <<"u">>), Block(<<"a">>, <<"b">>)>>,
                 <<Block(<<"f", "a", "b">>, <<"t">>)>>,
                 <<Block(<<"a">>, <<"b">>), Block(<<"b">>, <<"a">>), Block(<<"u">>, <<"u">>),
                   Block(<<"g">>, <<"f">>)>>}}
=============================================================================
