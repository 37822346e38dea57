----------------------------- MODULE TextCalls -----------------------------
(***************************************************************************)
(* Tool calls that a model writes into the text of its response, instead of *)
(* using the interface for them: src/src/llm/dsml.py.  The client takes the *)
(* calls out of the text, with the tools of the step as known names; the    *)
(* loop then looks for markup that is left, with the names of all its tools.*)
(*                                                                          *)
(* A text is a sequence of segments, each prose or markup of some form.  A  *)
(* form with _cut is opened and never closed, because the model stopped: it *)
(* is the last of its text.                                                 *)
(***************************************************************************)
EXTENDS Integers, FiniteSets, Sequences, SequencesExt, Selections

CONSTANTS
  Tools,   \* ASSEMBLED_TOOL_NAMES
  Texts    \* texts of responses

\* dsml, xml: a block around an invoke; invoke, call: without the block;
\* function: with a tool name inside, nameless: without one; bare: a tag with the
\* name of a tool.
Forms ==
  {"prose", "dsml", "dsml_cut", "xml", "xml_cut", "invoke", "invoke_cut", "call",
   "function", "nameless", "bare", "bare_cut"}

Cut == {"dsml_cut", "xml_cut", "invoke_cut", "bare_cut"}

ASSUME TextCallsAssumption ==
  /\ Tools \subseteq STRING
  /\ Texts \subseteq Seq([form : Forms, tool : STRING])
  /\ \A t \in Texts : \A i \in DOMAIN t :
       /\ t[i].form \in {"bare", "bare_cut"} => t[i].tool \in Tools
       /\ t[i].form \in Cut => i = Len(t)

Of(t, forms) == Only(t, {s \in ToSet(t) : s.form \in forms})

\* The segments that are taken for calls: those of the first way of writing calls
\* that is found.  Blocks of both kinds count together.
CallSegments(t, offered) ==
  LET ways  == <<Of(t, {"dsml"}) \o Of(t, {"xml"}), Of(t, {"invoke"}), Of(t, {"function"}),
                 Only(t, {s \in ToSet(t) : s.form = "bare" /\ s.tool \in offered})>>
      found == {i \in DOMAIN ways : ways[i] # <<>>}
  IN  IF found = {} THEN <<>> ELSE ways[CHOOSE i \in found : \A j \in found : i <= j]

TextCallsOf(t, offered) ==
  LET found == CallSegments(t, offered)
  IN  [i \in DOMAIN found |-> found[i].tool]

\* split_dsml_tool_calls: what is left of the text.  Tags of DSML go even when they
\* are no call; the other forms stay unless a call was found.
Cleaned(t, offered) ==
  LET found == CallSegments(t, offered)
      bare  == {found[i].tool : i \in {j \in DOMAIN found : found[j].form = "bare"}}
  IN  Only(t, {s \in ToSet(t) :
        /\ s.form \notin {"dsml", "dsml_cut"}
        /\ found # <<>> => s.form \notin {"xml", "invoke", "call", "function", "nameless"}
        /\ s.form = "bare" => s.tool \notin bare})

\* Mutation of HasMarkup: only the tools of the step are looked for.
HasMarkupOffered(t, offered) ==
  \E i \in DOMAIN t :
    t[i].form # "prose" /\ (t[i].form \in {"bare", "bare_cut"} => t[i].tool \in offered)

\* contains_tool_call_markup, with the names of all tools whatever the step offers
HasMarkup(t, offered) ==
  \E i \in DOMAIN t :
    t[i].form # "prose" /\ (t[i].form \in {"bare", "bare_cut"} => t[i].tool \in Tools)
=============================================================================
