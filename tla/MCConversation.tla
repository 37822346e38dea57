--------------------------- MODULE MCConversation ---------------------------
(* One retrieval tool and the edit tool.  The responses have rounds of one to four  *)
(* calls, so that a fold cuts between rounds and inside of one; the texts have one  *)
(* form of each way to write a call, well or badly.                                  *)
EXTENDS Conversation

View == "view_symbol_code"
MCTools == {View, Edit}
MCRetrieval == {View}
MCOffers == {{View}, {View, Edit}}

Seg(form) == [form |-> form, tool |-> View]
Prose == <<[form |-> "prose", tool |-> "none"], Seg("dsml_cut")>>
Blocks == <<Seg("dsml"), Seg("xml"), Seg("invoke")>>
MCTexts ==
  {Prose, Blocks,
   <<Seg("nameless"), Seg("call"), Seg("xml_cut")>>,
   <<[form |-> "bare", tool |-> Edit]>>}

MCResponses ==
  {<<<<>>, t>> : t \in MCTexts \ {Blocks}}
    \cup {<<<<Edit, View>>, Prose>>, <<<<View, View>>, Blocks>>}
=============================================================================
