---------------------------- MODULE MCXmlDocument ----------------------------
(* Every text of up to four tokens, and every text that one token less, one    *)
(* more or one other makes of an answer: a header, a declaration, and a zone of *)
(* two players.                                                                *)
EXTENDS XmlDocument

CONSTANTS MaxLength

T(kind, name, attrs) == [kind |-> kind, name |-> name, attrs |-> attrs]
Txt == T("text", "", << >>)
Comment == T("comment", "", << >>)
Player == T("open", "P", <<"uuid">>)

CData == T("cdata", "", << >>)

Tokens == {Txt, CData, Comment, Player, T("cut", "", << >>), T("cutCdata", "", << >>), T("stray", "", << >>),
           T("open", "P", << >>), T("open", "P", <<"uuid", "uuid">>), T("empty", "P", <<"uuid">>),
           T("close", "P", << >>), T("open", "Z", << >>), T("close", "Z", << >>)}

Answer == <<Txt, Comment, T("open", "Z", << >>), Player, Txt, T("close", "P", << >>), Player, Txt,
            T("close", "P", << >>), T("close", "Z", << >>)>>

Changed == {RemoveAt(Answer, i) : i \in DOMAIN Answer}
    \cup {ReplaceAt(Answer, i, t) : i \in DOMAIN Answer, t \in Tokens}
    \cup {InsertAt(Answer, i, t) : i \in 1 .. Len(Answer) + 1, t \in Tokens}

MCDocuments == {doc \in UNION {[1 .. n -> Tokens] : n \in 0 .. MaxLength} \cup Changed :
    \A i \in 2 .. Len(doc) : ~(doc[i].kind = "text" /\ doc[i - 1].kind = "text")}

MCPath == <<"Z", "P">>
==============================================================================
