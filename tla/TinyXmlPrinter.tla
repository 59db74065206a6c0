---------------------------- MODULE TinyXmlPrinter ----------------------------
(***************************************************************************)
(* How TinyXML writes a document (misc/Library/libxml.cpp): the Print       *)
(* functions, which write to a file, and TiXmlPrinter, which visits the     *)
(* nodes and writes to a string, with or without indents and line breaks.   *)
(*                                                                         *)
(* What is written is a sequence of tokens. A name, an attribute, a stretch *)
(* of text, of white space, each mark is one; the blank that is written     *)
(* before an attribute belongs to it. A document is the sequence of its     *)
(* nodes in the order they are written, each with the place of its parent,  *)
(* 0 for the document itself.                                               *)
(***************************************************************************)
EXTENDS Naturals, Sequences, SequencesExt

CONSTANTS Name,    \* names of elements
          Attr     \* names of attributes

Open(n) == <<"<", n>>          \* an element's mark and name
Close(n) == <<"</", n>>
Pair(k) == <<"=", k>>          \* an attribute and its value
Gt == <<">">>
Empty == <<"/>">>
Slash == <<"/">>
Text == <<"~">>
Blank == <<" ">>
CommentMark == <<"<!--">>
CommentEnd == <<"-->">>
CDataMark == <<"<![CDATA[">>
CDataEnd == <<"]]>">>
DtdMark == <<"<!">>
XmlMark == <<"<?xml">>
XmlEnd == <<"?>">>

Opens == {Open(n) : n \in Name}
Closes == {Close(n) : n \in Name}
Pairs == {Pair(k) : k \in Attr}
Ends == {Gt, Empty, CommentEnd, CDataEnd, XmlEnd}                  \* tokens that end in '>'
Begins == Opens \cup Closes \cup {CommentMark, CDataMark, DtdMark, XmlMark}   \* in '<'
Token == Begins \cup Ends \cup Pairs \cup {Slash, Text, Blank}

NodeOf(kind, up, value, attrs) == [kind |-> kind, up |-> up, value |-> value, attrs |-> attrs]
Element(up, n, attrs) == NodeOf("element", up, <<Open(n)>>, attrs)
Leaf(kind, up, value) == NodeOf(kind, up, value, <<>>)

NameOf(d) == d.value[1][2]     \* of an element

Kids(doc, i) == SelectSeq([j \in DOMAIN doc |-> j], LAMBDA j : doc[j].up = i)

Style == {"file", "string", "stream"}  \* Print; TiXmlPrinter; after SetStreamPrinting

-----------------------------------------------------------------------------
(* A line break and the indent after it.                                    *)
Break(style) == IF style = "stream" THEN <<>> ELSE <<Blank>>

Lone(doc, kids) == Len(kids) = 1 /\ doc[kids[1]].kind = "text"

StartTag(d) == d.value \o [k \in DOMAIN d.attrs |-> Pair(d.attrs[k])]

Printed_Leaf(d) ==
  CASE d.kind = "text" -> d.value
    [] d.kind = "cdata" -> <<CDataMark>> \o d.value \o <<CDataEnd>>
    [] d.kind = "comment" -> <<CommentMark>> \o d.value \o <<CommentEnd>>
    [] d.kind = "declaration" -> <<XmlMark>> \o d.value \o <<XmlEnd>>
    [] OTHER -> d.value

(* Text written to a file follows what comes before it on the same line,    *)
(* unless that is a CDATA section, which ends its line.                     *)
Before(doc, kids, k, style) ==
  IF style = "file" /\ doc[kids[k]].kind = "text" /\ (k = 1 \/ doc[kids[k - 1]].kind # "cdata")
    THEN <<>> ELSE Break(style)

RECURSIVE Printed(_, _, _)
Content(doc, kids, style) ==
  FlattenSeq([k \in DOMAIN kids |->
    Before(doc, kids, k, style) \o Printed(doc, kids[k], style)])

Printed(doc, i, style) ==
  LET kids == Kids(doc, i)
  IN IF doc[i].kind # "element" THEN Printed_Leaf(doc[i])
     ELSE IF kids = <<>> THEN StartTag(doc[i]) \o <<Empty>>
     ELSE StartTag(doc[i]) \o <<Gt>>
            \o (IF Lone(doc, kids) THEN Printed(doc, kids[1], style)
                ELSE Content(doc, kids, style) \o Break(style))
            \o <<Close(NameOf(doc[i])), Gt>>

(* The children of the document, each on a line of its own. (A line break   *)
(* before the first is left out.)                                           *)
PrintDocument(doc, style) ==
  LET kids == Kids(doc, 0)
  IN FlattenSeq([k \in DOMAIN kids |-> Printed(doc, kids[k], style) \o Break(style)])
=============================================================================
