------------------------------ MODULE MCTinyXml ------------------------------
(***************************************************************************)
(* TinyXmlParser on what TinyXmlPrinter writes: whole documents, documents  *)
(* that lost a token or had one replaced, documents that break off, and the *)
(* first of two documents in a stream.                                      *)
(***************************************************************************)
EXTENDS TinyXmlParser, TLC

CONSTANTS DocNodes,    \* bound on the nodes of a document
          Edited       \* bound on the nodes of one that is changed

VARIABLE wrote         \* the document, how it was written, and how it was changed

mcvars == <<vars, wrote>>

-----------------------------------------------------------------------------
Elements == {Element(0, "a", <<>>), Element(0, "b", <<"k", "j">>)}
Leaves == {Leaf("text", 0, <<Text>>), Leaf("cdata", 0, <<Open("a")>>), Leaf("comment", 0, <<Text, Gt>>),
           Leaf("unknown", 0, <<DtdMark, Gt>>), Leaf("declaration", 0, <<Pair("k")>>)}

(* Where a node may be put after all others: below the document, the last   *)
(* element, or one that it is in. Text is in an element, and not next to    *)
(* other text.                                                              *)
Places(d) ==
  LET around[i \in 0..Len(d)] == IF i = 0 THEN {0} ELSE {i} \cup around[d[i].up]
  IN around[IF d = <<>> THEN 0 ELSE IF Last(d).kind = "element" THEN Len(d) ELSE Last(d).up]

AfterText(d, u) == LET kids == Kids(d, u) IN kids # <<>> /\ d[Last(kids)].kind = "text"

Fits(d, n) == n.kind = "text" => n.up # 0 /\ ~AfterText(d, n.up)

Grown(d) ==
  {Append(d, n) : n \in {m \in {[e EXCEPT !.up = u] : e \in Elements \cup Leaves, u \in Places(d)} : Fits(d, m)}}

(* By the number of nodes.                                                  *)
Documents ==
  LET of[k \in 0..DocNodes] == IF k = 0 THEN {<<>>} ELSE UNION {Grown(d) : d \in of[k - 1]}
  IN of

Edits(s) ==
  {[how |-> "dropped", text |-> RemoveAt(s, i)] : i \in DOMAIN s}
    \cup {[how |-> "cut", text |-> SubSeq(s, 1, i) \o b] : i \in 0..Len(s) - 1, b \in {<<>>, <<Blank>>}}
    \cup {[how |-> "replaced", text |-> ReplaceAt(s, i, t)] : i \in DOMAIN s, t \in {Gt, Slash, Text, Open("a"), Close("b"), Pair("j"), CommentMark}}

Streamed == {d \in Documents[Edited] : d[Last(Kids(d, 0))].kind = "element"
                                        /\ \A i \in DOMAIN Front(Kids(d, 0)) : d[Kids(d, 0)[i]].kind # "element"}

Chosen ==
  \/ \E k \in 0..DocNodes : \E d \in Documents[k], style \in Style :
       wrote = [doc |-> d, style |-> style, how |-> "whole", text |-> PrintDocument(d, style)]
  \/ \E k \in 1..Edited : \E d \in Documents[k] : \E e \in Edits(PrintDocument(d, "stream")) :
       wrote = [doc |-> d, style |-> "stream", how |-> e.how, text |-> e.text]
  \/ \E d \in Streamed, style \in Style, more \in Documents[1] :
       wrote = [doc |-> d, style |-> style, how |-> "streamed",
                text |-> Taken(PrintDocument(d, style) \o PrintDocument(more, style))]

MCInit == Chosen /\ Init(wrote.text)

MCNext == Next /\ UNCHANGED wrote

Spec == MCInit /\ [][MCNext]_mcvars /\ WF_mcvars(MCNext)

-----------------------------------------------------------------------------
(* What a text of a document of more than text is written between.          *)
Mixed(d) == \E i \in DOMAIN d : d[i].kind = "text" /\ Len(Kids(d, d[i].up)) > 1

(* A document that is written and read again is the same, and so is the     *)
(* first of two in a stream; if blanks are kept, unless the line breaks     *)
(* the printer puts between nodes have become part of a text.               *)
RoundTrip ==
  done /\ wrote.how \in {"whole", "streamed"} /\ (condense \/ wrote.style = "stream" \/ ~Mixed(wrote.doc))
    => doc = wrote.doc /\ (error = None <=> doc # <<>>)

(* Without blanks, and with a start tag and the end tag that follows it     *)
(* made one.                                                                *)
Canonical(text) ==
  LET s == SelectSeq(text, LAMBDA t : t # Blank)
      emptied(i) == i \in 3..Len(s) /\ s[i] \in Closes /\ s[i - 1] = Gt /\ s[i - 2] \in Opens \cup Pairs
      at == SelectSeq([i \in DOMAIN s |-> i], LAMBDA i : ~emptied(i) /\ ~emptied(i - 1))
  IN [i \in DOMAIN at |-> IF emptied(at[i] + 1) THEN Empty ELSE s[at[i]]]

(* A text that is read without an error is what the nodes that were read    *)
(* are written as, up to where the reading stopped; only a last mark, which *)
(* a document may lack, is supplied. No attribute is given twice.           *)
ReadsAll ==
  done /\ error = None =>
    /\ \A i \in DOMAIN doc : IsInjective(doc[i].attrs)
    /\ (\A i \in DOMAIN doc : doc[i].kind # "declaration") =>
       \E tail \in {<<>>, <<Gt>>, <<CommentEnd>>, <<CDataEnd>>} :
         Canonical(SubSeq(input, 1, (IF p = 0 THEN End ELSE p) - 1) \o tail)
           = Canonical(PrintDocument(doc, "stream"))

(* A single element that breaks off.                                         *)
BreaksOff == wrote.how = "cut" /\ Len(Kids(wrote.doc, 0)) = 1 /\ wrote.doc[1].kind = "element"

CutReported == done /\ BreaksOff => error # None

(* A text is read without an error only if it is read whole.                *)
ErrorsReported == ReadsAll /\ CutReported

(* A text at the end of the input is being read.                            *)
TextLast == ~done /\ ~inHead /\ open # <<>> /\ p \notin {0, End} /\ Find(p, Begins) = End /\ Last(input) # Blank

(* Every parse ends, but one that comes to a text with nothing after it.    *)
ParseEnds == <>(done \/ TextLast)

(* An element whose end tag is missing is reported.                         *)
MissingEndTagReported == BreaksOff ~> error # None

TypeOK ==
  /\ p \in 0..End
  /\ error \in STRING
  /\ \A i \in DOMAIN doc : doc[i].up < i
=============================================================================
