---------------------------- MODULE TinyXmlParser ----------------------------
(***************************************************************************)
(* How TinyXML reads a document (misc/Library/libxmlparser.cpp): a text in *)
(* memory, or what operator>> takes from a stream. The functions call each *)
(* other, down through the elements that are open; each step here is one   *)
(* turn of a loop of theirs. A function that fails returns null, and every *)
(* caller does the same, so that the whole parse ends; an error is kept    *)
(* only if there is none yet. Nodes read before an error stay.             *)
(*                                                                         *)
(* Texts are sequences of the tokens of TinyXmlPrinter. Encodings, the      *)
(* places kept for messages, and entities are left out.                     *)
(***************************************************************************)
EXTENDS TinyXmlPrinter, FiniteSetsExt

CONSTANT MaxNode     \* bound on the nodes of a document

VARIABLES
  input,      \* the text
  condense,   \* condenseWhiteSpace
  p,          \* where the parse is; 0 is null
  open,       \* the elements being read, by their places in doc
  inHead,     \* the last of them is at its attributes
  doc,        \* the nodes there are, in order
  error,
  done

vars == <<input, condense, p, open, inHead, doc, error, done>>

None == "none"
End == Len(input) + 1

Init(text) ==
  /\ input = text
  /\ condense \in BOOLEAN
  /\ p = 1
  /\ open = <<>> /\ inHead = FALSE /\ doc = <<>>
  /\ error = None
  /\ done = FALSE

-----------------------------------------------------------------------------
(* The first place from q on with a token of S, End if there is none.       *)
Find(q, S) == Min({i \in q..Len(input) : input[i] \in S} \cup {End})

(* The text from q to e, or to the end of the input if e is past it.        *)
Upto(q, e) == SubSeq(input, q, Min({e, Len(input)}))

(* SkipWhiteSpace: null if there is nothing, not even a blank, to read.     *)
Skip(q) == IF q \in {0, End} THEN 0 ELSE Find(q, Token \ {Blank})

Past(q) == IF q = End THEN End ELSE q + 1

Up == IF open = <<>> THEN 0 ELSE Last(open)

Link(node) == doc' = IF Len(doc) < MaxNode THEN Append(doc, node) ELSE doc

SetError(e) == error' = IF error = None THEN e ELSE error

(* A function has failed, and with it all those that called it.             *)
Fail(e) ==
  /\ SetError(e)
  /\ p' = 0
  /\ done' = TRUE
  /\ UNCHANGED <<input, condense, open, inHead>>

Stay == UNCHANGED <<input, condense, error, done>>

(* Mistake: blanks at the end of a text are kept, as one.                   *)
Condensed_KeepsLast(s) ==
  FoldLeft(LAMBDA r, t : IF t = Blank /\ r # <<>> /\ Last(r) = Blank THEN r ELSE Append(r, t), <<>>, s)

(* ReadText drops the blanks at both ends and makes each stretch of others  *)
(* one.                                                                     *)
Condensed(s) ==
  LET keep(i) == s[i] # Blank \/ (i > 1 /\ i < Len(s) /\ s[i + 1] # Blank)
      at == SelectSeq([i \in DOMAIN s |-> i], keep)
  IN [i \in DOMAIN at |-> s[at[i]]]

-----------------------------------------------------------------------------
(* Identify and the node's Parse, at a '<' at q.                            *)

OpenElement(q) ==
  \E n \in Name :
    /\ input[q] = Open(n)
    /\ Link(Element(Up, n, <<>>))
    /\ IF q + 1 = End THEN Fail("FAILED_TO_READ_ELEMENT_NAME")
       ELSE /\ p' = q + 1
            /\ open' = Append(open, Len(doc) + 1)
            /\ inHead' = TRUE
            /\ Stay

(* Nothing inside a comment or CDATA section is markup but its end.         *)
Section(q, mark, stop, kind) ==
  /\ input[q] = mark
  /\ LET e == Find(q + 1, {stop})
     IN /\ Link(Leaf(kind, Up, SubSeq(input, q + 1, e - 1)))
        /\ p' = Past(e)
  /\ UNCHANGED <<open, inHead>> /\ Stay

(* Whatever else there is up to the next '>'.                               *)
Unknown(q) ==
  /\ input[q] \in Closes \cup {DtdMark}
  /\ LET e == Find(q, Ends)
     IN /\ Link(Leaf("unknown", Up, Upto(q, e)))
        /\ p' = Past(e)
  /\ UNCHANGED <<open, inHead>> /\ Stay

(* A declaration that does not end gives null: an error only in an element. *)
Declaration(q) ==
  /\ input[q] = XmlMark
  /\ LET e == Find(q, Ends)
     IN /\ Link(Leaf("declaration", Up, SelectSeq(Upto(q, e), LAMBDA t : t \in Pairs)))
        /\ p' = IF e = End THEN 0 ELSE e + 1
  /\ UNCHANGED <<open, inHead>> /\ Stay

Parsed(q) ==
  \/ OpenElement(q)
  \/ Section(q, CommentMark, CommentEnd, "comment")
  \/ Section(q, CDataMark, CDataEnd, "cdata")
  \/ Unknown(q)
  \/ Declaration(q)

(* TiXmlAttribute::Parse and what its caller does with the attribute: one   *)
(* that nothing follows or that the element has already is an error.        *)
ReadAttribute(q, t) ==
  \/ \E k \in Attr :
       /\ t = Pair(k)
       /\ IF q + 1 = End \/ Contains(doc[Up].attrs, k)
            THEN Fail("PARSING_ELEMENT") /\ UNCHANGED doc
            ELSE /\ p' = q + 1
                 /\ doc' = [doc EXCEPT ![Up].attrs = Append(@, k)]
                 /\ UNCHANGED <<open, inHead>> /\ Stay
  \/ /\ t \notin Pairs \cup {Empty, Gt, Slash}
     /\ Fail("READING_ATTRIBUTES")
     /\ UNCHANGED doc

(* TiXmlElement::Parse: attributes, up to "/>" or '>'.                      *)
ReadHead ==
  LET q == Skip(p)
      t == IF q = End THEN Blank ELSE input[q]
  IN /\ ~done /\ inHead
     /\ \/ /\ t = Empty
           /\ p' = q + 1 /\ open' = Front(open) /\ inHead' = FALSE
           /\ UNCHANGED doc /\ Stay
        \/ /\ t = Gt
           /\ p' = q + 1 /\ inHead' = FALSE
           /\ UNCHANGED <<open, doc>> /\ Stay
        \/ t = Slash /\ Fail("PARSING_EMPTY") /\ UNCHANGED doc
        \/ ReadAttribute(q, t)

(* Mistake: a character is given back after every text.                     *)
ReadText_GivesBack(q) ==
  LET e == Find(q, Begins)
      from == IF condense THEN q ELSE p
      s == SubSeq(input, from, e - 1)
  IN /\ input[q] \notin Begins
     /\ Link(Leaf("text", Up, IF condense THEN Condensed(s) ELSE s))
     /\ p' = e - 1
     /\ UNCHANGED <<open, inHead>> /\ Stay

(* TiXmlText::Parse: the text goes up to the next '<', which is given back. *)
(* So is the last character of a text that nothing follows.                 *)
ReadText(q) ==
  LET e == Find(q, Begins)
      from == IF condense THEN q ELSE p
      s == SubSeq(input, from, e - 1)
  IN /\ input[q] \notin Begins
     /\ Link(Leaf("text", Up, IF condense THEN Condensed(s) ELSE s))
     /\ p' = IF e = End THEN End - 1 ELSE e
     /\ UNCHANGED <<open, inHead>> /\ Stay

(* Mistake: any end tag will do.                                            *)
ReadEndTag_AnyName(q) ==
  LET r == Skip(q + 1)
  IN /\ input[q] \in Closes
     /\ UNCHANGED doc
     /\ IF r \notin {0, End} /\ input[r] = Gt
          THEN /\ p' = r + 1
               /\ open' = Front(open)
               /\ UNCHANGED inHead /\ Stay
          ELSE Fail("READING_END_TAG")

(* TiXmlElement::Parse after ReadValue: the end tag must be the element's.  *)
ReadEndTag(q) ==
  LET r == Skip(q + 1)
  IN /\ input[q] \in Closes
     /\ UNCHANGED doc
     /\ IF input[q] = Close(NameOf(doc[Up])) /\ r \notin {0, End} /\ input[r] = Gt
          THEN /\ p' = r + 1
               /\ open' = Front(open)
               /\ UNCHANGED inHead /\ Stay
          ELSE Fail("READING_END_TAG")

(* Mistake: the end of the input is not looked for after ReadValue.         *)
ReadValue_Silent ==
  LET q == Skip(p)
  IN /\ ~done /\ ~inHead /\ open # <<>>
     /\ \/ q \in {0, End} /\ Fail(None) /\ UNCHANGED doc
        \/ /\ q \notin {0, End}
           /\ \/ ReadEndTag(q)
              \/ ReadText(q)
              \/ input[q] \notin Closes /\ Parsed(q)

(* A turn of ReadValue's loop, or what its caller does after the last one.  *)
ReadValue ==
  LET q == Skip(p)
  IN /\ ~done /\ ~inHead /\ open # <<>>
     /\ \/ q = 0 /\ Fail("READING_ELEMENT_VALUE") /\ UNCHANGED doc
        \/ q = End /\ Fail("READING_END_TAG") /\ UNCHANGED doc
        \/ /\ q \notin {0, End}
           /\ \/ ReadEndTag(q)
              \/ ReadText(q)
              \/ input[q] \notin Closes /\ Parsed(q)

(* A turn of the loop of TiXmlDocument::Parse. Text between the elements of *)
(* a document ends it, and is no error.                                     *)
ReadDocument ==
  LET q == Skip(p)
  IN /\ ~done /\ open = <<>>
     /\ IF q \notin {0, End} /\ input[q] \in Begins THEN Parsed(q)
        ELSE /\ done' = TRUE
             /\ SetError(IF doc = <<>> THEN "DOCUMENT_EMPTY" ELSE error)
             /\ UNCHANGED <<input, condense, p, open, inHead, doc>>

Next == ReadHead \/ ReadValue \/ ReadDocument

-----------------------------------------------------------------------------
(* operator>>: StreamIn takes tokens from a stream up to the end of the      *)
(* first element, and only then is what was taken parsed. The end is found  *)
(* by counting tags, whose names are not looked at.                         *)

(* The place past the markup that begins at i. A tag ends with the first    *)
(* '>' after it.                                                            *)
MarkupEnd(in, i) ==
  LET stop == CASE in[i] = CommentMark -> {CommentEnd}
                [] in[i] = CDataMark -> {CDataEnd}
                [] OTHER -> Ends
  IN Min({j \in i..Len(in) : in[j] \in stop} \cup {Len(in)})

(* depth is the number of elements open before i.                           *)
Depth(in, i, j, depth) ==
  IF in[i] \in Opens /\ in[j] # Empty THEN depth + 1
  ELSE IF in[i] \in Closes /\ depth > 0 THEN depth - 1
  ELSE depth

Taken(in) ==
  LET take[i \in 1..Len(in) + 1, depth \in 0..Len(in)] ==
        IF i > Len(in) THEN Len(in)
        ELSE IF in[i] \notin Begins THEN take[i + 1, depth]
        ELSE LET j == MarkupEnd(in, i)
                 now == Depth(in, i, j, depth)
             IN IF now = 0 /\ (in[i] \in Opens \/ depth > 0) THEN j ELSE take[j + 1, now]
  IN SubSeq(in, 1, take[1, 0])
=============================================================================
