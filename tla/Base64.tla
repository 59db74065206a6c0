-------------------------------- MODULE Base64 --------------------------------
(***************************************************************************)
(* base64 of misc/xmlrpc/base64.h: put, which writes bytes as characters,   *)
(* and get, which reads them; XmlRpcValue writes and reads its binary data  *)
(* with them. A character is what _getCharType makes of it: 0 to 63, Equal, *)
(* or Unknown.                                                              *)
(***************************************************************************)
EXTENDS Integers, Sequences, SequencesExt

Equal == -1
Unknown == -2
LineGroups == 18       \* groups of a line

(* three2four: a group of three bytes as four characters.                   *)
b64(d) == <<d[1] \div 4, (d[1] % 4) * 16 + (d[2] \div 16), (d[2] % 16) * 4 + d[3] \div 64, d[3] % 64>>

bytes(c) == <<c[1] * 4 + c[2] \div 16, (c[2] % 16) * 16 + c[3] \div 4, (c[3] % 4) * 64 + c[4]>>

(* Mistake: two bytes that are left are written as one.                      *)
group_TwoEquals(data, g) ==
  LET d == SubSeq(data, 3 * g - 2, Len(data))
  IN CASE Len(d) < 3 -> SubSeq(b64(d \o <<0, 0>>), 1, 2) \o <<Equal, Equal>>
       [] OTHER -> b64(d)

(* The g-th group of the data, the last of which may lack bytes. A line of  *)
(* whole groups ends with '\n'.                                             *)
group(data, g) ==
  LET d == SubSeq(data, 3 * g - 2, Len(data))
  IN CASE Len(d) = 1 -> SubSeq(b64(d \o <<0, 0>>), 1, 2) \o <<Equal, Equal>>
       [] Len(d) = 2 -> SubSeq(b64(d \o <<0>>), 1, 3) \o <<Equal>>
       [] OTHER -> b64(d) \o (IF g % LineGroups = 0 THEN <<Unknown>> ELSE <<>>)

put(data) == FlattenSeq([g \in 1..(Len(data) + 2) \div 3 |-> group(data, g)])

(* The place of the next character from i on that is not Unknown.           *)
known(text, i) ==
  LET next == SelectInSubSeq(text, i, Len(text), LAMBDA c : c # Unknown)
  IN IF next = 0 THEN Len(text) + 1 ELSE next

(* What _St tells is what the caller does not look at; what was read so far *)
(* is kept, but for a group that breaks off. '=' ends the reading.          *)
get(text) ==
  LET ended(r) == [r EXCEPT !.i = 0]
      r[n \in 0..Len(text)] ==
        IF n = 0 THEN [data |-> <<>>, i |-> 1]
        ELSE LET q == r[n - 1]
                 p1 == known(text, q.i)
                 p2 == known(text, p1 + 1)
                 p3 == known(text, p2 + 1)
                 p4 == known(text, p3 + 1)
             IN IF q.i = 0 THEN q
                ELSE IF p3 > Len(text) \/ text[p1] = Equal \/ text[p2] = Equal THEN ended(q)
                ELSE IF text[p3] = Equal THEN
                  [data |-> q.data \o SubSeq(bytes(<<text[p1], text[p2], 0, 0>>), 1, 1), i |-> 0]
                ELSE IF p4 > Len(text) THEN ended(q)
                ELSE IF text[p4] = Equal THEN
                  [data |-> q.data \o SubSeq(bytes(<<text[p1], text[p2], text[p3], 0>>), 1, 2), i |-> 0]
                ELSE [data |-> q.data \o bytes(<<text[p1], text[p2], text[p3], text[p4]>>), i |-> p4 + 1]
  IN r[Len(text)].data

binaryToXml(data) == put(data)

(* The value, whatever get has to say of it.                                *)
binaryFromXml(text) == get(text)

-----------------------------------------------------------------------------
(* Data are read as they were written, also if the text was broken into     *)
(* lines elsewhere; and of a text that breaks off, what is before the group *)
(* that does.                                                               *)
DataArrive(data) ==
  LET text == binaryToXml(data)
  IN /\ binaryFromXml(text) = data
     /\ Len(text) < 16 =>
          /\ \A i \in 0..Len(text) :
               binaryFromXml(SubSeq(text, 1, i) \o <<Unknown>> \o SubSeq(text, i + 1, Len(text))) = data
          /\ \A i \in 0..Len(text) - 1 :
               LET got == binaryFromXml(SubSeq(text, 1, i))
               IN IsPrefix(got, data) /\ Len(got) >= 3 * (i \div 4)
=============================================================================
