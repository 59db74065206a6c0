----------------------------- MODULE TinyXmlText -----------------------------
(***************************************************************************)
(* The characters of a text or of an attribute's value in TinyXML: how      *)
(* EncodeString writes them (misc/Library/libxml.cpp), what LoadFile makes  *)
(* of line breaks, and how ReadText reads them, with GetChar and GetEntity  *)
(* (libxmlparser.cpp). A string is a sequence of bytes.                     *)
(***************************************************************************)
EXTENDS Integers, Sequences, SequencesExt

Amp == 38
Hash == 35
X == 120
Semicolon == 59
Lt == 60
Space == 32
CR == 13
LF == 10

Entity == << [chr |-> Amp, str |-> <<Amp, 97, 109, 112, Semicolon>>],
             [chr |-> Lt, str |-> <<Amp, 108, 116, Semicolon>>],
             [chr |-> 62, str |-> <<Amp, 103, 116, Semicolon>>],
             [chr |-> 34, str |-> <<Amp, 113, 117, 111, 116, Semicolon>>],
             [chr |-> 39, str |-> <<Amp, 97, 112, 111, 115, Semicolon>>] >>

At(s, i, t) == IsPrefix(t, SubSeq(s, i, Len(s)))       \* t is in s at i

Suffix(s, i) == SubSeq(s, i, Len(s))

Hex(d) == IF d < 10 THEN 48 + d ELSE 55 + d

IsReference(s, i) == At(s, i, <<Amp, Hash, X>>)

(* One character, which is not the '&' of a hexadecimal reference.          *)
Encoded(c) ==
  LET e == SelectInSeq(Entity, LAMBDA r : r.chr = c)
  IN IF e # 0 THEN Entity[e].str
     ELSE IF c < 32 THEN <<Amp, Hash, X, Hex(c \div 16), Hex(c % 16), Semicolon>>
     ELSE <<c>>

(* What looks like a reference is passed through, up to its ';' or to the   *)
(* last character.                                                          *)
RECURSIVE EncodeString(_)
EncodeString(s) ==
  LET semicolon == SelectInSeq(Tail(s), LAMBDA c : c = Semicolon)
      past == IF semicolon = 0 THEN Len(s) - 1 ELSE semicolon
  IN IF s = <<>> THEN <<>>
     ELSE IF IsReference(s, 1) THEN SubSeq(s, 1, past) \o EncodeString(Suffix(s, past + 1))
     ELSE Encoded(s[1]) \o EncodeString(Tail(s))

(* CR LF, and CR alone, become LF.                                          *)
Normalized(s) ==
  LET kept == SelectSeq([i \in DOMAIN s |-> i], LAMBDA i : ~(i > 1 /\ s[i] = LF /\ s[i - 1] = CR))
  IN [i \in DOMAIN kept |-> IF s[kept[i]] = CR THEN LF ELSE s[kept[i]]]

-----------------------------------------------------------------------------
(* Mistake: the bytes after the first lack their mark.                      *)
ConvertUTF32ToUTF8_Unmarked(ucs) == IF ucs < 128 THEN <<ucs>> ELSE <<192 + ucs \div 64, ucs % 64>>

(* Greater values are left out.                                             *)
ConvertUTF32ToUTF8(ucs) ==
  LET low(k) == 128 + ((ucs \div (64 ^ k)) % 64)
  IN IF ucs < 128 THEN <<ucs>>
     ELSE IF ucs < 2048 THEN <<192 + ucs \div 64, low(0)>>
     ELSE <<224 + ucs \div 4096, low(1), low(0)>>

Digit(c, base) ==
  CASE c \in 48..57 -> c - 48
    [] base = 16 /\ c \in 97..102 -> c - 87
    [] base = 16 /\ c \in 65..70 -> c - 55
    [] OTHER -> -1

(* What was read, and what is next: 0 when there is nothing to go on with.  *)
Got(value, next) == [value |-> value, next |-> next]
Lost == Got(<<>>, 0)

(* The ';' may be anywhere, and the digits are those back to the nearest x. *)
Reference(s, p, utf8) ==
  LET hex == p + 2 <= Len(s) /\ s[p + 2] = X
      base == IF hex THEN 16 ELSE 10
      mark == IF hex THEN X ELSE Hash
      semicolon == SelectInSubSeq(s, p + (IF hex THEN 3 ELSE 2), Len(s), LAMBDA c : c = Semicolon)
      start == SelectLastInSubSeq(s, p, semicolon, LAMBDA c : c = mark) + 1
      ucs == FoldLeft(LAMBDA n, c : n * base + Digit(c, base), 0, SubSeq(s, start, semicolon - 1))
  IN IF semicolon = 0 THEN Lost
     ELSE IF \E i \in start..semicolon - 1 : Digit(s[i], base) = -1 THEN Lost
     ELSE Got(IF utf8 THEN ConvertUTF32ToUTF8(ucs) ELSE <<ucs % 256>>, semicolon + 1)

(* An '&' that is neither is dropped: its length was left 0.                *)
GetEntity(s, p, utf8) ==
  LET e == SelectInSeq(Entity, LAMBDA r : At(s, p, r.str))
  IN IF At(s, p, <<Amp, Hash>>) /\ p + 2 <= Len(s) THEN Reference(s, p, utf8)
     ELSE IF e # 0 THEN Got(<<Entity[e].chr>>, p + Len(Entity[e].str))
     ELSE Got(<<>>, p + 1)

(* Bytes of a sequence that breaks off are left out of the model.           *)
GetChar(s, p, utf8) ==
  IF utf8 /\ s[p] >= 194 THEN Got(SubSeq(s, p, p + 1), p + 2)
  ELSE IF s[p] = Amp THEN GetEntity(s, p, utf8)
  ELSE Got(<<s[p]>>, p + 1)

IsWhiteSpace(c) == c \in 9..13 \cup {Space}

SkipWhiteSpace(s, p) == LET next == SelectInSubSeq(s, p, Len(s), LAMBDA c : ~IsWhiteSpace(c))
                        IN IF next = 0 THEN Len(s) + 1 ELSE next

(* With blanks kept, or condensed to single spaces between characters. Read *)
(* are the text and where it went on; 0 if a reference could not be read.   *)
ReadText(s, keep, endTag, utf8) ==
  LET start == IF keep THEN 1 ELSE SkipWhiteSpace(s, 1)
      r[k \in 0..Len(s)] ==
        IF k = 0 THEN [text |-> <<>>, blank |-> FALSE, p |-> start]
        ELSE LET q == r[k - 1]
             IN IF q.p \notin DOMAIN s \/ s[q.p] = endTag THEN q
                ELSE IF ~keep /\ IsWhiteSpace(s[q.p]) THEN [q EXCEPT !.blank = TRUE, !.p = @ + 1]
                ELSE LET c == GetChar(s, q.p, utf8)
                     IN [text |-> q.text \o (IF q.blank THEN <<Space>> ELSE <<>>) \o c.value,
                         blank |-> FALSE, p |-> c.next]
  IN [text |-> r[Len(s)].text, p |-> IF r[Len(s)].p = 0 THEN 0 ELSE r[Len(s)].p + 1]

-----------------------------------------------------------------------------
Condensed(s) ==
  SelectSeq([i \in DOMAIN s |-> IF \A j \in 1..i : s[j] = Space THEN 0
                                ELSE IF s[i] = Space /\ (i = Len(s) \/ s[i + 1] = Space) THEN 0 ELSE s[i]],
            LAMBDA c : c # 0)

(* The written form ends where the reader looks for its end.                *)
Arrived(s, keep, endTag, utf8) ==
  LET t == Normalized(EncodeString(s)) \o <<endTag>>
      got == ReadText(t, keep, endTag, utf8)
  IN got.text = (IF keep THEN s ELSE Condensed(s)) /\ got.p = Len(t) + 1

(* A value is read as it was written, and a text but for its spaces, if     *)
(* there is no "&#x" in it. (One that was read from "&amp;#x" has it, and   *)
(* is read again as another text, or as none: then the reading ends.)       *)
TextArrives(s, utf8) ==
  (\A i \in DOMAIN s : ~IsReference(s, i)) =>
    Arrived(s, TRUE, 34, utf8) /\ Arrived(s, TRUE, Lt, utf8) /\ Arrived(s, FALSE, Lt, utf8)

(* The character that bytes of UTF-8 are.                                   *)
Decoded(b) == FoldLeft(LAMBDA n, c : n * 64 + (c - 128), b[1] - <<0, 192, 224>>[Len(b)], Tail(b))

(* A reference is passed through and read as the character it names, or as  *)
(* its last byte if the text is not UTF-8.                                  *)
ReferenceArrives(c, utf8) ==
  LET s == <<Amp, Hash, X>> \o [k \in 1..4 |-> Hex((c \div 16 ^ (4 - k)) % 16)] \o <<Semicolon>>
      got == ReadText(s \o <<Lt>>, FALSE, Lt, utf8).text
  IN /\ EncodeString(s) = s
     /\ IF utf8 THEN \A k \in 2..Len(got) : got[k] \in 128..191 ELSE got = <<c % 256>>
     /\ utf8 => Decoded(got) = c
=============================================================================
