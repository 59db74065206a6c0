----------------------------- MODULE XmlRpcValue -----------------------------
(***************************************************************************)
(* How parameters and results are written as XML and read back, with the   *)
(* scanner of XmlRpcUtil, generateRequest of the client and parseRequest   *)
(* of the server, and the comparison of values.                            *)
(*                                                                         *)
(* XML is a sequence of pieces: a tag is one piece, and so is a character  *)
(* of text, or an entity's name ("lt;"), which a text may also hold for    *)
(* its own sake. Offsets are positions in it, from 1. Base64 and the       *)
(* layout of doubles are left out; a double is a number of half millionths *)
(* and its text, as "%f" makes it, a number of millionths.                 *)
(***************************************************************************)
EXTENDS Integers, Sequences, SequencesExt

CONSTANTS
  Value,        \* values a program sends
  Other         \* values it compares them with

VARIABLES
  call,         \* what was done last
  value,        \* the value
  xml,          \* its text
  read,         \* what was read from it
  other, equal  \* a second value, and what operator== says of the two

vars == <<call, value, xml, read, other, equal>>

Invalid == <<"invalid">>

typeOf(v) == v[1]
of(type, x) == <<type, x>>

-----------------------------------------------------------------------------
(* Numbers as text.                                                         *)

Digit == <<"0", "1", "2", "3", "4", "5", "6", "7", "8", "9">>

isDigit(c) == \E d \in 1..10 : Digit[d] = c
digit(c) == (CHOOSE d \in 1..10 : Digit[d] = c) - 1

RECURSIVE decimal(_)
decimal(n) ==
  IF n < 10 THEN <<Digit[n + 1]>> ELSE Append(decimal(n \div 10), Digit[1 + (n % 10)])

padded(n, width, c) ==
  LET s == decimal(n) IN [i \in 1 .. width - Len(s) |-> c] \o s

isSpace(c) == c = " "

leastOf(S, otherwise) == IF S = {} THEN otherwise ELSE CHOOSE j \in S : \A k \in S : j <= k

(* The first position from i on whose piece satisfies P; Len + 1 if none.   *)
firstFrom(text, i, P(_)) == leastOf({j \in i .. Len(text) : P(text[j])}, Len(text) + 1)

pastSpaces(text, i) == firstFrom(text, i, LAMBDA c : ~isSpace(c))

(* strtol, and sscanf's %d with a width: blanks, then digits.               *)
digits(text, from, end) ==
  [ok |-> end > from,
   n |-> FoldLeft(LAMBDA n, c : 10 * n + digit(c), 0, SubSeq(text, from, end - 1)),
   next |-> end]

scanFrom(text, from, width) ==
  digits(text, from,
         leastOf({from + width, firstFrom(text, from, LAMBDA c : ~isDigit(c))}, from))

scan(text, i, width) == scanFrom(text, pastSpaces(text, i), width)

anyWidth == 9

-----------------------------------------------------------------------------
(* XmlRpcUtil. Only tags begin with '<': xmlEncode leaves none in a text.   *)

typeTag == [bool |-> "<boolean>", int |-> "<i4>", double |-> "<double>",
            time |-> "<dateTime.iso8601>", array |-> "<array>", struct |-> "<struct>"]
endTag == [bool |-> "</boolean>", int |-> "</i4>", double |-> "</double>",
           time |-> "</dateTime.iso8601>", array |-> "</array>", struct |-> "</struct>"]

Tag ==
  {typeTag[t] : t \in DOMAIN typeTag} \cup {endTag[t] : t \in DOMAIN endTag} \cup
  {"<value>", "</value>", "<data>", "</data>", "<member>", "</member>", "<name>", "</name>",
   "<params>", "</params>", "<param>", "</param>", "<string>", "<int>"}

isTag(c) == c \in Tag

(* find of a tag from i on, 0 if there is none.                             *)
orZero(j, text) == IF j > Len(text) THEN 0 ELSE j
find(tag, text, i) == orZero(firstFrom(text, i, LAMBDA c : c = tag), text)

behind(j, i) == IF j = 0 THEN i ELSE j + 1
findTag(tag, text, i) == behind(find(tag, text, i), i)

tagAt(tag, text, j) == j <= Len(text) /\ text[j] = tag
nextTagIs(tag, text, i) == tagAt(tag, text, pastSpaces(text, i))

past(tag, text, i) == IF nextTagIs(tag, text, i) THEN pastSpaces(text, i) + 1 ELSE i

getNextTag(text, i) ==
  LET j == pastSpaces(text, i) IN
  IF j <= Len(text) /\ isTag(text[j]) THEN [tag |-> text[j], next |-> j + 1]
                                       ELSE [tag |-> "", next |-> i]

between(text, s, e, i) ==
  IF s = 0 \/ e = 0 THEN [body |-> << >>, next |-> i]
                    ELSE [body |-> SubSeq(text, s + 1, e - 1), next |-> e + 1]

bodyFrom(etag, text, s, i) == between(text, s, find(etag, text, s + 1), i)
parseTag(tag, etag, text, i) == bodyFrom(etag, text, find(tag, text, i), i)

entity ==
  "<" :> "lt;" @@ ">" :> "gt;" @@ "&" :> "amp;" @@ "'" :> "apos;" @@ "\"" :> "quot;"

xmlEncode(raw) ==
  FlattenSeq([i \in DOMAIN raw |->
    IF raw[i] \in DOMAIN entity THEN <<"&", entity[raw[i]]>> ELSE <<raw[i]>>])

RECURSIVE xmlDecode(_)
xmlDecode(text) ==
  IF text = << >> THEN << >>
  ELSE IF /\ Len(text) > 1 /\ text[1] = "&"
          /\ \E c \in DOMAIN entity : entity[c] = text[2]
       THEN <<CHOOSE c \in DOMAIN entity : entity[c] = text[2]>> \o xmlDecode(SubSeq(text, 3, Len(text)))
       ELSE <<text[1]>> \o xmlDecode(Tail(text))

-----------------------------------------------------------------------------
(* toXml.                                                                   *)

wrapped(t, body) == <<"<value>", typeTag[t]>> \o body \o <<endTag[t], "</value>">>

timeText(t) ==
  padded(t[1], 4, " ") \o padded(t[2], 2, "0") \o padded(t[3], 2, "0") \o <<"T">>
    \o padded(t[4], 2, "0") \o <<":">> \o padded(t[5], 2, "0") \o <<":">> \o padded(t[6], 2, "0")

RECURSIVE toXml(_)
toXml(v) ==
  LET t == typeOf(v) IN
  CASE t = "invalid" -> << >>
    [] t = "bool"    -> wrapped(t, IF v[2] THEN <<"1">> ELSE <<"0">>)
    [] t = "int"     -> wrapped(t, decimal(v[2]))
    [] t = "double"  -> wrapped(t, decimal(v[2] \div 2))
    [] t = "string"  -> <<"<value>">> \o xmlEncode(v[2]) \o <<"</value>">>
    [] t = "time"    -> wrapped(t, timeText(v[2]))
    [] t = "array"   -> wrapped(t, <<"<data>">> \o FlattenSeq([i \in DOMAIN v[2] |-> toXml(v[2][i])])
                                     \o <<"</data>">>)
    [] t = "struct"  ->
         wrapped(t, FlattenSeq([i \in DOMAIN v[2] |->
           <<"<member>", "<name>">> \o xmlEncode(v[2][i].name) \o <<"</name>">>
             \o toXml(v[2][i].value) \o <<"</member>">>]))

-----------------------------------------------------------------------------
(* fromXml. Each reader answers whether it could, what, and where it        *)
(* stopped; a value is left invalid when its reader could not.              *)

got(v, i) == [ok |-> TRUE, value |-> v, next |-> i]
failed(i) == [ok |-> FALSE, value |-> Invalid, next |-> i]

asBool(s) == IF s.ok /\ s.n \in {0, 1} THEN got(of("bool", s.n = 1), s.next) ELSE failed(s.next)
boolFromXml(text, i) == asBool(scan(text, i, anyWidth))

asNumber(type, unit, s) == IF s.ok THEN got(of(type, unit * s.n), s.next) ELSE failed(s.next)
intFromXml(text, i) == asNumber("int", 1, scan(text, i, anyWidth))
doubleFromXml(text, i) == asNumber("double", 2, scan(text, i, anyWidth))

(* The offset moves by the length of the decoded string, which may fall     *)
(* short of the end of its text.                                            *)
stringFromXml(text, i) ==
  LET end == firstFrom(text, i, isTag)
      s   == xmlDecode(SubSeq(text, i, end - 1))
  IN IF end > Len(text) THEN failed(i) ELSE got(of("string", s), i + Len(s))

(* sscanf's "%4d%2d%2dT%2d:%2d:%2d": each number with what comes before it. *)
timeFormat ==
  <<<<"", 4>>, <<"", 2>>, <<"", 2>>, <<"T", 2>>, <<":", 2>>, <<":", 2>>>>

field(so, s) == [ok |-> s.ok, ns |-> Append(so.ns, s.n), next |-> s.next]

nextField(text, so, f) ==
  CASE ~ so.ok                    -> so
    [] f[1] = ""                  -> field(so, scan(text, so.next, f[2]))
    [] tagAt(f[1], text, so.next) -> field(so, scan(text, so.next + 1, f[2]))
    [] OTHER                      -> [so EXCEPT !.ok = FALSE]

asTime(stime, i) ==
  LET so == FoldLeft(LAMBDA r, f : nextField(stime, r, f),
                       [ok |-> TRUE, ns |-> << >>, next |-> 1], timeFormat)
  IN IF so.ok THEN got(of("time", so.ns), i + Len(stime)) ELSE failed(i)

timeFromXml(text, i) ==
  LET end == firstFrom(text, i, isTag) IN
  IF end > Len(text) THEN failed(i) ELSE asTime(SubSeq(text, i, end - 1), i)

RECURSIVE fromXml(_, _), elements(_, _, _), members(_, _, _)

after(text, i, vs, e) ==
  IF e.ok THEN elements(text, e.next, Append(vs, e.value))
          ELSE got(of("array", vs), past("</data>", text, i))

elements(text, i, vs) == after(text, i, vs, fromXml(text, i))

arrayFromXml(text, i) ==
  IF nextTagIs("<data>", text, i) THEN elements(text, past("<data>", text, i), << >>)
                                   ELSE failed(i)

(* A struct holds its members in the order of their names; insert does not  *)
(* replace a member that is there.                                          *)
Piece == <<" ", "&", "<", ">", "a", "amp;", "b", "gt;", "lt;">>
rank(c) == CHOOSE k \in DOMAIN Piece : Piece[k] = c

before(m, n) ==
  \/ IsStrictPrefix(m, n)
  \/ \E k \in DOMAIN m \cap DOMAIN n :
       SubSeq(m, 1, k - 1) = SubSeq(n, 1, k - 1) /\ rank(m[k]) < rank(n[k])

inserted(ms, m) ==
  IF \E k \in DOMAIN ms : ms[k].name = m.name THEN ms
  ELSE SelectSeq(ms, LAMBDA x : before(x.name, m.name)) \o <<m>>
         \o SelectSeq(ms, LAMBDA x : before(m.name, x.name))

withMember(text, i, ms, name, v) ==
  IF v.ok THEN members(text, past("</member>", text, v.next),
                       inserted(ms, [name |-> name, value |-> v.value]))
          ELSE failed(i)

named(text, i, ms, n) == withMember(text, i, ms, n.body, fromXml(text, n.next))

members(text, i, ms) ==
  IF nextTagIs("<member>", text, i)
  THEN named(text, i, ms, parseTag("<name>", "</name>", text, past("<member>", text, i)))
  ELSE got(of("struct", ms), i)

structFromXml(text, i) == members(text, i, << >>)

(* Mistake: a value that ends at once is not taken for an empty string.     *)
byTag_NoBlank(text, i, t) ==
  CASE t.tag = "<boolean>"          -> boolFromXml(text, t.next)
    [] t.tag \in {"<i4>", "<int>"}  -> intFromXml(text, t.next)
    [] t.tag \in {"", "<string>"}   -> stringFromXml(text, t.next)
    [] t.tag = "<array>"            -> arrayFromXml(text, t.next)
    [] OTHER                        -> failed(i)

byTag(text, i, t) ==
  CASE t.tag = "<boolean>"          -> boolFromXml(text, t.next)
    [] t.tag \in {"<i4>", "<int>"}  -> intFromXml(text, t.next)
    [] t.tag = "<double>"           -> doubleFromXml(text, t.next)
    [] t.tag \in {"", "<string>"}   -> stringFromXml(text, t.next)
    [] t.tag = "<dateTime.iso8601>" -> timeFromXml(text, t.next)
    [] t.tag = "<array>"            -> arrayFromXml(text, t.next)
    [] t.tag = "<struct>"           -> structFromXml(text, t.next)
    [] t.tag = "</value>"           -> stringFromXml(text, i)
    [] OTHER                        -> failed(i)

byType(text, i) == byTag(text, i, getNextTag(text, i))

pastValue(text, i, r) ==
  IF r.ok THEN got(r.value, findTag("</value>", text, r.next)) ELSE failed(i)

fromXml(text, i) ==
  IF nextTagIs("<value>", text, i)
  THEN pastValue(text, i, byType(text, past("<value>", text, i)))
  ELSE failed(i)

-----------------------------------------------------------------------------
(* Requests. An array is a list of parameters, anything else the only one.  *)

asParam(v) == <<"<param>">> \o toXml(v) \o <<"</param>">>

generateRequest(params) ==
  IF params = Invalid THEN << >>
  ELSE <<"<params>">>
         \o (IF typeOf(params) = "array"
               THEN FlattenSeq([i \in DOMAIN params[2] |-> asParam(params[2][i])])
               ELSE asParam(params))
         \o <<"</params>">>

RECURSIVE parameters(_, _, _)
afterParam(text, vs, v) ==
  parameters(text, past("</param>", text, v.next), Append(vs, v.value))

parameters(text, i, vs) ==
  IF nextTagIs("<param>", text, i)
  THEN afterParam(text, vs, fromXml(text, past("<param>", text, i)))
  ELSE vs

asArray(vs) == IF vs = << >> THEN Invalid ELSE of("array", vs)

parseRequest(text) ==
  IF find("<params>", text, 1) = 0 THEN Invalid
  ELSE asArray(parameters(text, findTag("<params>", text, 1), << >>))

-----------------------------------------------------------------------------
(* operator==.                                                              *)

(* Mistake: the year is forgotten.                                          *)
tmEq_AnyYear(t, u) == \A k \in {2, 4, 5, 6} : t[k] = u[k]

tmEq(t, u) ==
  /\ t[6] = u[6] /\ t[5] = u[5]
  /\ t[4] = u[4] /\ t[3] = t[3]
  /\ t[2] = u[2] /\ t[1] = u[1]

RECURSIVE Eq(_, _)
Eq(v, w) ==
  /\ typeOf(v) = typeOf(w)
  /\ typeOf(v) \in {"bool", "int", "double", "string"} => v[2] = w[2]
  /\ typeOf(v) = "time" => tmEq(v[2], w[2])
  /\ typeOf(v) = "array" =>
       /\ Len(v[2]) = Len(w[2])
       /\ \A i \in DOMAIN v[2] : Eq(v[2][i], w[2][i])
  /\ typeOf(v) = "struct" =>
       /\ Len(v[2]) = Len(w[2])
       /\ \A i \in DOMAIN v[2] : Eq(v[2][i].value, w[2][i].value)

-----------------------------------------------------------------------------
Init ==
  /\ call = "none"
  /\ value \in Value
  /\ xml = << >>
  /\ read = failed(1)
  /\ other = Invalid
  /\ equal = FALSE

Write ==
  /\ call = "none"
  /\ call' = "toXml"
  /\ xml' = toXml(value)
  /\ UNCHANGED <<value, read, other, equal>>

Read ==
  /\ call = "toXml"
  /\ call' = "fromXml"
  /\ read' = fromXml(xml, 1)
  /\ UNCHANGED <<value, xml, other, equal>>

Send ==
  /\ call = "none"
  /\ call' = "generateRequest"
  /\ xml' = generateRequest(value)
  /\ UNCHANGED <<value, read, other, equal>>

Receive ==
  /\ call = "generateRequest"
  /\ call' = "parseRequest"
  /\ read' = [read EXCEPT !.value = parseRequest(xml)]
  /\ UNCHANGED <<value, xml, other, equal>>

Compare(w) ==
  /\ call = "none"
  /\ call' = "operator=="
  /\ other' = w
  /\ equal' = Eq(value, w)
  /\ UNCHANGED <<value, xml, read>>

Next == Write \/ Read \/ Send \/ Receive \/ \E w \in Other : Compare(w)

Spec == Init /\ [][Next]_vars

-----------------------------------------------------------------------------
plain(s) == \A i \in DOMAIN s : s[i] \notin DOMAIN entity

(* What XML keeps of a value: no member that was never set, no name with a  *)
(* reserved character, four digits for the year, six decimals.              *)
RECURSIVE kept(_)
kept(v) ==
  LET t == typeOf(v) IN
  CASE t = "invalid"                    -> FALSE
    [] t = "time"                       -> v[2][1] \in 1000..9999
    [] t = "double"                     -> v[2] % 2 = 0
    [] t = "array"                      -> \A i \in DOMAIN v[2] : kept(v[2][i])
    [] t = "struct"                     -> \A i \in DOMAIN v[2] : plain(v[2][i].name) /\ kept(v[2][i].value)
    [] t \in {"bool", "int", "string"}  -> TRUE

(* What was written is read back, nested arrays and structs, blank and      *)
(* empty strings and strings full of entities included, and the offset is   *)
(* behind it.                                                               *)
ReadsBack ==
  call = "fromXml" /\ kept(value) => read = got(value, Len(xml) + 1)

(* The server receives the parameters the client was given, one by one if   *)
(* they came as an array.                                                   *)
ParamsArrive ==
  call = "parseRequest" /\ kept(value) =>
    read.value = CASE typeOf(value) # "array" -> of("array", <<value>>)
                   [] value = of("array", << >>) -> Invalid
                   [] OTHER -> value

(* Values that are equal compare as equal, and values that differ compare   *)
(* as different, at any depth. Nothing is said of two that differ only in   *)
(* the days of dates or the names of members, which the code does not       *)
(* compare.                                                                 *)
RECURSIVE blurred(_)
blurred(v) ==
  CASE typeOf(v) = "time"   -> of("time", [v[2] EXCEPT ![3] = 0])
    [] typeOf(v) = "array"  -> of("array", [i \in DOMAIN v[2] |-> blurred(v[2][i])])
    [] typeOf(v) = "struct" -> of("struct", [i \in DOMAIN v[2] |-> blurred(v[2][i].value)])
    [] OTHER                -> v

Compares ==
  call = "operator==" =>
    /\ value = other => equal
    /\ blurred(value) # blurred(other) => ~ equal

=============================================================================
