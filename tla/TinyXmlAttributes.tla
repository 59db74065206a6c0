-------------------------- MODULE TinyXmlAttributes --------------------------
(***************************************************************************)
(* The attributes of an element of TinyXML: TiXmlAttributeSet               *)
(* (misc/Library/libxml.cpp), a ring through a sentinel that is part of the *)
(* set, and the calls of TiXmlElement on it. Outside the set there is no    *)
(* way to see that an attribute is the sentinel: Next and Previous take one *)
(* that has neither name nor value for it.                                  *)
(***************************************************************************)
EXTENDS Naturals, Sequences, SequencesExt, FiniteSets

CONSTANTS Attribute,   \* storage an attribute can have
          Sentinel,
          Name,
          Text         \* values

None == "none"         \* no attribute
Nothing == "empty"     \* the empty string, in Name and in Text

VARIABLES next, prev,  \* of the sentinel and the attributes, None if not in the set
          name, value,
          given        \* history: what a reader should see, in order

vars == <<next, prev, name, value, given>>

Init ==
  /\ next = [a \in Attribute \cup {Sentinel} |-> IF a = Sentinel THEN Sentinel ELSE None]
  /\ prev = next
  /\ name = [a \in Attribute |-> Nothing]
  /\ value = name
  /\ given = <<>>

(* The attributes met from the sentinel on along a pointer, as far as one   *)
(* of ends.                                                                 *)
Ring(via, ends) ==
  LET a[k \in 1..Cardinality(Attribute)] ==
        IF k = 1 THEN via[Sentinel]
        ELSE IF a[k - 1] \notin Attribute \/ via[a[k - 1]] \in ends THEN None ELSE via[a[k - 1]]
      met == {k \in 1..Cardinality(Attribute) : a[k] \in Attribute}
  IN [k \in 1..Cardinality(met) |-> a[k]]

Members == Ring(next, {Sentinel})

Find(n) ==
  LET found == {i \in DOMAIN Members : name[Members[i]] = n}
  IN IF found = {} THEN None ELSE Members[Min(found)]

(* First and then Next, as Print, Accept and CopyTo go, and Last, Previous. *)
Empty == {Sentinel} \cup {a \in Attribute : name[a] = Nothing /\ value[a] = Nothing}

Seen == Ring(next, Empty)
SeenBack == Ring(prev, Empty)

-----------------------------------------------------------------------------
(* Mistake: FindOrCreate always creates.                                    *)
SetAttribute_Adds(n, v) ==
  \E a \in Attribute :
    /\ next[a] = None
    /\ next' = [next EXCEPT ![a] = Sentinel, ![prev[Sentinel]] = a]
    /\ prev' = [prev EXCEPT ![a] = prev[Sentinel], ![Sentinel] = a]
    /\ name' = [name EXCEPT ![a] = n]
    /\ value' = [value EXCEPT ![a] = v]
    /\ given' = Append(SelectSeq(given, LAMBDA g : g[1] # n), <<n, v>>)

(* FindOrCreate, then SetValue. A new attribute is last.                    *)
SetAttribute(n, v) ==
  \/ /\ Find(n) # None
     /\ value' = [value EXCEPT ![Find(n)] = v]
     /\ given' = [i \in DOMAIN given |-> IF given[i][1] = n THEN <<n, v>> ELSE given[i]]
     /\ UNCHANGED <<next, prev, name>>
  \/ \E a \in Attribute :
       /\ Find(n) = None /\ next[a] = None
       /\ next' = [next EXCEPT ![a] = Sentinel, ![prev[Sentinel]] = a]
       /\ prev' = [prev EXCEPT ![a] = prev[Sentinel], ![Sentinel] = a]
       /\ name' = [name EXCEPT ![a] = n]
       /\ value' = [value EXCEPT ![a] = v]
       /\ given' = Append(given, <<n, v>>)

RemoveAttribute(n) ==
  LET a == Find(n)
  IN /\ a # None
     /\ next' = [next EXCEPT ![prev[a]] = next[a], ![a] = None]
     /\ prev' = [prev EXCEPT ![next[a]] = prev[a], ![a] = None]
     /\ name' = [name EXCEPT ![a] = Nothing]
     /\ value' = [value EXCEPT ![a] = Nothing]
     /\ \E i \in DOMAIN given : given[i][1] = n /\ given' = RemoveAt(given, i)

Next == \E n \in Name : RemoveAttribute(n) \/ \E v \in Text : SetAttribute(n, v)

-----------------------------------------------------------------------------
Given(s) == [i \in DOMAIN s |-> <<name[s[i]], value[s[i]]>>]

(* The ring holds what was set and not removed, each name once, and a       *)
(* reader who goes through it in either direction sees all of it; but of a  *)
(* set with an attribute without name and value only what comes before it.  *)
AttributesSound ==
  /\ Given(Members) = given
  /\ \A a, b \in Attribute \cup {Sentinel} : next[a] = b <=> prev[b] = a
  /\ IF \E i \in DOMAIN given : given[i] = <<Nothing, Nothing>>
       THEN IsPrefix(Given(Seen), given) /\ IsSuffix(Reverse(Given(SeenBack)), given)
       ELSE Given(Seen) = given /\ Given(SeenBack) = Reverse(given)
=============================================================================
