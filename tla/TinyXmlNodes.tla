----------------------------- MODULE TinyXmlNodes -----------------------------
(***************************************************************************)
(* The nodes of TinyXML (misc/Library/libxml.cpp) and the pointers that     *)
(* hold them together: a node has its parent, its first and last child, and *)
(* the children of a node are a list linked in both directions. Every       *)
(* operation sets the pointers of up to four nodes one by one.              *)
(*                                                                         *)
(* A node is a document, an element, or a leaf: text, a comment, a          *)
(* declaration or unknown. Attributes are TinyXmlAttributes'. The pointers  *)
(* of storage that is not in use are kept null.                             *)
(***************************************************************************)
EXTENDS Naturals, Sequences, FiniteSets, FiniteSetsExt, Functions

CONSTANTS Node,    \* storage a node can have
          Null,
          Type,    \* of "document", "element", "leaf"
          Value,
          AnyValue \* a value not asked for

\* Null is not in Node, and Node is finite.

VARIABLES type, value,   \* of the nodes there are
          parent, firstChild, lastChild, prev, next,
          error    \* documents whose error is set

live == DOMAIN type

vars == <<type, value, parent, firstChild, lastChild, prev, next, error>>
pointers == <<parent, firstChild, lastChild, prev, next>>

Init ==
  /\ type = [n \in {} |-> ""] /\ value = type
  /\ parent = [n \in Node |-> Null]
  /\ firstChild = parent /\ lastChild = parent
  /\ prev = parent /\ next = parent
  /\ error = {}

-----------------------------------------------------------------------------
(* The nodes from start on along a pointer; a cycle is followed only so far. *)
Chain(start, via) ==
  LET c[k \in 1..Cardinality(Node)] ==
        IF k = 1 THEN start ELSE IF c[k - 1] = Null THEN Null ELSE via[c[k - 1]]
      met == {k \in 1..Cardinality(Node) : c[k] # Null}
  IN [k \in 1..Cardinality(met) |-> c[k]]

(* The node at the first, and at the last, of a set of places of a chain.   *)
First(nodes, places) == IF places = {} THEN Null ELSE nodes[Min(places)]
Last(nodes, places) == IF places = {} THEN Null ELSE nodes[Max(places)]

Kids(n) == Chain(firstChild[n], next)

(* What the destructor deletes, which follows the list of children: n, and  *)
(* with every node its children.                                            *)
Below(n) ==
  LET kids == [p \in Node |-> Range(Kids(p))]
  IN {m \in Node : \A S \in SUBSET Node :
        n \in S /\ (\A p \in S : kids[p] \subseteq S) => m \in S}

Document(n) ==
  LET up == Chain(n, parent)
  IN First(up, {i \in DOMAIN up : type[up[i]] = "document"})

(* f with n, if it is a node, set to m.                                     *)
Set(f, n, m) == IF n = Null THEN f ELSE [f EXCEPT ![n] = m]

Freed(f, gone) == [n \in Node |-> IF n \in gone THEN Null ELSE f[n]]

(* Clone: copy gives storage to a node and to all below it. The pointers    *)
(* among the copies are those among the nodes; the copy of n has no parent. *)
Copies(n) == Injection(Below(n), Node \ live)

Source(copy, m) == CHOOSE n \in DOMAIN copy : copy[n] = m

Copied(f, copy) ==
  [m \in Node |->
    IF m \notin Range(copy) THEN f[m]
    ELSE IF f[Source(copy, m)] \in DOMAIN copy THEN copy[f[Source(copy, m)]] ELSE Null]

Data(f, copy, gone) ==
  [m \in (live \cup Range(copy)) \ gone |-> IF m \in live THEN f[m] ELSE f[Source(copy, m)]]

Without(f, gone) == [m \in live \ gone |-> f[m]]

Cloned(copy) ==
  /\ type' = Data(type, copy, {})
  /\ value' = Data(value, copy, {})
  /\ error' = error \cup {copy[n] : n \in error \cap DOMAIN copy}

(* A document cannot be a child: the document p is in, if any, is told.     *)
Refuse(p) ==
  /\ error' = error \cup ({Document(p)} \ {Null})
  /\ UNCHANGED <<type, value, pointers>>

-----------------------------------------------------------------------------
New(n, t, v) ==
  /\ n \in Node \ live
  /\ type' = [m \in live \cup {n} |-> IF m = n THEN t ELSE type[m]]
  /\ value' = [m \in live \cup {n} |-> IF m = n THEN v ELSE value[m]]
  /\ UNCHANGED <<pointers, error>>

(* ~TiXmlNode, of a node that has no parent.                                *)
Deleted(n) ==
  /\ type' = Without(type, Below(n))
  /\ value' = Without(value, Below(n))
  /\ parent' = Freed(parent, Below(n))
  /\ firstChild' = Freed(firstChild, Below(n))
  /\ lastChild' = Freed(lastChild, Below(n))
  /\ prev' = Freed(prev, Below(n))
  /\ next' = Freed(next, Below(n))

Delete(n) ==
  /\ n \in live /\ parent[n] = Null
  /\ Deleted(n)
  /\ error' = error \ {n}

(* The program links a node that is nobody's child, and never below itself. *)
(* The assertion in the code also lets a child of p be linked again.        *)
LinkEndChild(p, n) ==
  /\ {p, n} \subseteq live
  /\ parent[n] = Null /\ p \notin Below(n)
  /\ IF type[n] = "document"
       THEN /\ Deleted(n)
            /\ error' = (error \cup ({Document(p)} \ {Null})) \ {n}
       ELSE /\ parent' = [parent EXCEPT ![n] = p]
            /\ prev' = [prev EXCEPT ![n] = lastChild[p]]
            /\ next' = Set([next EXCEPT ![n] = Null], lastChild[p], n)
            /\ firstChild' = Set(firstChild, IF lastChild[p] = Null THEN p ELSE Null, n)
            /\ lastChild' = [lastChild EXCEPT ![p] = n]
            /\ UNCHANGED <<type, value, error>>

Clone(n, copy) ==
  /\ n \in live
  /\ Cloned(copy)
  /\ parent' = Copied(parent, copy)
  /\ firstChild' = Copied(firstChild, copy)
  /\ lastChild' = Copied(lastChild, copy)
  /\ prev' = Copied(prev, copy)
  /\ next' = Copied(next, copy)

(* k is linked between a and b, children of p, of which either may be null. *)
Between(p, a, k, b, copy) ==
  /\ parent' = [Copied(parent, copy) EXCEPT ![k] = p]
  /\ prev' = Set([Copied(prev, copy) EXCEPT ![k] = a], b, k)
  /\ next' = Set([Copied(next, copy) EXCEPT ![k] = b], a, k)
  /\ firstChild' = Set(Copied(firstChild, copy), IF a = Null THEN p ELSE Null, k)
  /\ lastChild' = Set(Copied(lastChild, copy), IF b = Null THEN p ELSE Null, k)

Inserted(p, a, n, b, copy) ==
  \/ type[n] = "document" /\ Refuse(p)
  \/ type[n] # "document" /\ Cloned(copy) /\ Between(p, a, copy[n], b, copy)

InsertEndChild(p, n, copy) ==
  /\ {p, n} \subseteq live
  /\ Inserted(p, lastChild[p], n, Null, copy)

(* Mistake: the child before is not told of the new one.                    *)
InsertBeforeChild_OneWay(b, n, copy) ==
  /\ {b, n} \subseteq live /\ parent[b] # Null
  /\ type[n] # "document" /\ Cloned(copy)
  /\ parent' = [Copied(parent, copy) EXCEPT ![copy[n]] = parent[b]]
  /\ prev' = [Copied(prev, copy) EXCEPT ![copy[n]] = prev[b], ![b] = copy[n]]
  /\ next' = [Copied(next, copy) EXCEPT ![copy[n]] = b]
  /\ firstChild' = Set(Copied(firstChild, copy), IF prev[b] = Null THEN parent[b] ELSE Null, copy[n])
  /\ lastChild' = Copied(lastChild, copy)

(* b must be a child of the node the call is made on.                       *)
InsertBeforeChild(b, n, copy) ==
  /\ {b, n} \subseteq live /\ parent[b] # Null
  /\ Inserted(parent[b], prev[b], n, b, copy)

(* Mistake: the last child of the parent stays.                             *)
InsertAfterChild_KeepsLast(a, n, copy) ==
  /\ {a, n} \subseteq live /\ parent[a] # Null
  /\ type[n] # "document" /\ Cloned(copy)
  /\ parent' = [Copied(parent, copy) EXCEPT ![copy[n]] = parent[a]]
  /\ prev' = Set([Copied(prev, copy) EXCEPT ![copy[n]] = a], next[a], copy[n])
  /\ next' = [Copied(next, copy) EXCEPT ![copy[n]] = next[a], ![a] = copy[n]]
  /\ firstChild' = Copied(firstChild, copy)
  /\ lastChild' = Copied(lastChild, copy)

InsertAfterChild(a, n, copy) ==
  /\ {a, n} \subseteq live /\ parent[a] # Null
  /\ Inserted(parent[a], a, n, next[a], copy)

(* r is taken out of the list between its neighbours, k put in its place,   *)
(* and r deleted with all below it.                                         *)
ReplaceChild(r, n, copy) ==
  /\ {r, n} \subseteq live /\ parent[r] # Null
  /\ LET p == parent[r]
         k == copy[n]
         gone == Below(r)
     IN IF type[n] = "document" THEN Refuse(p)
        ELSE /\ type' = Data(type, copy, gone)
             /\ value' = Data(value, copy, gone)
             /\ parent' = Freed([Copied(parent, copy) EXCEPT ![k] = p], gone)
             /\ prev' = Freed(Set([Copied(prev, copy) EXCEPT ![k] = prev[r]], next[r], k), gone)
             /\ next' = Freed(Set([Copied(next, copy) EXCEPT ![k] = next[r]], prev[r], k), gone)
             /\ lastChild' = Freed(Set(Copied(lastChild, copy), IF next[r] = Null THEN p ELSE Null, k), gone)
             /\ firstChild' = Freed(Set(Copied(firstChild, copy), IF prev[r] = Null THEN p ELSE Null, k), gone)
             /\ UNCHANGED error

RemoveChild(r) ==
  /\ r \in live /\ parent[r] # Null
  /\ LET p == parent[r]
         gone == Below(r)
     IN /\ type' = Without(type, gone)
        /\ value' = Without(value, gone)
        /\ parent' = Freed(parent, gone)
        /\ prev' = Freed(Set(prev, next[r], prev[r]), gone)
        /\ next' = Freed(Set(next, prev[r], next[r]), gone)
        /\ lastChild' = Freed(Set(lastChild, IF next[r] = Null THEN p ELSE Null, prev[r]), gone)
        /\ firstChild' = Freed(Set(firstChild, IF prev[r] = Null THEN p ELSE Null, next[r]), gone)
  /\ UNCHANGED error

Clear(p) ==
  /\ p \in live
  /\ LET gone == Below(p) \ {p}
     IN /\ type' = Without(type, gone)
        /\ value' = Without(value, gone)
        /\ parent' = Freed(parent, gone)
        /\ prev' = Freed(prev, gone)
        /\ next' = Freed(next, gone)
        /\ firstChild' = Freed(firstChild, gone \cup {p})
        /\ lastChild' = Freed(lastChild, gone \cup {p})
  /\ UNCHANGED error

-----------------------------------------------------------------------------
(* Ways through the children: the first of those along a pointer that is    *)
(* asked for, by value v or, for AnyValue, whatever its value.              *)
Asked(n, v, elements) == (v = AnyValue \/ value[n] = v) /\ (elements => type[n] = "element")

Along(start, via, v, elements) ==
  LET on == Chain(start, via)
  IN First(on, {i \in DOMAIN on : Asked(on[i], v, elements)})

FirstChild(p, v) == Along(firstChild[p], next, v, FALSE)
LastChild(p, v) == Along(lastChild[p], prev, v, FALSE)
NextSibling(n, v) == Along(next[n], next, v, FALSE)
PreviousSibling(n, v) == Along(prev[n], prev, v, FALSE)
FirstChildElement(p, v) == Along(firstChild[p], next, v, TRUE)
NextSiblingElement(n, v) == Along(next[n], next, v, TRUE)

IterateChildren(p, v, previous) == IF previous = Null THEN FirstChild(p, v) ELSE NextSibling(previous, v)

(* TiXmlHandle: the child after count others, and the element.              *)
Child(p, v, count) ==
  LET c[k \in 0..count] ==
        IF k = 0 THEN FirstChild(p, v) ELSE IF c[k - 1] = Null THEN Null ELSE NextSibling(c[k - 1], v)
  IN c[count]

ChildElement(p, v, count) ==
  LET c[k \in 0..count] ==
        IF k = 0 THEN FirstChildElement(p, v)
        ELSE IF c[k - 1] = Null THEN Null ELSE NextSiblingElement(c[k - 1], v)
  IN c[count]

-----------------------------------------------------------------------------
Next ==
  \/ \E n \in Node, t \in Type, v \in Value : New(n, t, v)
  \/ \E n \in live : Delete(n) \/ RemoveChild(n) \/ Clear(n)
  \/ \E p, n \in live : LinkEndChild(p, n)
  \/ \E n \in live : \E copy \in Copies(n) :
       \/ Clone(n, copy)
       \/ \E p \in live :
            \/ InsertEndChild(p, n, copy)
            \/ InsertBeforeChild(p, n, copy)
            \/ InsertAfterChild(p, n, copy)
            \/ ReplaceChild(p, n, copy)

Spec == Init /\ [][Next]_vars

-----------------------------------------------------------------------------
TypeOK ==
  /\ live \subseteq Node
  /\ type \in [live -> Type] /\ value \in [live -> Value]
  /\ {parent, firstChild, lastChild, prev, next} \subseteq [Node -> Node \cup {Null}]
  /\ error \subseteq {d \in live : type[d] = "document"}

(* The list of a node's children is linked the same in both directions, and *)
(* the nodes on it are those that have the node as their parent.            *)
ListsMirror ==
  /\ \A m, n \in live : next[m] = n <=> prev[n] = m
  /\ \A n \in live : next[n] # Null => parent[next[n]] = parent[n] /\ parent[n] # Null
  /\ \A n, p \in live : parent[n] = p =>
       /\ prev[n] = Null <=> firstChild[p] = n
       /\ next[n] = Null <=> lastChild[p] = n
  /\ \A p \in live : {n \in live : parent[n] = p} = Range(Kids(p))

(* No document is below a node, nothing points to storage that was          *)
(* returned, and the nodes are those below the ones that nothing is above.  *)
TreesWhole ==
  /\ \A n \in live : type[n] = "document" => parent[n] = Null
  /\ \A f \in {parent, firstChild, lastChild, prev, next} : \A n \in live : f[n] \in live \cup {Null}
  /\ live = UNION {Below(r) : r \in {n \in live : parent[n] = Null}}

(* From a child, the next one asked for by value, or as an element, and the *)
(* one before are those nearest among the children; and the one asked for   *)
(* by number is the one with so many of its kind before it.                 *)
TraversalsAgree ==
  \A p \in live, v \in Value \cup {AnyValue} :
    LET kids == Kids(p)
        hits == {i \in DOMAIN kids : Asked(kids[i], v, FALSE)}
        elements == {i \in DOMAIN kids : Asked(kids[i], v, TRUE)}
    IN /\ LastChild(p, v) = Last(kids, hits)
       /\ \A i \in DOMAIN kids :
            /\ IterateChildren(p, v, kids[i]) = First(kids, {j \in hits : j > i})
            /\ NextSiblingElement(kids[i], v) = First(kids, {j \in elements : j > i})
            /\ PreviousSibling(kids[i], v) = Last(kids, {j \in hits : j < i})
       /\ \A i \in hits : Child(p, v, Cardinality({j \in hits : j < i})) = kids[i]
       /\ \A i \in elements : ChildElement(p, v, Cardinality({j \in elements : j < i})) = kids[i]
       /\ Child(p, v, Cardinality(hits)) = Null
       /\ ChildElement(p, v, Cardinality(elements)) = Null

NodesSound == TypeOK /\ ListsMirror /\ TreesWhole /\ TraversalsAgree

=============================================================================
