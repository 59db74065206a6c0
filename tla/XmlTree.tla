------------------------------- MODULE XmlTree -------------------------------
(***************************************************************************)
(* The trees of CXMLNode and the parser that owns one of them              *)
(* (misc/WindowsMonitor/XMLParser.cpp), which XMLLog writes its log with.  *)
(* Nodes are made and destroyed by hand: ref counts the times a node was   *)
(* inserted, a node inserted before is cloned when it is inserted again,   *)
(* operator delete returns the storage when ref has gone down to 0, and a  *)
(* magic number, cleared by the destructor, tells live nodes from others.  *)
(*                                                                         *)
(* The order of children, which removals change, properties and contents   *)
(* are left out. rh, with which InsChild does not clone, is never given.   *)
(***************************************************************************)
EXTENDS Integers, FiniteSets, Functions

CONSTANTS Node,     \* storage a node can have
          NoNode,   \* null
          Tag,
          MaxParsed \* bound on the children of a root that is loaded

ASSUME TreeAssumption ==
  /\ NoNode \notin Node
  /\ IsFiniteSet(Node)
  /\ MaxParsed \in Nat

VARIABLES
  live,       \* nodes whose magic number is right
  leaked,     \* storage of destroyed nodes that was not returned
  ref, tag, children,
  root,       \* the parser's root
  inner       \* history: nodes copied as children of a clone

vars == <<live, leaked, ref, tag, children, root, inner>>

free == Node \ (live \cup leaked)

parents(n) == {p \in live : n \in children[p]}

(* The node and everything below it.                                        *)
closed(S) == \A p \in S : children[p] \subseteq S
below(n) == {m \in Node : \A S \in SUBSET Node : n \in S /\ closed(S) => m \in S}

TypeOK ==
  /\ live \subseteq Node
  /\ leaked \subseteq Node
  /\ live \cap leaked = {}
  /\ ref \in [Node -> Int]
  /\ tag \in [Node -> Tag]
  /\ children \in [Node -> SUBSET Node]
  /\ root \in Node \cup {NoNode}
  /\ inner \subseteq Node

Init ==
  \E r \in Node, t \in Tag :
    /\ live = {r}
    /\ leaked = {}
    /\ ref = [n \in Node |-> 0]
    /\ tag = [n \in Node |-> t]
    /\ children = [n \in Node |-> {}]
    /\ root = r
    /\ inner = {}

-----------------------------------------------------------------------------
(* delete of each node of S: the destructor deletes the children, and a     *)
(* node whose ref does not come down to 0 keeps its storage. Below a node   *)
(* of S there is no other.                                                  *)

destroyed(S) == UNION {below(n) : n \in S}

unreturned(S) == {n \in destroyed(S) : ref[n] # 1}

deleted(S) ==
  /\ live' = live \ destroyed(S)
  /\ leaked' = leaked \cup unreturned(S)
  /\ inner' = inner \ destroyed(S)

(* Of nodes found by tag, those that are not below another.                 *)
topmost(S) == {n \in S : \A m \in S \ {n} : n \notin below(m)}

Create(n, t) ==
  /\ n \in free
  /\ live' = live \cup {n}
  /\ ref' = [ref EXCEPT ![n] = 0]
  /\ tag' = [tag EXCEPT ![n] = t]
  /\ children' = [children EXCEPT ![n] = {}]
  /\ UNCHANGED <<leaked, root, inner>>

(* copy maps the node and all below it to storage of their own; a parent p  *)
(* may be given the copy as a child, whose ref alone is then 1.             *)
Copies(n) == Injection(below(n), free)

copied(n, copy, r) ==
  LET new == {copy[m] : m \in below(n)}
      old(k) == CHOOSE m \in below(n) : copy[m] = k
  IN /\ live' = live \cup new
     /\ inner' = inner \cup (new \ {copy[n]})
     /\ tag' = [k \in Node |-> IF k \in new THEN tag[old(k)] ELSE tag[k]]
     /\ ref' = [k \in Node |-> IF k \notin new THEN ref[k] ELSE IF k = copy[n] THEN r ELSE 0]

copiedChildren(n, copy) ==
  [k \in Node |->
    IF \E m \in below(n) : copy[m] = k
      THEN {copy[c] : c \in children[CHOOSE m \in below(n) : copy[m] = k]}
      ELSE children[k]]

Clone(n, copy) ==
  /\ n \in live
  /\ copied(n, copy, 0)
  /\ children' = copiedChildren(n, copy)
  /\ UNCHANGED <<leaked, root>>

(* A node that has been inserted before.                                    *)
InsCopy(p, n, copy) ==
  /\ p \in live /\ n \in live
  /\ ref[n] > 0
  /\ copied(n, copy, 1)
  /\ children' = [copiedChildren(n, copy) EXCEPT ![p] = @ \cup {copy[n]}]
  /\ UNCHANGED <<leaked, root>>

(* Mistake: a node that has a parent is not cloned.                         *)
InsChild_Shares(p, n) ==
  /\ p \in live /\ n \in live
  /\ n # root /\ p \notin below(n)
  /\ ref' = [ref EXCEPT ![n] = @ + 1]
  /\ children' = [children EXCEPT ![p] = @ \cup {n}]
  /\ UNCHANGED <<live, leaked, tag, root, inner>>

(* The program inserts a node as it is only if the node has no parent and   *)
(* is not the root, and never below itself. The code checks none of this.   *)
InsChild(p, n) ==
  /\ p \in live /\ n \in live
  /\ ref[n] <= 0
  /\ parents(n) = {} /\ n # root /\ p \notin below(n)
  /\ ref' = [ref EXCEPT ![n] = @ + 1]
  /\ children' = [children EXCEPT ![p] = @ \cup {n}]
  /\ UNCHANGED <<live, leaked, tag, root, inner>>

(* DelChild by tag, and of one node.                                        *)
DelChild(p, S) ==
  /\ p \in live
  /\ deleted(S)
  /\ children' = [children EXCEPT ![p] = @ \ S]
  /\ UNCHANGED <<ref, tag, root>>

DelChildByTag(p, t) == DelChild(p, {c \in children[p] : tag[c] = t})
DelChildNode(p, c) == c \in children[p] /\ DelChild(p, {c})

(* Mistakes: only the children of p are looked through for nodes that are   *)
(* gone; only they are found.                                               *)
DelChildren_Shallow(p, t, subtree) ==
  LET among == IF subtree THEN below(p) \ {p} ELSE children[p]
      S     == topmost({c \in among : tag[c] = t})
  IN /\ p \in live
     /\ deleted(S)
     /\ children' = [children EXCEPT ![p] = @ \ destroyed(S)]
     /\ UNCHANGED <<ref, tag, root>>

DelChildren_NotBelow(p, t, subtree) ==
  LET S == {c \in children[p] : tag[c] = t} IN
  /\ p \in live
  /\ deleted(S)
  /\ children' = [children EXCEPT ![p] = @ \ S]
  /\ UNCHANGED <<ref, tag, root>>

(* GetChild collects the children, or all nodes below, with the tag; of     *)
(* these Destory destroys the live ones: one that was below another is gone *)
(* by then, its destructor has cleared the magic number, and nothing is     *)
(* allocated that could bring it back. CheckAndFix takes the nodes that are *)
(* gone out of all that is left below p.                                    *)
DelChildren(p, t, subtree) ==
  LET among == IF subtree THEN below(p) \ {p} ELSE children[p]
      S     == topmost({c \in among : tag[c] = t})
  IN /\ p \in live
     /\ deleted(S)
     /\ children' = [q \in Node |-> IF q \in below(p) THEN children[q] \ destroyed(S) ELSE children[q]]
     /\ UNCHANGED <<ref, tag, root>>

(* The program destroys what it made and did not hand on.                   *)
Destory(n) ==
  /\ n \in live
  /\ parents(n) = {} /\ n # root
  /\ deleted({n})
  /\ UNCHANGED <<ref, tag, children, root>>

SetTag(n, t) ==
  /\ n \in live
  /\ tag' = [tag EXCEPT ![n] = t]
  /\ UNCHANGED <<live, leaked, ref, children, root, inner>>

-----------------------------------------------------------------------------
(* CXMLParser.                                                              *)

oldRoot == IF root = NoNode THEN {} ELSE {root}

(* The program hands over a tree that is its own.                           *)
InitRoot(n) ==
  /\ n \in live
  /\ parents(n) = {} /\ n # root
  /\ deleted(oldRoot)
  /\ root' = n
  /\ UNCHANGED <<ref, tag, children>>

NewRoot(n, t) ==
  /\ n \in free
  /\ live' = (live \ destroyed(oldRoot)) \cup {n}
  /\ leaked' = leaked \cup unreturned(oldRoot)
  /\ inner' = inner \ destroyed(oldRoot)
  /\ ref' = [ref EXCEPT ![n] = 0]
  /\ tag' = [tag EXCEPT ![n] = t]
  /\ children' = [children EXCEPT ![n] = {}]
  /\ root' = n

(* LoadMem destroys the root first. A text that is well formed becomes a    *)
(* root with children.                                                      *)
LoadMem(n, S, t) ==
  /\ n \in free /\ S \subseteq free \ {n}
  /\ Cardinality(S) <= MaxParsed
  /\ live' = (live \ destroyed(oldRoot)) \cup S \cup {n}
  /\ leaked' = leaked \cup unreturned(oldRoot)
  /\ inner' = inner \ destroyed(oldRoot)
  /\ ref' = [k \in Node |-> IF k \in S THEN 1 ELSE IF k = n THEN 0 ELSE ref[k]]
  /\ tag' = [k \in Node |-> IF k \in S \cup {n} THEN t ELSE tag[k]]
  /\ children' = [k \in Node |-> IF k = n THEN S ELSE IF k \in S THEN {} ELSE children[k]]
  /\ root' = n

(* Any other text leaves no root, and the nodes Parser made in vain are     *)
(* lost. The destructor of the parser does the same, without any.           *)
LoadFails(S) ==
  /\ S \subseteq free
  /\ live' = live \ destroyed(oldRoot)
  /\ leaked' = leaked \cup unreturned(oldRoot) \cup S
  /\ inner' = inner \ destroyed(oldRoot)
  /\ root' = NoNode
  /\ UNCHANGED <<ref, tag, children>>

-----------------------------------------------------------------------------
Program ==
  \/ \E n \in Node, t \in Tag : Create(n, t) \/ SetTag(n, t)
  \/ \E n \in live : \E copy \in Copies(n) : Clone(n, copy)
  \/ \E p, n \in live : \E copy \in Copies(n) : InsCopy(p, n, copy)
  \/ \E p, n \in Node : InsChild(p, n) \/ DelChildNode(p, n)
  \/ \E p \in Node, t \in Tag :
       DelChildByTag(p, t) \/ \E subtree \in BOOLEAN : DelChildren(p, t, subtree)
  \/ \E n \in Node : Destory(n)

Parser ==
  \/ \E n \in Node : InitRoot(n)
  \/ \E n \in Node, t \in Tag : NewRoot(n, t)
  \/ \E n \in Node, S \in SUBSET Node, t \in Tag : LoadMem(n, S, t)
  \/ \E S \in SUBSET Node : LoadFails(S)

Next == Program \/ Parser

Spec == Init /\ [][Next]_vars

-----------------------------------------------------------------------------
(* No live node has a child that was destroyed: whatever sequence of        *)
(* insertions, clones, removals and loads, nothing is read or deleted       *)
(* through a pointer to a node that is gone.                                *)
NoDangling == \A p \in live : children[p] \subseteq live

(* A node is never in two places, so none is deleted twice.                 *)
OneParent == \A p, q \in live : children[p] \cap children[q] # {} => p = q

(* ref tells whether a node is in a tree, which decides between insertion   *)
(* and clone and between keeping and returning the storage. It does not for *)
(* the nodes Clone copies along: it pushes them without counting.           *)
RefCounts ==
  \A n \in live : ref[n] = IF n \in inner THEN 0 ELSE Cardinality(parents(n))

(* A node is in one place at most, and its count says whether it is.         *)
CountsAgree == OneParent /\ RefCounts

(* The parser's root is alive and at the top of its tree.                   *)
RootStands == root # NoNode => root \in live /\ parents(root) = {}

(* Whatever is pointed to, by a node or by the parser, is alive and of its
   type, and the root is nobody's child.                                    *)
TreesSound == TypeOK /\ NoDangling /\ RootStands

(* Pointers and counts, after any sequence of operations.                   *)
TreesCount == TreesSound /\ CountsAgree

(* DelChildren with FIND_SUBTREE leaves no node of the tag below p and      *)
(* destroys nothing but these nodes and what is below them.                 *)
RemovesExactly ==
  [][\A p \in Node, t \in Tag :
       LET found == {c \in below(p) \ {p} : tag[c] = t} IN
       DelChildren(p, t, TRUE) => /\ live' = live \ UNION {below(c) : c \in found}
                                  /\ below(p)' = below(p) \cap live']_vars

=============================================================================
