------------------------------- MODULE NodeTree -------------------------------
(***************************************************************************)
(* What the nodes of TinyXML promise (misc/Library/libxml.h): trees in      *)
(* which every node has a sequence of children. A node that is linked       *)
(* becomes the last child; a node that is inserted is copied with all that  *)
(* is below it, and the copy put at a place of its own; a node that is      *)
(* removed is gone with all that is below it. Nothing else moves.           *)
(***************************************************************************)
EXTENDS Naturals, Sequences, SequencesExt, Functions

CONSTANTS Node,    \* storage a node can have
          Value

VARIABLES value,   \* of the nodes there are
          kids

treeVars == <<value, kids>>

live == DOMAIN value

Below(n) ==
  LET on == [p \in Node |-> Range(kids[p])]
  IN {m \in Node : \A S \in SUBSET Node :
        n \in S /\ (\A p \in S : on[p] \subseteq S) => m \in S}

Alone(n) == \A m \in live : n \notin Range(kids[m])

(* copy gives new storage to the nodes of its domain.                       *)
Copies(n) == Injection(Below(n), Node \ live)

Original(copy, m) == CHOOSE n \in DOMAIN copy : copy[n] = m

CopiedKids(copy) ==
  [m \in Node |->
    IF m \in Range(copy) THEN [i \in DOMAIN kids[Original(copy, m)] |-> copy[kids[Original(copy, m)][i]]]
    ELSE kids[m]]

CopiedValue(copy) ==
  [m \in live \cup Range(copy) |-> IF m \in live THEN value[m] ELSE value[Original(copy, m)]]

Emptied(f, gone) == [n \in Node |-> IF n \in gone THEN <<>> ELSE f[n]]

Without(f, gone) == [n \in DOMAIN f \ gone |-> f[n]]

TreeInit ==
  /\ value = [n \in {} |-> 0]
  /\ kids = [n \in Node |-> <<>>]

Make(n, v) ==
  /\ n \in Node \ live
  /\ value' = [m \in live \cup {n} |-> IF m = n THEN v ELSE value[m]]
  /\ UNCHANGED kids

LinkLast(p, n) ==
  /\ UNCHANGED value
  /\ {p, n} \subseteq live /\ Alone(n) /\ p \notin Below(n)
  /\ kids' = [kids EXCEPT ![p] = Append(kids[p], n)]

(* A copy of n, which becomes a tree of its own, or the i-th child of p.    *)
Copy(n, copy) ==
  /\ n \in live
  /\ value' = CopiedValue(copy)
  /\ \/ kids' = CopiedKids(copy)
     \/ \E p \in live : \E i \in 1..Len(kids[p]) + 1 :
          kids' = [CopiedKids(copy) EXCEPT ![p] = InsertAt(kids[p], i, copy[n])]

Drop(n) ==
  /\ n \in live
  /\ value' = Without(value, Below(n))
  /\ \/ Alone(n) /\ kids' = Emptied(kids, Below(n))
     \/ \E p \in live : \E i \in DOMAIN kids[p] :
          /\ kids[p][i] = n
          /\ kids' = [Emptied(kids, Below(n)) EXCEPT ![p] = RemoveAt(kids[p], i)]

ReplaceByCopy(n, copy) ==
  \E p \in live : \E i \in DOMAIN kids[p] :
    LET gone == Below(kids[p][i])
    IN /\ value' = Without(CopiedValue(copy), gone)
       /\ kids' = [Emptied(CopiedKids(copy), gone) EXCEPT ![p] = ReplaceAt(kids[p], i, copy[n])]

DropKids(p) ==
  /\ p \in live
  /\ LET gone == Below(p) \ {p}
     IN value' = Without(value, gone) /\ kids' = Emptied(kids, gone \cup {p})

TreeNext ==
  \/ \E n \in Node, v \in Value : Make(n, v)
  \/ \E p, n \in live : LinkLast(p, n)
  \/ \E n \in live : Drop(n) \/ DropKids(n)
  \/ \E n \in live : \E copy \in Copies(n) : Copy(n, copy) \/ ReplaceByCopy(n, copy)

TreeSpec == TreeInit /\ [][TreeNext]_treeVars
=============================================================================
