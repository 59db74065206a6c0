---------------------------- MODULE Library_proofs ----------------------------
(* Theorems about Kruskal, for every number of nodes, every set of weights and
   every graph; about the lists of Process, for every snapshot and every
   array; about Sorting, for arrays of every length: after them the loops of the
   four sorts, and the orders of files; and about Base64, for data of every
   length.                                                                  *)
EXTENDS Library, Base64, FiniteSetTheorems, SequenceTheorems, WellFoundedInduction, TLAPS

(* The smallest member of a set of nodes names it: joining keeps the array an
   array of nodes.                                                          *)
LEMMA JoinTyping ==
  ASSUME sets \in [Node -> Node], NEW a, NEW b, join(a, b)
  PROVE  sets' \in [Node -> Node]
BY DEF join, relabelled

(* The type invariant.                                                      *)
THEOREM Typing == Spec => []TypeOK
<1>1. Init => TypeOK
  BY KruskalAssumption DEF Init, TypeOK, SETS, Node
<1>2. TypeOK /\ [Next]_vars => TypeOK'
  <2> SUFFICES ASSUME TypeOK, [Next]_vars PROVE TypeOK'
    OBVIOUS
  <2> USE KruskalAssumption DEF TypeOK
  <2>1. ASSUME NEW e \in Edge, AddEdge(e) PROVE TypeOK'
    BY <2>1 DEF AddEdge
  <2>2. CASE MST_KRUSKAL
    BY <2>2 DEF MST_KRUSKAL, SETS
  <2>3. CASE SelectEdge
    BY <2>3 DEF SelectEdge
  <2>4. CASE SortedAll
    BY <2>4 DEF SortedAll
  <2>5. CASE TakeEdge
    <3>1. sets' \in [Node -> Node]
      BY <2>5, JoinTyping DEF TakeEdge
    <3>2. QED
      BY <2>5, <3>1 DEF TakeEdge
  <2>6. CASE DropEdge
    BY <2>6 DEF DropEdge
  <2>7. CASE Return
    BY <2>7 DEF Return
  <2>8. CASE UNCHANGED vars
    BY <2>8 DEF vars
  <2>9. QED
    BY <2>1, <2>2, <2>3, <2>4, <2>5, <2>6, <2>7, <2>8 DEF Next
<1>3. QED
  BY <1>1, <1>2, PTL DEF Spec

(* While the sort is under way, the edges before i are sorted and none of them
   is heavier than an edge from i on.                                       *)
SortedPrefix ==
  phase = "sort" =>
    \A j, k \in DOMAIN edge : j < i /\ j <= k => edge[j].w <= edge[k].w

(* MST_KRUSKAL meets the edges lightest first.                              *)
THEOREM Sorting == Spec => []LightestFirst
<1> DEFINE Inv == TypeOK /\ SortedPrefix /\ LightestFirst
<1>1. Init => SortedPrefix /\ LightestFirst
  BY DEF Init, SortedPrefix, LightestFirst
<1>2. TypeOK /\ SortedPrefix /\ LightestFirst /\ [Next]_vars
        => SortedPrefix' /\ LightestFirst'
  <2> SUFFICES ASSUME TypeOK, SortedPrefix, LightestFirst, [Next]_vars
               PROVE  SortedPrefix' /\ LightestFirst'
    OBVIOUS
  <2> USE KruskalAssumption DEF SortedPrefix, LightestFirst
  <2>1. ASSUME NEW e \in Edge, AddEdge(e) PROVE SortedPrefix' /\ LightestFirst'
    BY <2>1 DEF AddEdge
  <2>2. CASE MST_KRUSKAL
    BY <2>2 DEF MST_KRUSKAL, TypeOK
  <2>3. CASE SelectEdge
    <3>1. PICK p \in DOMAIN edge :
            lightest(p) /\ edge' = [edge EXCEPT ![i] = edge[p], ![p] = edge[i]]
      BY <2>3 DEF SelectEdge
    <3>2. DOMAIN edge' = DOMAIN edge /\ DOMAIN edge = 1 .. Len(edge)
      BY <3>1 DEF TypeOK
    <3>3. \A k \in DOMAIN edge : edge[k] \in Edge
      BY DEF TypeOK
    <3>4. \A k \in DOMAIN edge : edge[k].w \in Int
      BY <3>3 DEF Edge
    <3>5. i \in DOMAIN edge /\ i \in Nat /\ i <= p /\ p \in Nat
      BY <2>3, <3>1, <3>2 DEF SelectEdge, TypeOK, lightest
    <3>6. \A k \in DOMAIN edge :
            edge'[k] = IF k = p THEN edge[i] ELSE IF k = i THEN edge[p] ELSE edge[k]
      BY <3>1, <3>5
    <3>7. \A k \in i .. Len(edge) : edge[p].w <= edge[k].w
      BY <3>1 DEF lightest
    <3>8. ASSUME NEW j \in DOMAIN edge, NEW k \in DOMAIN edge, j < i + 1, j <= k
          PROVE  edge'[j].w <= edge'[k].w
      <4>1. CASE j = i
        <5>1. edge'[j] = edge[p]
          BY <3>6, <4>1
        <5>2. edge'[k] \in {edge[m] : m \in i .. Len(edge)}
          BY <3>2, <3>5, <3>6, <3>8, <4>1
        <5>3. QED
          BY <3>7, <5>1, <5>2
      <4>2. CASE j < i
        <5>1. edge'[j] = edge[j]
          BY <3>5, <3>6, <4>2
        <5>2. PICK m \in DOMAIN edge : j <= m /\ edge'[k] = edge[m]
          BY <3>2, <3>5, <3>6, <3>8, <4>2
        <5>3. QED
          BY <2>3, <4>2, <5>1, <5>2 DEF SelectEdge
      <4>3. QED
        BY <3>2, <3>5, <3>8, <4>1, <4>2
    <3>9. QED
      BY <2>3, <3>2, <3>8 DEF SelectEdge
  <2>4. CASE SortedAll
    BY <2>4 DEF SortedAll, TypeOK
  <2>5. CASE TakeEdge \/ DropEdge \/ Return
    BY <2>5 DEF TakeEdge, DropEdge, Return
  <2>6. CASE UNCHANGED vars
    BY <2>6 DEF vars
  <2>7. QED
    BY <2>1, <2>2, <2>3, <2>4, <2>5, <2>6 DEF Next
<1>3. QED
  BY <1>1, <1>2, Typing, PTL DEF Spec

------------------------------------------------------------------------------
(* What join does to the relation "in the same set": it adds what follows from
   the pair it is given.                                                    *)
LEMMA JoinUnites ==
  ASSUME sets \in [Node -> Node], NEW a \in Node, NEW b \in Node, join(a, b),
         NEW x \in Node, NEW y \in Node
  PROVE  sets'[x] = sets'[y] <=>
           \/ sets[x] = sets[y]
           \/ sets[x] = sets[a] /\ sets[b] = sets[y]
           \/ sets[x] = sets[b] /\ sets[a] = sets[y]
BY DEF join, relabelled

(* The numbers of the sets stay members of their sets, and the smallest.      *)
LEMMA JoinNames ==
  ASSUME N \in Nat, sets \in [Node -> Node], NamedByMember, NEW a, NEW b, join(a, b)
  PROVE  NamedByMember'
<1>1. CASE ~ {a, b} \subseteq Node
  BY <1>1 DEF join, NamedByMember
<1>2. CASE {a, b} \subseteq Node
  <2> DEFINE lo == IF sets[a] < sets[b] THEN sets[a] ELSE sets[b]
             hi == IF sets[a] < sets[b] THEN sets[b] ELSE sets[a]
  <2>1. sets' = relabelled(hi, lo)
    BY <1>2 DEF join
  <2>2. Node \subseteq Int /\ lo \in Node /\ hi \in Node /\ lo <= hi
    BY <1>2 DEF Node
  <2>3. sets[lo] = lo /\ sets[hi] = hi
    BY <1>2 DEF NamedByMember
  <2> HIDE DEF lo, hi
  <2>4. ASSUME NEW x \in Node PROVE sets'[sets'[x]] = sets'[x] /\ sets'[x] <= x
    <3>1. sets[x] \in Node /\ sets[sets[x]] = sets[x] /\ sets[x] <= x
      BY DEF NamedByMember
    <3>2. sets'[lo] = lo
      BY <2>1, <2>2, <2>3 DEF relabelled
    <3>3. CASE sets[x] = hi
      <4>1. sets'[x] = lo
        BY <2>1, <3>3 DEF relabelled
      <4>2. QED
        BY <2>2, <3>1, <3>2, <3>3, <4>1
    <3>4. CASE sets[x] # hi
      <4>1. sets'[x] = sets[x] /\ sets'[sets[x]] = sets[x]
        BY <2>1, <3>1, <3>4 DEF relabelled
      <4>2. QED
        BY <3>1, <4>1
    <3>5. QED
      BY <3>3, <3>4
  <2>5. QED
    BY <2>4 DEF NamedByMember
<1>3. QED
  BY <1>1, <1>2

(* found returns the smallest member of the node's own set.                  *)
THEOREM Naming == Spec => []NamedByMember
<1>1. Init => NamedByMember
  BY KruskalAssumption DEF Init, SETS, NamedByMember, Node
<1>2. TypeOK /\ NamedByMember /\ [Next]_vars => NamedByMember'
  <2> SUFFICES ASSUME TypeOK, NamedByMember, [Next]_vars PROVE NamedByMember'
    OBVIOUS
  <2>1. CASE MST_KRUSKAL
    BY <2>1, KruskalAssumption DEF MST_KRUSKAL, SETS, NamedByMember, Node
  <2>2. CASE TakeEdge
    BY <2>2, JoinNames, KruskalAssumption DEF TakeEdge, TypeOK
  <2>3. CASE UNCHANGED sets
    BY <2>3 DEF NamedByMember
  <2>4. QED
    BY <2>1, <2>2, <2>3
    DEF Next, AddEdge, SelectEdge, SortedAll, DropEdge, Return, vars
<1>3. QED
  BY <1>1, <1>2, Typing, PTL DEF Spec

(* SETS implements the growing equivalence relation: the array reads as an
   abstract partition, a join as a union and everything else as a stutter.   *)
THEOREM Refinement == Spec => ImplementsPartition
<1> DEFINE same == {p \in Node \X Node : sets[p[1]] = sets[p[2]]}
<1>1. Init => P!Init
  BY DEF Init, SETS, P!Init, P!Equality
<1>2. TypeOK /\ [Next]_vars => [P!Next]_same
  <2> SUFFICES ASSUME TypeOK, [Next]_vars PROVE P!Next \/ same' = same
    OBVIOUS
  <2>1. CASE MST_KRUSKAL
    <3>1. P!New
      BY <2>1 DEF MST_KRUSKAL, SETS, P!New, P!Equality
    <3>2. QED
      BY <3>1 DEF P!Next
  <2>2. CASE TakeEdge
    <3>1. sets \in [Node -> Node] /\ sets' \in [Node -> Node]
      BY <2>2, JoinTyping DEF TakeEdge, TypeOK
    <3>2. PICK a, b : a = edge[i].u /\ b = edge[i].v
      OBVIOUS
    <3>3. join(a, b)
      BY <2>2, <3>2 DEF TakeEdge
    <3>4. CASE a \in Node /\ b \in Node
      <4>1. \A x, y \in Node :
              sets'[x] = sets'[y] <=>
                \/ sets[x] = sets[y]
                \/ sets[x] = sets[a] /\ sets[b] = sets[y]
                \/ sets[x] = sets[b] /\ sets[a] = sets[y]
        BY <3>1, <3>3, <3>4, JoinUnites
      <4>2. P!Unite(a, b)
        BY <3>1, <3>4, <4>1 DEF P!Unite
      <4>3. QED
        BY <3>4, <4>2 DEF P!Next
    <3>5. CASE ~ (a \in Node /\ b \in Node)
      BY <3>3, <3>5 DEF join
    <3>6. QED
      BY <3>4, <3>5
  <2>3. CASE UNCHANGED sets
    <3>1. same' = same
      BY <2>3
    <3>2. QED
      BY <3>1
  <2>4. QED
    BY <2>1, <2>2, <2>3
    DEF Next, AddEdge, SelectEdge, SortedAll, DropEdge, Return, vars
<1>3. QED
  BY <1>1, <1>2, Typing, PTL DEF Spec, ImplementsPartition, P!Spec

------------------------------------------------------------------------------
(* Taking an edge adds it to the tree if both its ends are nodes of the graph. *)
LEMMA TreeGrows ==
  ASSUME TypeOK, TakeEdge
  PROVE  /\ edge[i] \in Edge
         /\ tree' = IF inner(edge[i]) THEN tree \cup {edge[i]} ELSE tree
<1>1. edge[i] \in Edge /\ A \in Seq(Edge) /\ A' = Append(A, edge[i])
  BY DEF TypeOK, TakeEdge
<1>2. /\ DOMAIN A = 1 .. Len(A) /\ DOMAIN A' = 1 .. Len(A) + 1 /\ Len(A) \in Nat
      /\ A'[Len(A) + 1] = edge[i]
      /\ \A k \in 1 .. Len(A) : A'[k] = A[k]
  BY <1>1
<1>3. tree' = {A'[k] : k \in {k \in DOMAIN A' : inner(A'[k])}}
  BY DEF tree, inner
<1>4. QED
  BY <1>1, <1>2, <1>3 DEF tree, inner

(* Every edge of the tree joins nodes of one set.                            *)
Joined == \A e \in tree : sets[e.u] = sets[e.v]

(* Nodes of one set are connected by the tree.                               *)
Linked == \A a, b \in Node : sets[a] = sets[b] => connected(tree, a, b)

LEMMA ComponentsFromLinks ==
  ASSUME TypeOK, Joined, Linked
  PROVE  SetsAreComponents
<1> SUFFICES ASSUME NEW a \in Node, NEW b \in Node, connected(tree, a, b)
             PROVE  sets[a] = sets[b]
  BY DEF Linked, SetsAreComponents
<1> DEFINE S == {x \in Node : sets[x] = sets[a]}
<1>1. \A e \in tree : e.u \in Node /\ e.v \in Node
  BY DEF tree, inner
<1>2. closed(tree, S)
  BY <1>1 DEF closed, Joined
<1>3. S \in SUBSET Node /\ a \in S
  OBVIOUS
<1>4. b \in S
  BY <1>2, <1>3 DEF connected
<1>5. QED
  BY <1>4

LEMMA LinksGrow ==
  ASSUME TypeOK, Joined, Linked, TakeEdge
  PROVE  Joined' /\ Linked'
<1>1. /\ edge[i] \in Edge
      /\ tree' = IF inner(edge[i]) THEN tree \cup {edge[i]} ELSE tree
  BY TreeGrows
<1>2. PICK e : e = edge[i]
  OBVIOUS
<1>3. /\ sets \in [Node -> Node] /\ sets' \in [Node -> Node]
      /\ join(e.u, e.v)
  BY <1>2, JoinTyping DEF TypeOK, TakeEdge
<1>4. CASE ~ inner(e)
  <2>1. sets' = sets /\ tree' = tree
    BY <1>1, <1>2, <1>3, <1>4 DEF join, inner
  <2>2. QED
    BY <2>1 DEF Joined, Linked, connected, closed
<1>5. CASE inner(e)
  <2>1. tree' = tree \cup {e} /\ e.u \in Node /\ e.v \in Node
    BY <1>1, <1>2, <1>5 DEF inner
  <2>2. \A x, y \in Node :
          sets'[x] = sets'[y] <=>
            \/ sets[x] = sets[y]
            \/ sets[x] = sets[e.u] /\ sets[e.v] = sets[y]
            \/ sets[x] = sets[e.v] /\ sets[e.u] = sets[y]
    BY <1>3, <2>1, JoinUnites
  <2>3. \A f \in tree : f.u \in Node /\ f.v \in Node
    BY DEF tree, inner
  <2>4. Joined'
    BY <2>1, <2>2, <2>3 DEF Joined
  <2>5. ASSUME NEW a \in Node, NEW b \in Node, sets'[a] = sets'[b],
               NEW S \in SUBSET Node, closed(tree', S), a \in S
        PROVE  b \in S
    <3>1. closed(tree, S) /\ (e.u \in S <=> e.v \in S)
      BY <2>1, <2>5 DEF closed
    <3>2. \A x, y \in Node : sets[x] = sets[y] /\ x \in S => y \in S
      BY <3>1 DEF Linked, connected
    <3>3. QED
      BY <2>1, <2>2, <2>5, <3>1, <3>2
  <2>6. Linked'
    BY <2>5 DEF Linked, connected
  <2>7. QED
    BY <2>4, <2>6
<1>6. QED
  BY <1>4, <1>5

LEMMA Linking == Spec => [](Joined /\ Linked)
<1>1. Init => Joined /\ Linked
  BY DEF Init, SETS, Joined, Linked, tree, connected
<1>2. TypeOK /\ Joined /\ Linked /\ [Next]_vars => Joined' /\ Linked'
  <2> SUFFICES ASSUME TypeOK, Joined, Linked, [Next]_vars PROVE Joined' /\ Linked'
    OBVIOUS
  <2>1. CASE MST_KRUSKAL
    <3>1. tree' = {} /\ sets' = [x \in Node |-> x]
      BY <2>1 DEF MST_KRUSKAL, SETS, tree
    <3>2. QED
      BY <3>1 DEF Joined, Linked, connected
  <2>2. CASE TakeEdge
    BY <2>2, LinksGrow
  <2>3. CASE UNCHANGED <<sets, A>>
    BY <2>3 DEF Joined, Linked, tree, connected, closed, inner
  <2>4. QED
    BY <2>1, <2>2, <2>3
    DEF Next, AddEdge, SelectEdge, SortedAll, DropEdge, Return, vars
<1>3. QED
  BY <1>1, <1>2, Typing, PTL DEF Spec

(* The array of SETS holds the components of the tree.                       *)
THEOREM Components == Spec => []SetsAreComponents
  BY Typing, Linking, ComponentsFromLinks, PTL

------------------------------------------------------------------------------
(* The numbers in use, and the edges taken between nodes of the graph.        *)
names == {sets[x] : x \in Node}
inTree == {k \in DOMAIN A : inner(A[k])}

LEMMA NodesFinite == IsFiniteSet(Node) /\ Cardinality(Node) = N
BY KruskalAssumption, FS_Interval DEF Node

LEMMA CountsAreNumbers ==
  ASSUME TypeOK
  PROVE  /\ IsFiniteSet(names) /\ Cardinality(names) \in Nat
         /\ IsFiniteSet(inTree) /\ Cardinality(inTree) \in Nat
<1>1. names \subseteq Node
  BY DEF TypeOK, names
<1>2. IsFiniteSet(names)
  BY <1>1, NodesFinite, FS_Subset
<1>3. DOMAIN A = 1 .. Len(A) /\ Len(A) \in Nat
  BY DEF TypeOK
<1>4. IsFiniteSet(DOMAIN A)
  BY <1>3, FS_Interval
<1>5. IsFiniteSet(inTree)
  BY <1>4, FS_Subset DEF inTree
<1>6. QED
  BY <1>2, <1>5, FS_CardinalityType

(* An edge that is taken between nodes of the graph is one edge more and one
   set less.                                                                *)
LEMMA OneMoreOneLess ==
  ASSUME TypeOK, Forest, TakeEdge
  PROVE  Forest'
<1>1. edge[i] \in Edge /\ A \in Seq(Edge) /\ A' = Append(A, edge[i])
  BY DEF TypeOK, TakeEdge
<1>2. PICK e : e = edge[i]
  OBVIOUS
<1>3. /\ sets \in [Node -> Node] /\ sets' \in [Node -> Node]
      /\ join(e.u, e.v)
  BY <1>2, JoinTyping DEF TypeOK, TakeEdge
<1>4. /\ DOMAIN A = 1 .. Len(A) /\ DOMAIN A' = 1 .. Len(A) + 1 /\ Len(A) \in Nat
      /\ A'[Len(A) + 1] = e
      /\ \A k \in 1 .. Len(A) : A'[k] = A[k]
  BY <1>1, <1>2
<1>5. inTree' = {k \in DOMAIN A' : inner(A'[k])}
  BY DEF inTree, inner
<1>6. Cardinality(inTree) + Cardinality(names) = N
  BY DEF Forest, inTree, names
<1>7. CASE ~ inner(e)
  <2>1. inTree' = inTree
    BY <1>4, <1>5, <1>7 DEF inTree, inner
  <2>2. sets' = sets
    BY <1>3, <1>7 DEF join, inner
  <2>3. QED
    BY <1>6, <2>1, <2>2 DEF Forest, inTree, names
<1>8. CASE inner(e)
  <2>1. e.u \in Node /\ e.v \in Node /\ sets[e.u] # sets[e.v]
    BY <1>2, <1>8 DEF inner, TakeEdge, found
  <2>2. PICK lo \in {sets[e.u], sets[e.v]}, hi \in {sets[e.u], sets[e.v]} :
          lo # hi /\ sets' = [x \in Node |-> IF sets[x] = hi THEN lo ELSE sets[x]]
    BY <1>3, <2>1 DEF join, relabelled
  <2>3. lo \in names /\ hi \in names
    BY <2>1, <2>2 DEF names
  <2>4. names' = {sets'[x] : x \in Node}
    BY DEF names
  <2>5. names' = names \ {hi}
    <3>1. ASSUME NEW n \in names' PROVE n \in names \ {hi}
      BY <2>2, <2>3, <2>4, <3>1 DEF names
    <3>2. ASSUME NEW n \in names \ {hi} PROVE n \in names'
      <4>1. PICK x \in Node : n = sets[x]
        BY <3>2 DEF names
      <4>2. n = sets'[x]
        BY <2>2, <3>2, <4>1
      <4>3. QED
        BY <2>4, <4>2
    <3>3. QED
      BY <3>1, <3>2
  <2>6. Cardinality(names') = Cardinality(names) - 1
    BY <2>3, <2>5, CountsAreNumbers, FS_RemoveElement
  <2>7. inTree' = inTree \cup {Len(A) + 1} /\ Len(A) + 1 \notin inTree
    BY <1>4, <1>5, <1>8 DEF inTree
  <2>8. Cardinality(inTree') = Cardinality(inTree) + 1
    BY <2>7, CountsAreNumbers, FS_AddElement
  <2>9. Cardinality(inTree') + Cardinality(names') = N
    BY <1>6, <2>6, <2>8, CountsAreNumbers
  <2>10. QED
    BY <2>9 DEF Forest, inTree, names
<1>9. QED
  BY <1>7, <1>8

(* The edges taken contain no cycle.                                         *)
THEOREM Acyclic == Spec => []Forest
<1>1. ASSUME A = << >>, sets = SETS PROVE Forest
  <2>1. inTree = {} /\ names = Node
    BY <1>1 DEF inTree, names, SETS
  <2>2. Cardinality({}) = 0 /\ Cardinality(Node) = N /\ N \in Nat
    BY FS_EmptySet, NodesFinite, KruskalAssumption
  <2>3. QED
    BY <2>1, <2>2 DEF Forest, inTree, names
<1>2. Init => Forest
  BY <1>1 DEF Init
<1>3. TypeOK /\ Forest /\ [Next]_vars => Forest'
  <2> SUFFICES ASSUME TypeOK, Forest, [Next]_vars PROVE Forest'
    OBVIOUS
  <2>1. CASE MST_KRUSKAL
    <3>1. inTree' = {} /\ names' = Node
      BY <2>1 DEF MST_KRUSKAL, inTree, names, SETS
    <3>2. Cardinality({}) = 0 /\ Cardinality(Node) = N /\ N \in Nat
      BY FS_EmptySet, NodesFinite, KruskalAssumption
    <3>3. Cardinality(inTree') + Cardinality(names') = N
      BY <3>1, <3>2
    <3>4. QED
      BY <3>3 DEF Forest, inTree, names
  <2>2. CASE TakeEdge
    BY <2>2, OneMoreOneLess
  <2>3. CASE UNCHANGED <<sets, A>>
    BY <2>3 DEF Forest, inner
  <2>4. QED
    BY <2>1, <2>2, <2>3
    DEF Next, AddEdge, SelectEdge, SortedAll, DropEdge, Return, vars
<1>4. QED
  BY <1>2, <1>3, Typing, PTL DEF Spec

(* After any sequence of joins SETS names the components of the tree.       *)
THEOREM SetsStaySound == Spec => []SetsSound
  BY Typing, Components, Naming, PTL DEF SetsSound

------------------------------------------------------------------------------
(* Sorting and joining leave the edges there, in another order: the two that
   change places are a rearrangement, and so is no change.                  *)
THEOREM EdgesStayThere == Spec => EdgesKept
<1>1. ASSUME TypeOK PROVE rearranged(edge, edge)
  <2> DEFINE from == [k \in DOMAIN edge |-> k]
  <2>1. from \in [DOMAIN edge -> DOMAIN edge]
    OBVIOUS
  <2>2. edge = [k \in DOMAIN edge |-> edge[k]]
    BY <1>1 DEF TypeOK
  <2>3. edge = [k \in DOMAIN edge |-> edge[from[k]]]
    BY <2>2
  <2>4. QED
    BY <2>1, <2>3 DEF rearranged
<1>2. ASSUME TypeOK, SelectEdge PROVE rearranged(edge, edge')
  <2>1. PICK p \in DOMAIN edge : edge' = [edge EXCEPT ![i] = edge[p], ![p] = edge[i]]
    BY <1>2 DEF SelectEdge
  <2>2. i \in DOMAIN edge
    BY <1>2 DEF SelectEdge, TypeOK
  <2> DEFINE from == [k \in DOMAIN edge |-> IF k = p THEN i ELSE IF k = i THEN p ELSE k]
  <2>3. from \in [DOMAIN edge -> DOMAIN edge]
    BY <2>1, <2>2
  <2>4. \A j, k \in DOMAIN edge : from[j] = from[k] => j = k
    OBVIOUS
  <2>5. edge' = [k \in DOMAIN edge |-> edge[from[k]]]
    BY <2>1, <2>2
  <2>6. QED
    BY <2>3, <2>4, <2>5 DEF rearranged
<1>3. TypeOK /\ [Next]_vars => [phase # "build" => rearranged(edge, edge')]_vars
  BY <1>1, <1>2
  DEF Next, AddEdge, MST_KRUSKAL, SortedAll, TakeEdge, DropEdge, Return
<1>4. QED
  BY <1>3, Typing, PTL DEF Spec, EdgesKept

------------------------------------------------------------------------------
(* Weights. A set of numbers has a least one, which is all the induction the
   rest needs.                                                              *)
LEMMA LeastNumber ==
  ASSUME NEW T, T \subseteq Nat, T # {}
  PROVE  \E x \in T : \A y \in T : x <= y
<1>1. PICK x \in T : \A y \in T : <<y, x>> \notin OpToRel(<, Nat)
  BY WFMin, NatLessThanWellFounded
<1>2. \A y \in T : ~ (y < x)
  BY <1>1 DEF OpToRel
<1>3. QED
  BY <1>2

(* g adds up the first n numbers of c.                                      *)
AddsUp(n, c, g) ==
  /\ g \in [0 .. n -> Int]
  /\ g[0] = 0
  /\ \A k \in 1 .. n : g[k] = g[k - 1] + c[k]

LEMMA OneMore ==
  ASSUME NEW n \in Nat, NEW c \in [1 .. n + 1 -> Int], NEW g, AddsUp(n, c, g)
  PROVE  \E h : AddsUp(n + 1, c, h)
<1> DEFINE h == [k \in 0 .. n + 1 |-> IF k = n + 1 THEN g[n] + c[n + 1] ELSE g[k]]
<1>1. h \in [0 .. n + 1 -> Int]
  BY DEF AddsUp
<1>2. h[0] = 0
  BY DEF AddsUp
<1>3. ASSUME NEW k \in 1 .. n + 1 PROVE h[k] = h[k - 1] + c[k]
  <2>1. CASE k = n + 1
    BY <2>1
  <2>2. CASE k \in 1 .. n
    BY <2>2 DEF AddsUp
  <2>3. QED
    BY <2>1, <2>2
<1>4. AddsUp(n + 1, c, h)
  BY <1>1, <1>2, <1>3 DEF AddsUp
<1>5. QED
  BY <1>4

LEMMA SumsExist ==
  ASSUME NEW n \in Nat, NEW c \in [1 .. n -> Int]
  PROVE  \E g : AddsUp(n, c, g)
<1> DEFINE T == {m \in 0 .. n : ~ \E g : AddsUp(m, c, g)}
<1>1. SUFFICES ASSUME T # {} PROVE FALSE
  <2>1. n \in 0 .. n
    OBVIOUS
  <2>2. QED
    BY <1>1, <2>1
<1>2. PICK m \in T : \A y \in T : m <= y
  <2>1. T \subseteq Nat
    OBVIOUS
  <2> HIDE DEF T
  <2>2. QED
    BY <1>1, <2>1, LeastNumber
<1>3. CASE m = 0
  <2>1. AddsUp(0, c, [k \in 0 .. 0 |-> 0])
    BY DEF AddsUp
  <2>2. QED
    BY <1>3, <2>1
<1>4. CASE m # 0
  <2>1. m \in 1 .. n /\ m - 1 \in 0 .. n /\ m - 1 \in Nat /\ ~ (m <= m - 1)
    BY <1>4
  <2>2. PICK g : AddsUp(m - 1, c, g)
    BY <1>2, <2>1
  <2> DEFINE d == [k \in 1 .. m |-> c[k]]
  <2>3. \A k \in 1 .. m : k \in 1 .. n /\ c[k] \in Int
    BY <2>1
  <2>4. d \in [1 .. (m - 1) + 1 -> Int]
    BY <2>1, <2>3
  <2>5. AddsUp(m - 1, d, g)
    BY <2>1, <2>2, <2>3 DEF AddsUp
  <2>6. PICK h : AddsUp((m - 1) + 1, d, h)
    <3> HIDE DEF d
    <3>1. QED
      BY <2>1, <2>4, <2>5, OneMore
  <2>7. AddsUp(m, d, h)
    BY <2>1, <2>6
  <2>8. AddsUp(m, c, h)
    BY <2>1, <2>7 DEF AddsUp
  <2>9. QED
    BY <2>8
<1>5. QED
  BY <1>3, <1>4

(* What the edge at place k adds to the weight of the places I.              *)
part(s, I) == [k \in 1 .. Len(s) |-> IF k \in I THEN s[k].w ELSE 0]

LEMMA PartsAreNumbers ==
  ASSUME NEW s \in Seq(Edge), NEW I
  PROVE  /\ Len(s) \in Nat
         /\ part(s, I) \in [1 .. Len(s) -> Int]
<1>1. Len(s) \in Nat /\ \A k \in 1 .. Len(s) : s[k] \in Edge
  BY LenProperties, ElementOfSeq
<1>2. \A k \in 1 .. Len(s) : s[k].w \in Int
  BY <1>1, KruskalAssumption DEF Edge
<1>3. QED
  BY <1>1, <1>2 DEF part

LEMMA SumsAddUp ==
  ASSUME NEW s \in Seq(Edge), NEW I
  PROVE  AddsUp(Len(s), part(s, I), sums(s, I))
<1> DEFINE n == Len(s)
           c == part(s, I)
           rule(g) == g = [k \in 0 .. n |-> IF k = 0 THEN 0 ELSE g[k - 1] +
                                                (IF k \in I THEN s[k].w ELSE 0)]
<1>1. n \in Nat /\ c \in [1 .. n -> Int]
  BY PartsAreNumbers
<1>2. \A k \in 1 .. n : c[k] = IF k \in I THEN s[k].w ELSE 0
  BY DEF part
<1>3. PICK g : AddsUp(n, c, g)
  <2> HIDE DEF n, c
  <2>1. QED
    BY <1>1, SumsExist
<1>4. rule(g)
  <2> HIDE DEF n, c
  <2>1. g \in [0 .. n -> Int] /\ g[0] = 0
    BY <1>3 DEF AddsUp
  <2>2. \A k \in 1 .. n : g[k] = g[k - 1] + (IF k \in I THEN s[k].w ELSE 0)
    BY <1>2, <1>3 DEF AddsUp
  <2>3. \A k \in 0 .. n : k = 0 \/ k \in 1 .. n
    BY <1>1
  <2>4. QED
    BY <2>1, <2>2, <2>3
<1>5. sums(s, I) = CHOOSE f : rule(f)
  BY DEF sums
<1>6. rule(sums(s, I))
  <2> HIDE DEF rule
  <2>1. QED
    BY <1>4, <1>5
<1>7. \A f : rule(f) => AddsUp(n, c, f)
  <2> SUFFICES ASSUME NEW f, rule(f) PROVE AddsUp(n, c, f)
    OBVIOUS
  <2> HIDE DEF n, c
  <2>1. f[0] = 0 /\ DOMAIN f = 0 .. n
    BY <1>1
  <2>2. ASSUME NEW k \in 1 .. n PROVE f[k] = f[k - 1] + c[k]
    BY <1>1, <1>2
  <2>3. f = [k \in 0 .. n |-> f[k]]
    BY <2>1
  <2> DEFINE T == {k \in 0 .. n : f[k] \notin Int}
  <2>4. T = {}
    <3> SUFFICES ASSUME T # {} PROVE FALSE
      OBVIOUS
    <3>1. PICK m \in T : \A y \in T : m <= y
      <4>1. T \subseteq Nat
        BY <1>1
      <4> HIDE DEF T
      <4>2. QED
        BY <4>1, LeastNumber
    <3>2. m # 0
      BY <2>1, <3>1
    <3>3. m \in 1 .. n /\ m - 1 \in 0 .. n /\ ~ (m <= m - 1)
      BY <1>1, <3>1, <3>2
    <3>4. f[m - 1] \in Int /\ c[m] \in Int
      BY <1>1, <3>1, <3>3
    <3>5. f[m] = f[m - 1] + c[m]
      BY <2>2, <3>3
    <3>6. f[m] \in Int
      BY <3>4, <3>5
    <3>7. f[m] \notin Int
      BY <3>1
    <3>8. QED
      BY <3>6, <3>7
  <2>5. \A k \in 0 .. n : f[k] \in Int
    BY <2>4
  <2>6. f \in [0 .. n -> Int]
    BY <2>3, <2>5
  <2>7. QED
    BY <2>1, <2>2, <2>6 DEF AddsUp
<1>8. QED
  <2> HIDE DEF rule
  <2>1. QED
    BY <1>6, <1>7

(* Two sums whose parts are the same but for one, which is larger by x.       *)
Differ(n, c, d, p, x) ==
  /\ c \in [1 .. n -> Int] /\ d \in [1 .. n -> Int]
  /\ p \in 1 .. n + 1 /\ x \in Int
  /\ \A k \in 1 .. n : d[k] = IF k = p THEN c[k] + x ELSE c[k]

LEMMA SumsCompared ==
  ASSUME NEW n \in Nat, NEW c, NEW d, NEW p, NEW x, Differ(n, c, d, p, x),
         NEW g, AddsUp(n, c, g), NEW h, AddsUp(n, d, h)
  PROVE  \A k \in 0 .. n : h[k] = IF k < p THEN g[k] ELSE g[k] + x
<1> USE DEF Differ
<1> DEFINE T == {k \in 0 .. n : h[k] # IF k < p THEN g[k] ELSE g[k] + x}
<1> SUFFICES ASSUME T # {} PROVE FALSE
  OBVIOUS
<1>1. PICK m \in T : \A y \in T : m <= y
  <2>1. T \subseteq Nat
    OBVIOUS
  <2> HIDE DEF T
  <2>2. QED
    BY <2>1, LeastNumber
<1>2. g[0] = 0 /\ h[0] = 0 /\ g \in [0 .. n -> Int] /\ h \in [0 .. n -> Int]
  BY DEF AddsUp
<1>3. m # 0
  BY <1>1, <1>2
<1>4. m \in 1 .. n /\ m - 1 \in 0 .. n /\ ~ (m <= m - 1)
  BY <1>1, <1>3
<1>5. h[m - 1] = IF m - 1 < p THEN g[m - 1] ELSE g[m - 1] + x
  BY <1>1, <1>4
<1>6. g[m] = g[m - 1] + c[m] /\ h[m] = h[m - 1] + d[m]
  BY <1>4 DEF AddsUp
<1>7. d[m] = IF m = p THEN c[m] + x ELSE c[m]
  BY <1>4
<1>8. g[m - 1] \in Int /\ h[m - 1] \in Int /\ c[m] \in Int /\ d[m] \in Int
  BY <1>2, <1>4
<1>9. h[m] = IF m < p THEN g[m] ELSE g[m] + x
  <2>1. CASE m < p
    BY <1>4, <1>5, <1>6, <1>7, <1>8, <2>1
  <2>2. CASE m = p
    BY <1>4, <1>5, <1>6, <1>7, <1>8, <2>2
  <2>3. CASE m > p
    BY <1>4, <1>5, <1>6, <1>7, <1>8, <2>3
  <2>4. QED
    BY <1>4, <2>1, <2>2, <2>3
<1>10. QED
  BY <1>1, <1>9

LEMMA WeightIsNumber ==
  ASSUME NEW s \in Seq(Edge), NEW I
  PROVE  weight(s, I) \in Int
<1>1. AddsUp(Len(s), part(s, I), sums(s, I)) /\ Len(s) \in Nat
  BY SumsAddUp, PartsAreNumbers
<1>2. QED
  BY <1>1 DEF AddsUp, weight

(* A place more adds the weight of its edge.                                 *)
LEMMA PlaceMore ==
  ASSUME NEW s \in Seq(Edge), NEW I, NEW p \in 1 .. Len(s), p \notin I
  PROVE  weight(s, I \cup {p}) = weight(s, I) + s[p].w
<1> DEFINE n == Len(s)
           J == I \cup {p}
<1>1. n \in Nat /\ s[p].w \in Int
  <2>1. s[p] \in Edge
    BY ElementOfSeq
  <2>2. QED
    BY <2>1, LenProperties, KruskalAssumption DEF Edge
<1>2. part(s, I) \in [1 .. n -> Int] /\ part(s, J) \in [1 .. n -> Int]
  BY PartsAreNumbers
<1>3. AddsUp(n, part(s, I), sums(s, I)) /\ AddsUp(n, part(s, J), sums(s, J))
  BY SumsAddUp
<1>4. \A k \in 1 .. n : part(s, J)[k] = IF k = p THEN part(s, I)[k] + s[p].w ELSE part(s, I)[k]
  BY <1>1 DEF part
<1>5. sums(s, J)[n] = IF n < p THEN sums(s, I)[n] ELSE sums(s, I)[n] + s[p].w
  <2>1. p \in 1 .. n + 1 /\ n \in 0 .. n
    BY <1>1
  <2> DEFINE c == part(s, I)
             d == part(s, J)
             g == sums(s, I)
             h == sums(s, J)
             x == s[p].w
  <2>2. /\ n \in Nat /\ c \in [1 .. n -> Int] /\ d \in [1 .. n -> Int] /\ x \in Int
        /\ AddsUp(n, c, g) /\ AddsUp(n, d, h)
        /\ \A k \in 1 .. n : d[k] = IF k = p THEN c[k] + x ELSE c[k]
    BY <1>1, <1>2, <1>3, <1>4
  <2> HIDE DEF n, c, d, g, h, x
  <2>3. \A k \in 0 .. n : h[k] = IF k < p THEN g[k] ELSE g[k] + x
    <3>1. Differ(n, c, d, p, x)
      BY <2>1, <2>2 DEF Differ
    <3>2. QED
      BY <2>2, <3>1, SumsCompared
  <2>4. h[n] = IF n < p THEN g[n] ELSE g[n] + x
    BY <2>1, <2>3
  <2>5. QED
    BY <2>4 DEF n, g, h, x
<1>6. ~ (n < p)
  BY <1>1
<1>7. QED
  BY <1>5, <1>6 DEF weight

(* An edge more at the end weighs nothing unless its place is chosen.         *)
LEMMA EdgeMore ==
  ASSUME NEW s \in Seq(Edge), NEW e \in Edge, NEW I, I \subseteq 1 .. Len(s)
  PROVE  /\ weight(Append(s, e), I) = weight(s, I)
         /\ weight(Append(s, e), I \cup {Len(s) + 1}) = weight(s, I) + e.w
<1> DEFINE n == Len(s)
           t == Append(s, e)
<1>1. /\ t \in Seq(Edge) /\ Len(t) = n + 1 /\ n \in Nat
      /\ \A k \in 1 .. n : t[k] = s[k]
      /\ t[n + 1] = e
  BY AppendProperties, LenProperties
<1>2. AddsUp(n, part(s, I), sums(s, I)) /\ AddsUp(n + 1, part(t, I), sums(t, I))
  <2>1. AddsUp(Len(t), part(t, I), sums(t, I))
    BY <1>1, SumsAddUp
  <2>2. QED
    BY <1>1, <2>1, SumsAddUp
<1>3. n + 1 \notin I
  BY <1>1
<1>4. part(t, I)[n + 1] = 0 /\ \A k \in 1 .. n : part(t, I)[k] = part(s, I)[k]
  BY <1>1, <1>3 DEF part
<1> DEFINE g == [k \in 0 .. n |-> sums(t, I)[k]]
<1>5. AddsUp(n, part(s, I), g)
  <2> HIDE DEF n, t
  <2>1. \A k \in 0 .. n : k \in 0 .. n + 1
    BY <1>1
  <2>2. g \in [0 .. n -> Int] /\ g[0] = 0
    BY <1>1, <1>2, <2>1 DEF AddsUp
  <2>3. ASSUME NEW k \in 1 .. n PROVE g[k] = g[k - 1] + part(s, I)[k]
    BY <1>1, <1>2, <1>4 DEF AddsUp
  <2>4. QED
    BY <2>2, <2>3 DEF AddsUp
<1>6. g[n] = sums(s, I)[n]
  <2>1. part(s, I) \in [1 .. n -> Int]
    BY PartsAreNumbers
  <2>2. n + 1 \in 1 .. n + 1 /\ n \in 0 .. n /\ n < n + 1 /\ 0 \in Int
    BY <1>1
  <2>3. \A k \in 1 .. n : part(s, I)[k] = IF k = n + 1 THEN part(s, I)[k] + 0 ELSE part(s, I)[k]
    BY <1>1
  <2> DEFINE c == part(s, I)
             h == sums(s, I)
             q == n + 1
  <2>4. /\ n \in Nat /\ c \in [1 .. n -> Int] /\ q \in 1 .. n + 1
        /\ AddsUp(n, c, h) /\ AddsUp(n, c, g)
        /\ \A k \in 1 .. n : c[k] = IF k = q THEN c[k] + 0 ELSE c[k]
    BY <1>1, <1>2, <1>5, <2>1, <2>2, <2>3
  <2> HIDE DEF n, t, g, c, h, q
  <2>5. \A k \in 0 .. n : g[k] = IF k < q THEN h[k] ELSE h[k] + 0
    <3>1. Differ(n, c, c, q, 0)
      BY <2>4 DEF Differ
    <3>2. QED
      BY <2>4, <3>1, SumsCompared
  <2>6. g[n] = h[n]
    BY <2>2, <2>5 DEF q
  <2>7. QED
    BY <2>6 DEF h
<1>7. sums(t, I)[n + 1] = sums(t, I)[n] + 0 /\ sums(t, I)[n] \in Int
  BY <1>1, <1>2, <1>4 DEF AddsUp
<1>8. weight(t, I) = weight(s, I)
  BY <1>1, <1>6, <1>7 DEF weight
<1>9. weight(t, I \cup {n + 1}) = weight(t, I) + t[n + 1].w
  <2>1. n + 1 \in 1 .. Len(t)
    BY <1>1
  <2> HIDE DEF n, t
  <2>2. QED
    BY <1>1, <1>3, <2>1, PlaceMore
<1>10. QED
  BY <1>1, <1>8, <1>9

------------------------------------------------------------------------------
(* Why the lightest edges first: when one choice of places has, beyond every
   place, as many as another or more, e is by how many; and f, by how much it
   is heavier up to a place, grows by the weight of the place times what e
   loses there.                                                             *)
Outweighs(n, w, e, f) ==
  /\ w \in [1 .. n -> Int] /\ e \in [0 .. n -> Nat] /\ f \in [0 .. n -> Int]
  /\ \A j, k \in 1 .. n : j <= k => w[j] <= w[k]
  /\ e[n] = 0
  /\ \A m \in 1 .. n : f[m] = f[m - 1] + w[m] * (e[m - 1] - e[m])

LEMMA Products ==
  /\ \A x, y \in Int : x * y \in Int /\ x * 0 = 0 /\ x * 1 = x
  /\ \A x, y, z \in Int : x * (y - z) = x * y - x * z
  /\ \A x, y \in Int, z \in Nat : x <= y => x * z <= y * z
<1>1. \A x, y \in Int : x * y \in Int /\ x * 0 = 0 /\ x * 1 = x
  OBVIOUS
<1>2. \A x, y, z \in Int : x * (y - z) = x * y - x * z
  OBVIOUS
<1>3. \A x, y \in Int, z \in Nat : x <= y => x * z <= y * z
  OBVIOUS
<1>4. QED
  BY <1>1, <1>2, <1>3

LEMMA HeavierBeyond ==
  ASSUME NEW n \in Nat, NEW w, NEW e, NEW f, Outweighs(n, w, e, f)
  PROVE  \A m \in 1 .. n : w[m] * e[m - 1] <= f[n] - f[m - 1]
<1> USE DEF Outweighs
<1> DEFINE T == {k \in 0 .. n - 1 : ~ (w[n - k] * e[n - k - 1] <= f[n] - f[n - k - 1])}
<1>1. SUFFICES ASSUME T # {} PROVE FALSE
  <2>1. ASSUME NEW m \in 1 .. n, T = {} PROVE w[m] * e[m - 1] <= f[n] - f[m - 1]
    <3>1. n - m \in 0 .. n - 1 /\ n - (n - m) = m /\ n - (n - m) - 1 = m - 1
      OBVIOUS
    <3>2. n - m \notin T
      BY <2>1
    <3>3. QED
      BY <3>1, <3>2
  <2>2. QED
    BY <1>1, <2>1
<1>2. PICK k \in T : \A y \in T : k <= y
  <2>1. T \subseteq Nat
    OBVIOUS
  <2> HIDE DEF T
  <2>2. QED
    BY <1>1, <2>1, LeastNumber
<1> DEFINE m == n - k
<1>3. /\ k \in 0 .. n - 1 /\ k \in Nat /\ m \in 1 .. n /\ m - 1 \in 0 .. n /\ m \in 0 .. n
      /\ ~ (w[m] * e[m - 1] <= f[n] - f[m - 1])
  BY <1>2
<1>4. /\ w[m] \in Int /\ e[m] \in Nat /\ e[m] \in Int /\ e[m - 1] \in Int
      /\ f[n] \in Int /\ f[m] \in Int /\ f[m - 1] \in Int
  <2>1. n \in 0 .. n
    OBVIOUS
  <2> HIDE DEF m
  <2>2. QED
    BY <1>3, <2>1
<1>5. f[m] = f[m - 1] + (w[m] * e[m - 1] - w[m] * e[m])
  <2>1. f[m] = f[m - 1] + w[m] * (e[m - 1] - e[m])
    BY <1>3
  <2> DEFINE a == w[m]
             b == e[m - 1]
             c == e[m]
  <2>2. a \in Int /\ b \in Int /\ c \in Int
    BY <1>4
  <2>3. a * (b - c) = a * b - a * c
    <3> HIDE DEF a, b, c
    <3>1. QED
      BY <2>2, Products
  <2>4. w[m] * (e[m - 1] - e[m]) = w[m] * e[m - 1] - w[m] * e[m]
    BY <2>3
  <2> HIDE DEF m
  <2>5. QED
    BY <2>1, <2>4
<1>6. CASE k = 0
  <2>1. m = n /\ e[m] = 0
    BY <1>3, <1>6
  <2> HIDE DEF m
  <2>2. w[m] * e[m] = 0 /\ w[m] * e[m - 1] \in Int
    BY <1>4, <2>1, Products
  <2>3. QED
    BY <1>3, <1>4, <1>5, <2>1, <2>2
<1>7. CASE k # 0
  <2>1. k - 1 \in 0 .. n - 1 /\ ~ (k <= k - 1) /\ n - (k - 1) = m + 1 /\ n - (k - 1) - 1 = m
    BY <1>3, <1>7
  <2>2. k - 1 \notin T
    BY <1>2, <2>1
  <2>3. w[m + 1] * e[m] <= f[n] - f[m]
    BY <2>1, <2>2
  <2>4. m + 1 \in 1 .. n
    BY <1>3, <1>7
  <2> HIDE DEF m
  <2>5. w[m + 1] \in Int /\ w[m] <= w[m + 1]
    <3>1. m \in 1 .. n /\ m <= m + 1
      BY <1>3
    <3>2. QED
      BY <2>4, <3>1
  <2>6. w[m] * e[m] <= w[m + 1] * e[m]
    BY <1>4, <2>5, Products
  <2>7. w[m] * e[m] \in Int /\ w[m] * e[m - 1] \in Int /\ w[m + 1] * e[m] \in Int
    BY <1>4, <2>5, Products
  <2> DEFINE x == w[m] * e[m - 1]
             y == w[m] * e[m]
             z == w[m + 1] * e[m]
             before == f[m - 1]
             here == f[m]
             end == f[n]
  <2>8. /\ x \in Int /\ y \in Int /\ z \in Int /\ y <= z /\ z <= end - here
        /\ here = before + (x - y) /\ ~ (x <= end - before)
    BY <1>3, <1>5, <2>3, <2>6, <2>7
  <2>9. before \in Int /\ here \in Int /\ end \in Int
    BY <1>4
  <2> HIDE DEF x, y, z, before, here, end
  <2>10. QED
    BY <2>8, <2>9
<1>8. QED
  BY <1>6, <1>7

(* How many of the places I there are beyond the first m.                    *)
beyond(I, m, n) == Cardinality(I \cap (m + 1 .. n))

LEMMA BeyondCounts ==
  ASSUME NEW n \in Nat, NEW I, I \subseteq 1 .. n
  PROVE  /\ \A m \in 0 .. n : beyond(I, m, n) \in Nat
         /\ beyond(I, n, n) = 0
         /\ beyond(I, 0, n) = Cardinality(I)
         /\ \A m \in 1 .. n :
              beyond(I, m - 1, n) = beyond(I, m, n) + (IF m \in I THEN 1 ELSE 0)
<1>1. ASSUME NEW m \in 0 .. n
      PROVE  IsFiniteSet(I \cap (m + 1 .. n)) /\ beyond(I, m, n) \in Nat
  <2>1. IsFiniteSet(m + 1 .. n)
    BY FS_Interval
  <2>2. IsFiniteSet(I \cap (m + 1 .. n))
    BY <2>1, FS_Intersection
  <2>3. QED
    BY <2>2, FS_CardinalityType DEF beyond
<1>2. beyond(I, n, n) = 0
  <2>1. I \cap (n + 1 .. n) = {}
    OBVIOUS
  <2>2. QED
    BY <2>1, FS_EmptySet DEF beyond
<1>3. beyond(I, 0, n) = Cardinality(I)
  <2>1. I \cap (0 + 1 .. n) = I
    <3>1. 0 + 1 = 1
      OBVIOUS
    <3>2. QED
      BY <3>1
  <2>2. QED
    BY <2>1 DEF beyond
<1>4. ASSUME NEW m \in 1 .. n
      PROVE  beyond(I, m - 1, n) = beyond(I, m, n) + (IF m \in I THEN 1 ELSE 0)
  <2> DEFINE R == I \cap (m + 1 .. n)
  <2>1. IsFiniteSet(R) /\ Cardinality(R) \in Nat
    BY <1>1 DEF beyond
  <2>2. m \notin R
    OBVIOUS
  <2>3. I \cap (m - 1 + 1 .. n) = IF m \in I THEN R \cup {m} ELSE R
    <3>1. \A k : k \in m - 1 + 1 .. n <=> k = m \/ k \in m + 1 .. n
      OBVIOUS
    <3>2. QED
      BY <3>1
  <2> HIDE DEF R
  <2>4. Cardinality(R \cup {m}) = Cardinality(R) + 1
    BY <2>1, <2>2, FS_AddElement
  <2>5. QED
    BY <2>1, <2>3, <2>4 DEF beyond, R
<1>5. QED
  BY <1>1, <1>2, <1>3, <1>4

(* Of two choices of places among sorted edges, the one that has as many
   beyond every place, or more, is no lighter.                              *)
LEMMA NoLighter ==
  ASSUME NEW s \in Seq(Edge), NEW n, n = Len(s),
         \A j, k \in 1 .. n : j <= k => s[j].w <= s[k].w,
         NEW I, I \subseteq 1 .. n, NEW T, T \subseteq 1 .. n,
         \A m \in 0 .. n : beyond(T, m, n) <= beyond(I, m, n),
         Cardinality(I) = Cardinality(T) \/ \A k \in 1 .. n : s[k].w >= 0
  PROVE  weight(s, T) <= weight(s, I)
<1> DEFINE w == [k \in 1 .. n |-> s[k].w]
           e == [m \in 0 .. n |-> beyond(I, m, n) - beyond(T, m, n)]
           f == [m \in 0 .. n |-> sums(s, I)[m] - sums(s, T)[m]]
<1>1. n \in Nat
  BY LenProperties
<1>2. w \in [1 .. n -> Int] /\ \A j, k \in 1 .. n : j <= k => w[j] <= w[k]
  <2>1. \A k \in 1 .. n : s[k] \in Edge
    BY ElementOfSeq
  <2>2. \A k \in 1 .. n : s[k].w \in Int
    BY <2>1, KruskalAssumption DEF Edge
  <2>3. QED
    BY <2>2
<1>3. /\ \A m \in 0 .. n : beyond(I, m, n) \in Nat /\ beyond(T, m, n) \in Nat
      /\ beyond(I, n, n) = 0 /\ beyond(T, n, n) = 0
      /\ beyond(I, 0, n) = Cardinality(I) /\ beyond(T, 0, n) = Cardinality(T)
      /\ \A m \in 1 .. n :
           /\ beyond(I, m - 1, n) = beyond(I, m, n) + (IF m \in I THEN 1 ELSE 0)
           /\ beyond(T, m - 1, n) = beyond(T, m, n) + (IF m \in T THEN 1 ELSE 0)
  BY <1>1, BeyondCounts
<1>4. e \in [0 .. n -> Nat] /\ e[n] = 0
  <2>1. \A a, b \in Nat : a <= b => b - a \in Nat
    OBVIOUS
  <2>2. \A m \in 0 .. n : beyond(I, m, n) - beyond(T, m, n) \in Nat
    BY <1>3, <2>1
  <2>3. n \in 0 .. n
    BY <1>1
  <2>4. QED
    BY <1>3, <2>2, <2>3
<1>5. AddsUp(n, part(s, I), sums(s, I)) /\ AddsUp(n, part(s, T), sums(s, T))
  BY SumsAddUp
<1>6. f \in [0 .. n -> Int] /\ f[0] = 0
  <2>1. 0 \in 0 .. n
    BY <1>1
  <2>2. QED
    BY <1>5, <2>1 DEF AddsUp
<1>7. ASSUME NEW m \in 1 .. n PROVE f[m] = f[m - 1] + w[m] * (e[m - 1] - e[m])
  <2>1. m \in 0 .. n /\ m - 1 \in 0 .. n /\ w[m] \in Int
    BY <1>1, <1>2
  <2> DEFINE x == IF m \in I THEN 1 ELSE 0
             y == IF m \in T THEN 1 ELSE 0
  <2>2. e[m - 1] - e[m] = x - y
    <3>1. /\ beyond(I, m - 1, n) = beyond(I, m, n) + x
          /\ beyond(T, m - 1, n) = beyond(T, m, n) + y
          /\ beyond(I, m, n) \in Nat /\ beyond(T, m, n) \in Nat
          /\ x \in Int /\ y \in Int
      BY <1>3, <2>1
    <3> HIDE DEF x, y
    <3>2. \A a, b, c, d \in Int : (a + c) - (b + d) - (a - b) = c - d
      OBVIOUS
    <3>3. QED
      BY <2>1, <3>1, <3>2
  <2>3. /\ sums(s, I)[m] = sums(s, I)[m - 1] + (IF m \in I THEN w[m] ELSE 0)
        /\ sums(s, T)[m] = sums(s, T)[m - 1] + (IF m \in T THEN w[m] ELSE 0)
        /\ sums(s, I)[m - 1] \in Int /\ sums(s, T)[m - 1] \in Int
    BY <1>5, <2>1 DEF AddsUp, part
  <2>4. f[m] = f[m - 1] + ((IF m \in I THEN w[m] ELSE 0) - (IF m \in T THEN w[m] ELSE 0))
    <3> DEFINE p == IF m \in I THEN w[m] ELSE 0
               q == IF m \in T THEN w[m] ELSE 0
    <3>1. p \in Int /\ q \in Int
      BY <2>1
    <3>2. f[m] = sums(s, I)[m] - sums(s, T)[m] /\ f[m - 1] = sums(s, I)[m - 1] - sums(s, T)[m - 1]
      BY <2>1
    <3>3. sums(s, I)[m] = sums(s, I)[m - 1] + p /\ sums(s, T)[m] = sums(s, T)[m - 1] + q
      BY <2>3
    <3> HIDE DEF p, q, f, w
    <3>4. \A a, b, c, d \in Int : (a + c) - (b + d) = (a - b) + (c - d)
      OBVIOUS
    <3>5. f[m] = f[m - 1] + (p - q)
      BY <2>3, <3>1, <3>2, <3>3, <3>4
    <3>6. QED
      BY <3>5 DEF p, q
  <2>5. (IF m \in I THEN w[m] ELSE 0) - (IF m \in T THEN w[m] ELSE 0) = w[m] * (x - y)
    <3>1. \A a \in Int : a - a = a * (1 - 1) /\ a - 0 = a * (1 - 0) /\ 0 - a = a * (0 - 1) /\ 0 - 0 = a * (0 - 0)
      OBVIOUS
    <3> HIDE DEF w
    <3>2. QED
      BY <2>1, <3>1
  <2>6. QED
    BY <2>2, <2>4, <2>5
<1>8. Outweighs(n, w, e, f)
  <2> HIDE DEF w, e, f
  <2>1. QED
    BY <1>2, <1>4, <1>6, <1>7 DEF Outweighs
<1>9. f[n] = weight(s, I) - weight(s, T) /\ weight(s, I) \in Int /\ weight(s, T) \in Int
  <2>1. n \in 0 .. n
    BY <1>1
  <2>2. QED
    BY <2>1, WeightIsNumber DEF weight
<1>10. f[n] >= 0
  <2>1. CASE n = 0
    <3> HIDE DEF f
    <3>1. QED
      BY <1>6, <2>1
  <2>2. CASE n # 0
    <3>1. 1 \in 1 .. n /\ 1 - 1 = 0 /\ 0 \in 0 .. n /\ n \in 0 .. n
      BY <1>1, <2>2
    <3>2. w[1] * e[0] <= f[n] - f[0]
      <4> HIDE DEF w, e, f
      <4>1. w[1] * e[1 - 1] <= f[n] - f[1 - 1]
        BY <1>1, <1>8, <3>1, HeavierBeyond
      <4>2. QED
        BY <3>1, <4>1
    <3>3. w[1] \in Int /\ e[0] \in Nat /\ f[n] \in Int
      <4> HIDE DEF w, e, f
      <4>1. QED
        BY <1>2, <1>4, <1>6, <3>1
    <3>4. w[1] * e[0] >= 0
      <4>1. CASE Cardinality(I) = Cardinality(T)
        <5>1. e[0] = 0
          BY <1>3, <3>1, <4>1
        <5> HIDE DEF w, e
        <5>2. QED
          BY <3>3, <5>1, Products
      <4>2. CASE \A k \in 1 .. n : s[k].w >= 0
        <5>1. 0 <= w[1]
          BY <3>1, <3>3, <4>2
        <5> HIDE DEF w, e
        <5>2. 0 * e[0] <= w[1] * e[0] /\ 0 * e[0] = 0
          BY <3>3, <5>1, Products
        <5>3. w[1] * e[0] \in Int
          BY <3>3, Products
        <5>4. QED
          BY <5>2, <5>3
      <4>3. QED
        BY <4>1, <4>2
    <3> HIDE DEF w, e, f
    <3>5. w[1] * e[0] \in Int
      BY <3>3, Products
    <3>6. QED
      BY <1>6, <3>2, <3>3, <3>4, <3>5
  <2>3. QED
    BY <2>1, <2>2
<1>11. QED
  <2> HIDE DEF f
  <2>1. QED
    BY <1>9, <1>10

------------------------------------------------------------------------------
(* Sets of nodes and the edges that unite them. g numbers sets of nodes; S is
   made of them when it has no part of one.                                 *)
labels(g) == {g[x] : x \in Node}

MadeOf(g, S) == \A x, y \in Node : g[x] = g[y] /\ x \in S => y \in S

(* The edges E unite the sets of g at least as far as those of f.            *)
Unite(E, g, f) ==
  \A S \in SUBSET Node : MadeOf(g, S) /\ closed(E, S) => MadeOf(f, S)

LEMMA LabelsFinite ==
  ASSUME NEW g \in [Node -> Node]
  PROVE  IsFiniteSet(labels(g)) /\ Cardinality(labels(g)) \in Nat
<1>1. labels(g) \subseteq Node
  BY DEF labels
<1>2. IsFiniteSet(labels(g))
  BY <1>1, NodesFinite, FS_Subset
<1>3. QED
  BY <1>2, FS_CardinalityType

LEMMA CoarserIsFewer ==
  ASSUME NEW g \in [Node -> Node], NEW f \in [Node -> Node],
         \A x, y \in Node : f[x] = f[y] => g[x] = g[y]
  PROVE  Cardinality(labels(g)) <= Cardinality(labels(f))
<1> DEFINE h == [l \in labels(f) |-> g[CHOOSE x \in Node : f[x] = l]]
<1>1. ASSUME NEW x \in Node PROVE f[x] \in labels(f) /\ h[f[x]] = g[x]
  <2>1. f[x] \in labels(f)
    BY DEF labels
  <2>2. (CHOOSE y \in Node : f[y] = f[x]) \in Node /\ f[CHOOSE y \in Node : f[y] = f[x]] = f[x]
    OBVIOUS
  <2>3. QED
    BY <2>1, <2>2
<1>2. \A l \in labels(f) : h[l] \in labels(g)
  BY <1>1 DEF labels
<1>3. h \in [labels(f) -> labels(g)]
  BY <1>2
<1>4. ASSUME NEW m \in labels(g) PROVE \E l \in labels(f) : h[l] = m
  <2>1. PICK x \in Node : m = g[x]
    BY DEF labels
  <2> HIDE DEF h
  <2>2. QED
    BY <1>1, <2>1
<1>5. h \in Surjection(labels(f), labels(g))
  BY <1>3, <1>4 DEF Surjection
<1>6. QED
  <2> HIDE DEF h
  <2>1. QED
    BY <1>5, LabelsFinite, FS_Surjection

LEMMA OneUnionLess ==
  ASSUME NEW g \in [Node -> Node], NEW a \in Node, NEW b \in Node,
         NEW h, h = [x \in Node |-> IF g[x] = g[a] THEN g[b] ELSE g[x]]
  PROVE  h \in [Node -> Node] /\ Cardinality(labels(g)) <= Cardinality(labels(h)) + 1
<1>1. h \in [Node -> Node]
  OBVIOUS
<1>2. labels(g) \subseteq labels(h) \cup {g[a]}
  BY DEF labels
<1>3. /\ IsFiniteSet(labels(h)) /\ Cardinality(labels(h)) \in Nat
      /\ Cardinality(labels(g)) \in Nat
  BY <1>1, LabelsFinite
<1>4. /\ IsFiniteSet(labels(h) \cup {g[a]})
      /\ Cardinality(labels(h) \cup {g[a]}) <= Cardinality(labels(h)) + 1
  <2>1. PICK L, c : L = labels(h) /\ c = g[a]
    OBVIOUS
  <2>2. IsFiniteSet(L) /\ Cardinality(L) \in Nat
    BY <1>3, <2>1
  <2>3. IsFiniteSet(L \cup {c}) /\ Cardinality(L \cup {c}) = IF c \in L THEN Cardinality(L) ELSE Cardinality(L) + 1
    BY <2>2, FS_AddElement
  <2>4. Cardinality(L \cup {c}) <= Cardinality(L) + 1
    BY <2>2, <2>3
  <2>5. QED
    BY <2>1, <2>3, <2>4
<1>5. Cardinality(labels(g)) <= Cardinality(labels(h) \cup {g[a]})
  BY <1>2, <1>4, FS_Subset
<1>6. Cardinality(labels(h) \cup {g[a]}) \in Nat
  BY <1>4, FS_CardinalityType
<1>7. QED
  BY <1>1, <1>3, <1>4, <1>5, <1>6

LEMMA PlacesFinite ==
  ASSUME NEW s \in Seq(Edge), NEW K \in SUBSET innerOf(s)
  PROVE  IsFiniteSet(K) /\ Cardinality(K) \in Nat /\ K \subseteq 1 .. Len(s)
<1>1. Len(s) \in Nat /\ DOMAIN s = 1 .. Len(s)
  BY LenProperties
<1>2. K \in SUBSET (1 .. Len(s))
  BY <1>1 DEF innerOf
<1>3. IsFiniteSet(1 .. Len(s))
  BY <1>1, FS_Interval
<1>4. IsFiniteSet(K)
  BY <1>2, <1>3, FS_Subset
<1>5. QED
  BY <1>2, <1>4, FS_CardinalityType

(* To unite sets of nodes as far takes an edge for each set that is gone.    *)
edgesOf(s, K) == {s[k] : k \in K}

EdgeForEach(s, j) ==
  \A K \in SUBSET innerOf(s) : Cardinality(K) = j =>
    \A g, f \in [Node -> Node] : Unite(edgesOf(s, K), g, f) =>
      Cardinality(labels(g)) <= Cardinality(labels(f)) + j

LEMMA NoEdge ==
  ASSUME NEW s \in Seq(Edge)
  PROVE  EdgeForEach(s, 0)
<1> SUFFICES ASSUME NEW K \in SUBSET innerOf(s), Cardinality(K) = 0,
                    NEW g \in [Node -> Node], NEW f \in [Node -> Node],
                    Unite(edgesOf(s, K), g, f)
             PROVE  Cardinality(labels(g)) <= Cardinality(labels(f)) + 0
  BY DEF EdgeForEach
<1>1. K = {}
  <2>1. IsFiniteSet(K)
    BY PlacesFinite
  <2>2. QED
    BY <2>1, FS_EmptySet
<1>2. ASSUME NEW x \in Node, NEW y \in Node, f[x] = f[y] PROVE g[x] = g[y]
  <2> DEFINE S == {z \in Node : g[z] = g[x]}
  <2>1. S \in SUBSET Node /\ MadeOf(g, S) /\ x \in S
    BY DEF MadeOf
  <2>2. closed(edgesOf(s, K), S)
    BY <1>1 DEF closed, edgesOf
  <2>3. MadeOf(f, S)
    <3> HIDE DEF S
    <3>1. QED
      BY <2>1, <2>2 DEF Unite
  <2>4. y \in S
    <3> HIDE DEF S
    <3>1. QED
      BY <1>2, <2>1, <2>3 DEF MadeOf
  <2>5. QED
    BY <2>4
<1>3. Cardinality(labels(g)) <= Cardinality(labels(f))
  BY <1>2, CoarserIsFewer
<1>4. QED
  BY <1>3, LabelsFinite

LEMMA OneEdgeMore ==
  ASSUME NEW s \in Seq(Edge), NEW j \in Nat, EdgeForEach(s, j)
  PROVE  EdgeForEach(s, j + 1)
<1> SUFFICES ASSUME NEW K \in SUBSET innerOf(s), Cardinality(K) = j + 1,
                    NEW g \in [Node -> Node], NEW f \in [Node -> Node],
                    Unite(edgesOf(s, K), g, f)
             PROVE  Cardinality(labels(g)) <= Cardinality(labels(f)) + (j + 1)
  BY DEF EdgeForEach
<1>1. IsFiniteSet(K)
  BY PlacesFinite
<1>2. PICK p \in K : TRUE
  <2>1. K # {}
    <3>1. j + 1 # 0
      OBVIOUS
    <3>2. QED
      BY <3>1, FS_EmptySet
  <2>2. QED
    BY <2>1
<1> DEFINE R == K \ {p}
<1>3. R \in SUBSET innerOf(s) /\ Cardinality(R) = j
  <2>1. Cardinality(R) = (j + 1) - 1
    BY <1>1, <1>2, FS_RemoveElement
  <2>2. QED
    BY <2>1
<1>4. PICK a \in Node, b \in Node : a = s[p].u /\ b = s[p].v
  BY <1>2 DEF innerOf, inner
<1>5. PICK h : h = [x \in Node |-> IF g[x] = g[a] THEN g[b] ELSE g[x]]
  OBVIOUS
<1>6. h \in [Node -> Node] /\ Cardinality(labels(g)) <= Cardinality(labels(h)) + 1
  BY <1>5, OneUnionLess
<1>7. Unite(edgesOf(s, R), h, f)
  <2> SUFFICES ASSUME NEW S \in SUBSET Node, MadeOf(h, S), closed(edgesOf(s, R), S)
               PROVE  MadeOf(f, S)
    BY DEF Unite
  <2>1. MadeOf(g, S)
    BY <1>5 DEF MadeOf
  <2>2. a \in S <=> b \in S
    <3>1. h[a] = h[b]
      BY <1>5
    <3>2. QED
      BY <3>1 DEF MadeOf
  <2>3. \A k \in K : s[k].u \in S <=> s[k].v \in S
    <3>1. \A k \in R : s[k].u \in S <=> s[k].v \in S
      BY DEF closed, edgesOf
    <3>2. QED
      BY <1>4, <2>2, <3>1
  <2>4. closed(edgesOf(s, K), S)
    BY <2>3 DEF closed, edgesOf
  <2>5. QED
    BY <2>1, <2>4 DEF Unite
<1>8. Cardinality(labels(h)) <= Cardinality(labels(f)) + j
  <2> HIDE DEF R
  <2>1. QED
    BY <1>3, <1>6, <1>7 DEF EdgeForEach
<1>9. /\ Cardinality(labels(g)) \in Nat /\ Cardinality(labels(h)) \in Nat
      /\ Cardinality(labels(f)) \in Nat
  BY <1>6, LabelsFinite
<1>10. QED
  BY <1>6, <1>8, <1>9

LEMMA EdgesForSets ==
  ASSUME NEW s \in Seq(Edge)
  PROVE  \A j \in Nat : EdgeForEach(s, j)
<1> DEFINE T == {j \in Nat : ~ EdgeForEach(s, j)}
<1> SUFFICES ASSUME T # {} PROVE FALSE
  OBVIOUS
<1>1. PICK m \in T : \A y \in T : m <= y
  <2>1. T \subseteq Nat
    OBVIOUS
  <2> HIDE DEF T
  <2>2. QED
    BY <2>1, LeastNumber
<1>2. m \in Nat /\ ~ EdgeForEach(s, m)
  BY <1>1
<1>3. m # 0
  BY <1>2, NoEdge
<1>4. m - 1 \in Nat /\ ~ (m <= m - 1) /\ (m - 1) + 1 = m
  BY <1>2, <1>3
<1>5. EdgeForEach(s, m - 1)
  BY <1>1, <1>4
<1>6. EdgeForEach(s, (m - 1) + 1)
  BY <1>4, <1>5, OneEdgeMore
<1>7. QED
  BY <1>2, <1>4, <1>6

------------------------------------------------------------------------------
(* The loop by stages. T are the places of the edges taken between nodes of
   the graph. For each m there are sets, those the loop had after m edges,
   that divide the ends of none of the m, and are as many as the nodes less
   the edges taken by then.                                                 *)
Stage(s, T, m, g) ==
  /\ g \in [Node -> Node]
  /\ \A k \in 1 .. m : inner(s[k]) => g[s[k].u] = g[s[k].v]
  /\ Cardinality(T \cap (1 .. m)) + Cardinality(labels(g)) = N

Greedy(T) ==
  /\ T \in SUBSET innerOf(edge) /\ T \subseteq 1 .. i - 1
  /\ tree = edgesAt(T)
  /\ weight(A, innerOf(A)) = weight(edge, T)
  /\ Cardinality(innerOf(A)) = Cardinality(T)
  /\ Stage(edge, T, i - 1, sets)
  /\ \A m \in 0 .. i - 1 : \E g : Stage(edge, T, m, g)

ByStages ==
  /\ phase = "sort" => A = << >> /\ sets = SETS
  /\ phase = "join" => \E T : Greedy(T)

LEMMA NothingWeighsNothing ==
  ASSUME NEW s \in Seq(Edge)
  PROVE  weight(s, {}) = 0
<1> DEFINE n == Len(s)
           c == part(s, {})
           g == sums(s, {})
           h == [k \in 0 .. n |-> 0]
           q == n + 1
<1>1. n \in Nat /\ c \in [1 .. n -> Int] /\ AddsUp(n, c, g)
  BY PartsAreNumbers, SumsAddUp
<1>2. \A k \in 1 .. n : c[k] = 0
  BY DEF part
<1>3. AddsUp(n, c, h)
  <2> HIDE DEF n, c
  <2>1. QED
    BY <1>1, <1>2 DEF AddsUp
<1>4. Differ(n, c, c, q, 0)
  <2> HIDE DEF n, c
  <2>1. \A k \in 1 .. n : c[k] = IF k = q THEN c[k] + 0 ELSE c[k]
    BY <1>1
  <2>2. q \in 1 .. n + 1
    BY <1>1
  <2>3. QED
    BY <1>1, <2>1, <2>2 DEF Differ
<1>5. n \in 0 .. n /\ n < q /\ h[n] = 0
  BY <1>1
<1>6. h[n] = g[n]
  <2> HIDE DEF n, c, g, h, q
  <2>1. \A k \in 0 .. n : h[k] = IF k < q THEN g[k] ELSE g[k] + 0
    BY <1>1, <1>3, <1>4, SumsCompared
  <2>2. QED
    BY <1>5, <2>1
<1>7. QED
  BY <1>5, <1>6 DEF weight

(* Before the first edge every node is a set.                                *)
LEMMA FirstStage ==
  ASSUME TypeOK, phase = "sort", ByStages, SortedAll
  PROVE  ByStages'
<1>1. /\ A = << >> /\ sets = SETS /\ i' = 1 /\ phase' = "join"
      /\ UNCHANGED <<edge, sets, A>> /\ edge \in Seq(Edge)
  BY DEF ByStages, SortedAll, TypeOK
<1>2. innerOf(A) = {} /\ << >> \in Seq(Edge)
  BY <1>1 DEF innerOf
<1>3. weight(A, innerOf(A)) = weight(edge, {})
  BY <1>1, <1>2, NothingWeighsNothing
<1>4. labels(SETS) = Node
  BY DEF labels, SETS
<1>5. \A K : Cardinality({} \cap K) = 0 /\ Cardinality({}) = 0
  <2>1. \A K : {} \cap K = {}
    OBVIOUS
  <2>2. QED
    BY <2>1, FS_EmptySet
<1>6. Stage(edge, {}, 0, sets)
  <2>1. sets \in [Node -> Node]
    BY DEF TypeOK
  <2>2. Cardinality(labels(sets)) = N /\ N \in Nat
    BY <1>1, <1>4, NodesFinite, KruskalAssumption
  <2>3. QED
    BY <1>5, <2>1, <2>2 DEF Stage
<1>7. Greedy({})'
  <2>1. i' - 1 = 0 /\ \A m \in 0 .. 0 : m = 0
    BY <1>1
  <2>2. weight(A', innerOf(A')) = weight(edge', {})
    BY <1>1, <1>3
  <2>3. Cardinality(innerOf(A')) = Cardinality({})
    BY <1>1, <1>2
  <2>4. Stage(edge', {}, i' - 1, sets') /\ \A m \in 0 .. i' - 1 : \E g : Stage(edge', {}, m, g)
    BY <1>1, <1>6, <2>1
  <2>5. tree' = edgesAt({})'
    BY <1>1 DEF tree, edgesAt
  <2>6. QED
    BY <2>2, <2>3, <2>4, <2>5 DEF Greedy, Stage, inner, innerOf, tree
<1>8. QED
  BY <1>1, <1>7 DEF ByStages

(* What is to be shown of a turn of the loop.                                *)
Turn(T, U) ==
  /\ edge' = edge /\ i' = i + 1
  /\ U \in SUBSET innerOf(edge) /\ U \subseteq 1 .. i
  /\ \A m \in 0 .. i - 1 : U \cap (1 .. m) = T \cap (1 .. m)
  /\ tree' = edgesAt(U)
  /\ weight(A', innerOf(A')) = weight(edge, U)
  /\ Cardinality(innerOf(A')) = Cardinality(U)
  /\ Stage(edge, U, i, sets')

LEMMA OneTurn ==
  ASSUME TypeOK, NEW T, Greedy(T), NEW U, Turn(T, U)
  PROVE  Greedy(U)'
<1> USE DEF Turn
<1>1. i \in Nat /\ i' - 1 = i
  BY DEF TypeOK
<1>2. ASSUME NEW m \in 0 .. i PROVE \E g : Stage(edge, U, m, g)
  <2>1. CASE m = i
    BY <2>1
  <2>2. CASE m \in 0 .. i - 1
    <3>1. PICK g : Stage(edge, T, m, g)
      BY <2>2 DEF Greedy
    <3>2. U \cap (1 .. m) = T \cap (1 .. m)
      BY <2>2
    <3>3. Stage(edge, U, m, g)
      BY <3>1, <3>2 DEF Stage
    <3>4. QED
      BY <3>3
  <2>3. QED
    BY <1>1, <2>1, <2>2
<1>3. U \in SUBSET innerOf(edge') /\ U \subseteq 1 .. i' - 1
  BY <1>1
<1>4. weight(A', innerOf(A')) = weight(edge', U) /\ tree' = edgesAt(U)'
  BY DEF edgesAt
<1>5. Stage(edge', U, i' - 1, sets') /\ \A m \in 0 .. i' - 1 : \E g : Stage(edge', U, m, g)
  BY <1>1, <1>2
<1>6. QED
  BY <1>3, <1>4, <1>5 DEF Greedy, Stage, inner, innerOf, tree

(* The sets that are left are as many as the nodes less the edges taken.       *)
LEMMA StageFromForest ==
  ASSUME NEW U, U \subseteq 1 .. i, NEW g, g \in [Node -> Node],
         \A k \in 1 .. i : inner(edge[k]) => g[edge[k].u] = g[edge[k].v],
         Cardinality(U) + Cardinality(labels(g)) = N
  PROVE  Stage(edge, U, i, g)
<1>1. U \cap (1 .. i) = U
  OBVIOUS
<1>2. QED
  BY <1>1 DEF Stage

(* The edge at i is taken, drops out between nodes of one set, or is not
   between nodes of the graph.                                              *)
LEMMA Taking ==
  ASSUME TypeOK, Forest', NEW T, Greedy(T), TakeEdge, inner(edge[i]),
         NEW U, U = T \cup {i}
  PROVE  Greedy(U)'
<1> DEFINE n == Len(A)
<1>1. /\ edge' = edge /\ i' = i + 1 /\ A' = Append(A, edge[i]) /\ i \in 1 .. Len(edge)
      /\ edge \in Seq(Edge) /\ edge[i] \in Edge /\ A \in Seq(Edge) /\ i \in Nat
      /\ i \in DOMAIN edge
  BY DEF TypeOK, TakeEdge
<1>2. T \subseteq 1 .. i - 1 /\ T \subseteq innerOf(edge) /\ i \notin T
  <2>1. T \subseteq 1 .. i - 1 /\ T \subseteq innerOf(edge)
    BY DEF Greedy
  <2>2. QED
    BY <1>1, <2>1
<1>3. U \in SUBSET innerOf(edge) /\ U \subseteq 1 .. i
  BY <1>1, <1>2 DEF innerOf
<1>4. \A m \in 0 .. i - 1 : U \cap (1 .. m) = T \cap (1 .. m)
  BY <1>1
<1>5. innerOf(A') = innerOf(A) \cup {n + 1} /\ n \in Nat /\ n + 1 \notin innerOf(A)
      /\ innerOf(A) \subseteq 1 .. n
  <2>1. /\ DOMAIN A = 1 .. n /\ DOMAIN A' = 1 .. n + 1 /\ n \in Nat
        /\ A'[n + 1] = edge[i]
        /\ \A k \in 1 .. n : A'[k] = A[k]
    BY <1>1
  <2>2. innerOf(A') = {k \in 1 .. n + 1 : inner(A'[k])} /\ innerOf(A) = {k \in 1 .. n : inner(A[k])}
    BY <2>1 DEF innerOf, inner
  <2>3. QED
    BY <2>1, <2>2 DEF inner
<1>6. weight(A', innerOf(A')) = weight(edge, U)
  <2>1. weight(A', innerOf(A) \cup {n + 1}) = weight(A, innerOf(A)) + edge[i].w
    BY <1>1, <1>5, EdgeMore
  <2>2. weight(edge, U) = weight(edge, T) + edge[i].w
    BY <1>1, <1>2, PlaceMore
  <2>3. weight(A, innerOf(A)) = weight(edge, T)
    BY DEF Greedy
  <2>4. QED
    BY <1>5, <2>1, <2>2, <2>3
<1>7. Cardinality(innerOf(A')) = Cardinality(U)
  <2>1. IsFiniteSet(T) /\ IsFiniteSet(innerOf(A)) /\ Cardinality(T) = Cardinality(innerOf(A))
    BY <1>1, <1>2, PlacesFinite DEF Greedy
  <2>2. Cardinality(U) = Cardinality(T) + 1
    BY <1>2, <2>1, FS_AddElement
  <2>3. Cardinality(innerOf(A) \cup {n + 1}) = Cardinality(innerOf(A)) + 1
    BY <1>5, <2>1, FS_AddElement
  <2>4. QED
    BY <1>5, <2>1, <2>2, <2>3
<1>8. Stage(edge, U, i, sets')
  <2>1. PICK e : e = edge[i]
    OBVIOUS
  <2>2. /\ sets \in [Node -> Node] /\ sets' \in [Node -> Node]
        /\ join(e.u, e.v) /\ e.u \in Node /\ e.v \in Node
    BY <2>1, JoinTyping DEF TypeOK, TakeEdge, inner
  <2>3. \A x, y \in Node :
          sets'[x] = sets'[y] <=>
            \/ sets[x] = sets[y]
            \/ sets[x] = sets[e.u] /\ sets[e.v] = sets[y]
            \/ sets[x] = sets[e.v] /\ sets[e.u] = sets[y]
    BY <2>2, JoinUnites
  <2>4. ASSUME NEW k \in 1 .. i, inner(edge[k])
        PROVE  sets'[edge[k].u] = sets'[edge[k].v]
    <3>1. CASE k = i
      BY <2>1, <2>2, <2>3, <3>1
    <3>2. CASE k \in 1 .. i - 1
      <4>1. sets[edge[k].u] = sets[edge[k].v] /\ edge[k].u \in Node /\ edge[k].v \in Node
        BY <2>4, <3>2 DEF Greedy, Stage, inner
      <4>2. QED
        BY <2>3, <4>1
    <3>3. QED
      BY <1>1, <3>1, <3>2
  <2>5. Cardinality(U) + Cardinality(labels(sets')) = N
    <3>1. Cardinality(innerOf(A')) + Cardinality(labels(sets')) = N
      BY DEF Forest, innerOf, inner, labels
    <3>2. QED
      BY <1>7, <3>1
  <2>6. QED
    BY <1>3, <2>2, <2>4, <2>5, StageFromForest
<1>9. tree' = edgesAt(U)
  <2>1. tree' = tree \cup {edge[i]} /\ tree = edgesAt(T)
    BY TreeGrows DEF Greedy
  <2>2. QED
    BY <2>1 DEF edgesAt
<1>10. Turn(T, U)
  BY <1>1, <1>3, <1>4, <1>6, <1>7, <1>8, <1>9 DEF Turn
<1>11. QED
  BY <1>10, OneTurn

LEMMA Passing ==
  ASSUME TypeOK, Forest', NEW T, Greedy(T),
         DropEdge \/ (TakeEdge /\ ~ inner(edge[i]))
  PROVE  Greedy(T)'
<1>1. /\ edge' = edge /\ i' = i + 1 /\ i \in 1 .. Len(edge)
      /\ edge[i] \in Edge /\ A \in Seq(Edge) /\ i \in Nat /\ sets \in [Node -> Node]
  BY DEF TypeOK, TakeEdge, DropEdge
<1>2. T \in SUBSET innerOf(edge) /\ T \subseteq 1 .. i
  <2>1. T \subseteq 1 .. i - 1 /\ T \subseteq innerOf(edge)
    BY DEF Greedy
  <2>2. QED
    BY <1>1, <2>1
<1>3. sets' = sets
  BY DEF DropEdge, TakeEdge, join, inner
<1>4. innerOf(A') = innerOf(A) /\ weight(A', innerOf(A')) = weight(A, innerOf(A))
  <2>1. CASE DropEdge
    <3>1. A' = A
      BY <2>1 DEF DropEdge
    <3>2. QED
      BY <3>1
  <2>2. CASE TakeEdge /\ ~ inner(edge[i])
    <3> DEFINE n == Len(A)
    <3>1. /\ DOMAIN A = 1 .. n /\ DOMAIN A' = 1 .. n + 1 /\ n \in Nat
          /\ A' = Append(A, edge[i])
          /\ A'[n + 1] = edge[i]
          /\ \A k \in 1 .. n : A'[k] = A[k]
      BY <1>1, <2>2 DEF TakeEdge
    <3>2. innerOf(A') = {k \in 1 .. n + 1 : inner(A'[k])} /\ innerOf(A) = {k \in 1 .. n : inner(A[k])}
      BY <3>1 DEF innerOf, inner
    <3>3. innerOf(A') = innerOf(A) /\ innerOf(A) \subseteq 1 .. n
      BY <2>2, <3>1, <3>2 DEF inner
    <3>4. weight(Append(A, edge[i]), innerOf(A)) = weight(A, innerOf(A))
      BY <1>1, <3>3, EdgeMore
    <3>5. QED
      BY <3>1, <3>3, <3>4
  <2>3. QED
    BY <2>1, <2>2
<1>5. weight(A', innerOf(A')) = weight(edge, T) /\ Cardinality(innerOf(A')) = Cardinality(T)
  BY <1>4 DEF Greedy
<1>6. Stage(edge, T, i, sets')
  <2>1. ASSUME NEW k \in 1 .. i, inner(edge[k])
        PROVE  sets[edge[k].u] = sets[edge[k].v]
    <3>1. CASE k = i
      <4>1. DropEdge
        BY <2>1, <3>1
      <4>2. QED
        BY <2>1, <3>1, <4>1 DEF DropEdge, found, inner
    <3>2. CASE k \in 1 .. i - 1
      BY <2>1, <3>2 DEF Greedy, Stage
    <3>3. QED
      BY <1>1, <3>1, <3>2
  <2>2. Cardinality(T) + Cardinality(labels(sets')) = N
    <3>1. Cardinality(innerOf(A')) + Cardinality(labels(sets')) = N
      BY DEF Forest, innerOf, inner, labels
    <3>2. QED
      BY <1>5, <3>1
  <2>3. QED
    BY <1>1, <1>2, <1>3, <2>1, <2>2, StageFromForest
<1>7. \A m \in 0 .. i - 1 : T \cap (1 .. m) = T \cap (1 .. m)
  OBVIOUS
<1>8. tree' = edgesAt(T)
  <2>1. CASE DropEdge
    BY <2>1 DEF DropEdge, Greedy, tree, inner
  <2>2. CASE TakeEdge /\ ~ inner(edge[i])
    BY <2>2, TreeGrows DEF Greedy
  <2>3. QED
    BY <2>1, <2>2
<1>9. Turn(T, T)
  BY <1>1, <1>2, <1>5, <1>6, <1>7, <1>8 DEF Turn
<1>10. QED
  BY <1>9, OneTurn

LEMMA StagesInvariance == Spec => []ByStages
<1>1. Init => ByStages
  BY DEF Init, ByStages
<1>2. TypeOK /\ Forest /\ Forest' /\ ByStages /\ [Next]_vars => ByStages'
  <2> SUFFICES ASSUME TypeOK, Forest', ByStages, [Next]_vars PROVE ByStages'
    OBVIOUS
  <2>1. CASE MST_KRUSKAL
    BY <2>1 DEF MST_KRUSKAL, SETS, ByStages
  <2>2. CASE SortedAll
    BY <2>2, FirstStage DEF SortedAll
  <2>3. CASE TakeEdge \/ DropEdge
    <3>1. phase = "join" /\ phase' = "join"
      BY <2>3 DEF TakeEdge, DropEdge
    <3>2. PICK T : Greedy(T)
      BY <3>1 DEF ByStages
    <3>3. PICK U : U = T \cup {i}
      OBVIOUS
    <3>4. CASE TakeEdge /\ inner(edge[i])
      <4>1. Greedy(U)'
        BY <3>2, <3>3, <3>4, Taking
      <4>2. QED
        BY <3>1, <4>1 DEF ByStages
    <3>5. CASE DropEdge \/ (TakeEdge /\ ~ inner(edge[i]))
      <4>1. Greedy(T)'
        BY <3>2, <3>5, Passing
      <4>2. QED
        BY <3>1, <4>1 DEF ByStages
    <3>6. QED
      BY <2>3, <3>4, <3>5
  <2>4. CASE SelectEdge
    BY <2>4 DEF SelectEdge, ByStages, SETS
  <2>5. CASE (\E e \in Edge : AddEdge(e)) \/ Return
    BY <2>5 DEF AddEdge, Return, ByStages
  <2>6. CASE UNCHANGED vars
    <3>1. ASSUME NEW T, Greedy(T) PROVE Greedy(T)'
      <4>1. /\ edge' = edge /\ i' = i /\ A' = A /\ sets' = sets
            /\ tree' = tree /\ edgesAt(T)' = edgesAt(T)
        BY <2>6 DEF vars, tree, edgesAt, inner
      <4>2. /\ T \in SUBSET innerOf(edge') /\ T \subseteq 1 .. i' - 1
            /\ weight(A', innerOf(A')) = weight(edge', T)
            /\ Cardinality(innerOf(A')) = Cardinality(T)
            /\ Stage(edge', T, i' - 1, sets')
            /\ \A m \in 0 .. i' - 1 : \E g : Stage(edge', T, m, g)
        BY <3>1, <4>1 DEF Greedy
      <4>3. QED
        BY <3>1, <4>1, <4>2 DEF Greedy, Stage, inner, innerOf
    <3>2. QED
      BY <2>6, <3>1 DEF vars, ByStages, SETS
  <2>7. QED
    BY <2>1, <2>2, <2>3, <2>4, <2>5, <2>6 DEF Next
<1>3. QED
  BY <1>1, <1>2, Typing, Acyclic, PTL DEF Spec

(* What the loop has passed it connects: the ends of each edge are in one set,
   and the tree links the nodes of a set.                                   *)
LEMMA TreeSpans ==
  ASSUME TypeOK, Joined, Linked, NEW T, Greedy(T), i > Len(edge)
  PROVE  spans(tree)
<1>1. \A k \in innerOf(edge) : k \in 1 .. i - 1 /\ inner(edge[k])
  BY DEF TypeOK, innerOf
<1>2. \A k \in innerOf(edge) : sets[edge[k].u] = sets[edge[k].v]
  BY <1>1 DEF Greedy, Stage
<1>3. QED
  BY <1>1, <1>2 DEF spans, Linked, inner

(* Whatever connects what the graph connects has, beyond the first m edges, as
   many edges as the tree has there, or more.                               *)
LEMMA AsManyBeyond ==
  ASSUME TypeOK, Joined, Linked, NEW T, Greedy(T), NEW n, n = Len(edge), i > n,
         NEW I \in SUBSET innerOf(edge), spans(edgesAt(I)), NEW m \in 0 .. n
  PROVE  beyond(T, m, n) <= beyond(I, m, n)
<1> DEFINE K == I \cap (m + 1 .. n)
           R == T \cap (1 .. m)
<1>1. n \in Nat /\ i = n + 1 /\ i - 1 = n /\ edge \in Seq(Edge) /\ sets \in [Node -> Node]
  BY DEF TypeOK
<1>2. PICK g : Stage(edge, T, m, g)
  BY <1>1 DEF Greedy
<1>3. Unite(edgesOf(edge, K), g, sets)
  <2> SUFFICES ASSUME NEW S \in SUBSET Node, MadeOf(g, S), closed(edgesOf(edge, K), S)
               PROVE  MadeOf(sets, S)
    BY DEF Unite
  <2>1. ASSUME NEW k \in I PROVE edge[k].u \in S <=> edge[k].v \in S
    <3>1. k \in 1 .. n /\ inner(edge[k]) /\ (k \in 1 .. m \/ k \in m + 1 .. n)
      BY <1>1 DEF innerOf
    <3>2. CASE k \in 1 .. m
      BY <1>2, <3>1, <3>2 DEF Stage, MadeOf, inner
    <3>3. CASE k \in m + 1 .. n
      BY <3>3 DEF closed, edgesOf
    <3>4. QED
      BY <3>1, <3>2, <3>3
  <2>2. closed(edgesAt(I), S)
    BY <2>1 DEF closed, edgesAt
  <2>3. \A k \in innerOf(edge) : edge[k].u \in S <=> edge[k].v \in S
    <3>1. ASSUME NEW k \in innerOf(edge) PROVE edge[k].u \in S <=> edge[k].v \in S
      <4>1. connected(edgesAt(I), edge[k].u, edge[k].v)
        BY DEF spans
      <4>2. Node \ S \in SUBSET Node /\ closed(edgesAt(I), Node \ S)
        BY <2>1 DEF closed, edgesAt, inner, innerOf
      <4>3. edge[k].u \in Node /\ edge[k].v \in Node
        BY DEF innerOf, inner
      <4>4. QED
        BY <2>2, <4>1, <4>2, <4>3 DEF connected
    <3>2. QED
      BY <3>1
  <2>4. closed(tree, S)
    BY <2>3 DEF closed, edgesAt, Greedy
  <2>5. QED
    BY <2>4 DEF Linked, connected, MadeOf
<1>4. K \in SUBSET innerOf(edge)
  OBVIOUS
<1>5. /\ IsFiniteSet(K) /\ Cardinality(K) \in Nat /\ K \subseteq 1 .. n
      /\ T \in SUBSET innerOf(edge) /\ IsFiniteSet(T) /\ Cardinality(T) \in Nat
      /\ T \subseteq 1 .. n
  BY <1>1, <1>4, PlacesFinite DEF Greedy
<1>6. Cardinality(labels(g)) <= Cardinality(labels(sets)) + Cardinality(K)
  <2> HIDE DEF K
  <2>1. EdgeForEach(edge, Cardinality(K)) /\ g \in [Node -> Node]
    BY <1>1, <1>2, <1>5, EdgesForSets DEF Stage
  <2>2. QED
    BY <1>1, <1>3, <1>4, <2>1 DEF EdgeForEach
<1>7. /\ Cardinality(R) + Cardinality(labels(g)) = N
      /\ Cardinality(T) + Cardinality(labels(sets)) = N
  <2>1. T \cap (1 .. n) = T
    BY <1>5
  <2>2. QED
    BY <1>1, <1>2, <2>1 DEF Greedy, Stage
<1>8. Cardinality(T) = Cardinality(R) + beyond(T, m, n) /\ Cardinality(R) \in Nat
      /\ beyond(T, m, n) \in Nat
  <2> DEFINE Q == T \cap (m + 1 .. n)
  <2>1. R \cup Q = T /\ R \cap Q = {}
    <3>1. \A k \in 1 .. n : k \in 1 .. m \/ k \in m + 1 .. n
      BY <1>1
    <3>2. \A k : ~ (k \in 1 .. m /\ k \in m + 1 .. n)
      BY <1>1
    <3>3. QED
      BY <1>5, <3>1, <3>2
  <2>2. IsFiniteSet(R) /\ IsFiniteSet(Q)
    BY <1>5, FS_Intersection
  <2> HIDE DEF R, Q
  <2>3. Cardinality(T) = Cardinality(R) + Cardinality(Q) - Cardinality(R \cap Q)
    BY <2>1, <2>2, FS_Union
  <2>4. Cardinality(R) \in Nat /\ Cardinality(Q) \in Nat /\ Cardinality(R \cap Q) = 0
    BY <2>1, <2>2, FS_CardinalityType, FS_EmptySet
  <2>5. beyond(T, m, n) = Cardinality(Q)
    BY DEF beyond, Q
  <2>6. QED
    BY <2>3, <2>4, <2>5
<1>9. beyond(I, m, n) = Cardinality(K)
  BY DEF beyond
<1>10. Cardinality(labels(g)) \in Nat /\ Cardinality(labels(sets)) \in Nat /\ N \in Nat
  BY <1>1, <1>2, LabelsFinite, KruskalAssumption DEF Stage
<1>11. QED
  <2> HIDE DEF K, R
  <2>1. QED
    BY <1>5, <1>6, <1>7, <1>8, <1>9, <1>10

(* MST_KRUSKAL returns a minimum spanning forest of the graph, for any number
   of nodes and edges and weights of either sign: the edges come lightest
   first, those it takes make a forest that connects what the graph connects,
   and no other choice of edges that does so is lighter.                    *)
THEOREM ForestIsMinimum == Spec => []MinimumForest
<1>1. TypeOK /\ LightestFirst /\ Forest /\ Joined /\ Linked /\ ByStages => MinimumForest
  <2> SUFFICES ASSUME TypeOK, LightestFirst, Joined, Linked, ByStages,
                      phase = "join", i > Len(edge)
               PROVE  /\ spans(tree)
                      /\ \A I \in SUBSET innerOf(edge) :
                           /\ spans(edgesAt(I))
                           /\ \/ Cardinality(I) = Cardinality(innerOf(A))
                              \/ \A k \in DOMAIN edge : edge[k].w >= 0
                           => weight(A, innerOf(A)) <= weight(edge, I)
    BY DEF MinimumForest, MinimumWeight
  <2>1. PICK T : Greedy(T)
    BY DEF ByStages
  <2>2. PICK n : n = Len(edge)
    OBVIOUS
  <2>3. n \in Nat /\ edge \in Seq(Edge) /\ DOMAIN edge = 1 .. n
    BY <2>2 DEF TypeOK
  <2>4. ASSUME NEW I \in SUBSET innerOf(edge), spans(edgesAt(I)),
               \/ Cardinality(I) = Cardinality(innerOf(A))
               \/ \A k \in DOMAIN edge : edge[k].w >= 0
        PROVE  weight(A, innerOf(A)) <= weight(edge, I)
    <3>1. \A m \in 0 .. n : beyond(T, m, n) <= beyond(I, m, n)
      BY <2>1, <2>2, <2>4, AsManyBeyond
    <3>2. I \subseteq 1 .. n /\ T \subseteq 1 .. n
      BY <2>1, <2>2, <2>3, PlacesFinite DEF Greedy
    <3>3. Cardinality(I) = Cardinality(T) \/ \A k \in 1 .. n : edge[k].w >= 0
      BY <2>1, <2>3, <2>4 DEF Greedy
    <3>4. \A j, k \in 1 .. n : j <= k => edge[j].w <= edge[k].w
      BY <2>3 DEF LightestFirst
    <3>5. weight(edge, T) <= weight(edge, I)
      BY <2>2, <2>3, <3>1, <3>2, <3>3, <3>4, NoLighter
    <3>6. QED
      BY <2>1, <3>5 DEF Greedy
  <2>5. QED
    BY <2>1, <2>4, TreeSpans
<1>2. QED
  BY <1>1, Typing, Sorting, Acyclic, Linking, StagesInvariance, PTL

(* -------------------- the lists of processes ----------------------------- *)

Entries == [id : Nat, owner : Pid \cup {m_pid}]

SnapTypes ==
  /\ taken \in Seq(Entries) /\ walk \in Seq(Entries)
  /\ ids \in Seq(Entries \cup {Proc!Blank})
  /\ visited \in Nat

(* The handles that are open at each place, and the calls that come there.  *)
OpenAt(s) ==
  IF s \in {"start", "privileged", "out"} THEN {{}}
  ELSE IF s = "adjust" THEN {{"token"}}
  ELSE IF s = "entry" THEN {{"snapshot"}, {"snapshot", "process"}}
  ELSE {{"snapshot"}}

Places ==
  /\ step \in {"out", "start", "first", "open", "entry", "last", "adjust", "privileged"}
  /\ step \in {"first", "open", "entry", "last"} => asked \in Proc!Lists
  /\ step \in {"open", "entry"} => walk # << >>
  /\ step = "last" => walk = << >>
  /\ handles \in OpenAt(step)

Blanks == \A r \in 1 .. Len(ids) : ids[r] = Proc!Blank

(* What the walk has made of the first k entries of the snapshot: how many of
   them are wanted, and those that fit, each at its place.                  *)
Copied(k) ==
  /\ visited = Proc!rank(k)
  /\ \A j \in 1 .. k :
       Proc!wanted(taken[j]) /\ Proc!rank(j) <= Len(ids) => ids[Proc!rank(j)] = taken[j]
  /\ \A r \in 1 .. Len(ids) : visited < r => ids[r] = Proc!Blank

(* What is still to be visited is the end of the snapshot.                  *)
Remains ==
  /\ Len(walk) <= Len(taken)
  /\ \A r \in 1 .. Len(walk) : walk[r] = taken[Len(taken) - Len(walk) + r]

SnapInv ==
  /\ SnapTypes
  /\ Places
  /\ step \in {"start", "first", "adjust", "privileged"} => need = Proc!Unset /\ Blanks /\ visited = 0
  /\ step = "first" => walk = taken
  /\ step \in {"open", "entry", "last"} => Remains /\ Copied(Len(taken) - Len(walk))
  /\ step = "out" /\ returned = "false" => need = Proc!Unset /\ Blanks
  /\ step = "out" /\ returned = "true" => need = visited /\ Copied(Len(taken))

(* The cardinality that Process counts with is that of the theorems.        *)
LEMMA SameCardinality == \A S : Proc!Cardinality(S) = Cardinality(S)
BY DEF Proc!Cardinality, Cardinality

LEMMA RankFinite ==
  ASSUME NEW k \in Nat
  PROVE  /\ IsFiniteSet({j \in 1 .. k : Proc!wanted(taken[j])})
         /\ Proc!rank(k) \in Nat
<1>1. IsFiniteSet(1 .. k)
  BY FS_Interval
<1>2. IsFiniteSet({j \in 1 .. k : Proc!wanted(taken[j])})
  BY <1>1, FS_Subset
<1>3. QED
  BY <1>2, FS_CardinalityType, SameCardinality DEF Proc!rank

LEMMA RankZero == Proc!rank(0) = 0
<1>1. {j \in 1 .. 0 : Proc!wanted(taken[j])} = {}
  OBVIOUS
<1>2. QED
  BY <1>1, FS_EmptySet, SameCardinality DEF Proc!rank

(* The count grows by one with each entry that is wanted.                   *)
LEMMA RankNext ==
  ASSUME NEW k \in Nat
  PROVE  Proc!rank(k + 1) = IF Proc!wanted(taken[k + 1]) THEN Proc!rank(k) + 1 ELSE Proc!rank(k)
<1> DEFINE R(n) == {j \in 1 .. n : Proc!wanted(taken[j])}
<1>1. IsFiniteSet(R(k)) /\ Cardinality(R(k)) \in Nat
  BY RankFinite, SameCardinality DEF Proc!rank
<1>2. CASE Proc!wanted(taken[k + 1])
  <2>1. R(k + 1) = R(k) \cup {k + 1}
    BY <1>2
  <2>2. k + 1 \notin R(k)
    OBVIOUS
  <2>3. Cardinality(R(k) \cup {k + 1}) = Cardinality(R(k)) + 1
    BY <1>1, <2>2, FS_AddElement
  <2> QED BY <1>2, <2>1, <2>3, SameCardinality DEF Proc!rank
<1>3. CASE ~ Proc!wanted(taken[k + 1])
  <2>1. R(k + 1) = R(k)
    BY <1>3
  <2> QED BY <1>3, <2>1 DEF Proc!rank
<1>4. QED
  BY <1>2, <1>3

LEMMA RankGrows ==
  ASSUME NEW j \in Nat, NEW k \in Nat, j <= k
  PROVE  Proc!rank(j) <= Proc!rank(k)
<1>1. {n \in 1 .. j : Proc!wanted(taken[n])} \subseteq {n \in 1 .. k : Proc!wanted(taken[n])}
  OBVIOUS
<1>2. QED
  BY <1>1, RankFinite, FS_Subset, SameCardinality DEF Proc!rank

(* An entry that is wanted has a place.                                     *)
LEMMA RankOfWanted ==
  ASSUME NEW k \in Nat \ {0}, Proc!wanted(taken[k])
  PROVE  Proc!rank(k) >= 1
<1>1. k - 1 \in Nat /\ k = (k - 1) + 1
  OBVIOUS
<1>2. Proc!rank(k) = Proc!rank(k - 1) + 1
  BY <1>1, RankNext
<1>3. Proc!rank(k - 1) \in Nat
  BY <1>1, RankFinite
<1>4. QED
  BY <1>2, <1>3

LEMMA SnapshotTyping ==
  ASSUME NEW l \in Proc!Lists, NEW t \in Proc!Snapshots(l)
  PROVE  t \in Seq(Entries)
<1> DEFINE S(n) == UNION {Proc!Entry(l, k) : k \in 1 .. n}
<1>1. PICK n \in 0 .. MaxEntries : t \in [1 .. n -> S(n)]
  BY DEF Proc!Snapshots
<1>2. n \in Nat
  OBVIOUS
<1>3. ASSUME NEW k \in Nat PROVE Proc!Entry(l, k) \subseteq Entries
  BY DEF Proc!Entry, Proc!Lists, Entries
<1>4. S(n) \subseteq Entries
  BY <1>2, <1>3
<1>5. t \in [1 .. n -> Entries]
  BY <1>1, <1>4
<1>6. QED
  BY <1>2, <1>5, SeqDef

LEMMA SnapInit == Proc!Init => SnapInv
<1> SUFFICES ASSUME Proc!Init PROVE SnapInv
  OBVIOUS
<1>1. << >> \in Seq(Entries) /\ << >> \in Seq(Entries \cup {Proc!Blank})
  BY EmptySeq
<1>2. QED
  BY <1>1 DEF Proc!Init, SnapInv, SnapTypes, Places, OpenAt

(* A visit of one entry.                                                    *)
LEMMA Visit ==
  ASSUME SnapInv, Proc!NextEntry
  PROVE  SnapInv'
<1> DEFINE k == Len(taken) - Len(walk)
           e == Head(walk)
<1>1. /\ SnapTypes /\ Places /\ Remains /\ Copied(k) /\ step = "entry"
      /\ walk # << >> /\ asked \in Proc!Lists /\ handles \in {{"snapshot"}, {"snapshot", "process"}}
  BY DEF SnapInv, Places, Proc!NextEntry, OpenAt
<1>2. /\ Len(walk) \in Nat \ {0} /\ Len(taken) \in Nat /\ k \in Nat /\ k + 1 \in 1 .. Len(taken)
      /\ Tail(walk) \in Seq(Entries) /\ Len(Tail(walk)) = Len(walk) - 1
      /\ \A j \in 1 .. Len(walk) - 1 : Tail(walk)[j] = walk[j + 1]
      /\ e = walk[1]
  <2>1. walk \in Seq(Entries) /\ taken \in Seq(Entries) /\ Len(walk) <= Len(taken)
    BY <1>1 DEF SnapTypes, Remains
  <2>2. Len(walk) \in Nat \ {0} /\ Len(taken) \in Nat
    BY <2>1, <1>1, LenProperties, EmptySeq
  <2>3. /\ Tail(walk) \in Seq(Entries) /\ Len(Tail(walk)) = Len(walk) - 1
        /\ \A j \in 1 .. Len(Tail(walk)) : Tail(walk)[j] = walk[j + 1]
    BY <2>1, <1>1, HeadTailProperties
  <2>4. e = walk[1]
    OBVIOUS
  <2> QED BY <2>1, <2>2, <2>3, <2>4
<1>3. e = taken[k + 1] /\ e \in Entries
  <2>1. walk[1] = taken[k + 1]
    BY <1>1, <1>2 DEF Remains
  <2>2. taken[k + 1] \in Entries
    BY <1>1, <1>2, ElementOfSeq DEF SnapTypes
  <2> QED BY <2>1, <2>2, <1>2
<1>4. /\ taken' = taken /\ asked' = asked /\ walk' = Tail(walk)
      /\ need' = need /\ returned' = returned
      /\ handles' = handles \ {"process"}
      /\ visited' = IF Proc!wanted(e) THEN visited + 1 ELSE visited
      /\ ids' = IF Proc!wanted(e) /\ visited < Len(ids) THEN [ids EXCEPT ![visited + 1] = e] ELSE ids
      /\ step' = IF walk' = << >> THEN "last" ELSE IF asked = "GetProcessList" THEN "open" ELSE "entry"
  BY DEF Proc!NextEntry
<1>5. Len(taken') - Len(walk') = k + 1
  BY <1>2, <1>4
<1>6. visited \in Nat /\ Len(ids) \in Nat /\ ids \in Seq(Entries \cup {Proc!Blank})
  BY <1>1, LenProperties DEF SnapTypes
<1>7. /\ ids' \in Seq(Entries \cup {Proc!Blank}) /\ Len(ids') = Len(ids)
      /\ \A r \in 1 .. Len(ids) :
           ids'[r] = IF Proc!wanted(e) /\ r = visited + 1 THEN e ELSE ids[r]
  <2>1. CASE Proc!wanted(e) /\ visited < Len(ids)
    <3>1. ids' = [ids EXCEPT ![visited + 1] = e]
      BY <1>4, <2>1
    <3>2. visited + 1 \in 1 .. Len(ids)
      BY <1>6, <2>1
    <3>3. e \in Entries \cup {Proc!Blank}
      BY <1>3
    <3>4. /\ [ids EXCEPT ![visited + 1] = e] \in Seq(Entries \cup {Proc!Blank})
          /\ Len([ids EXCEPT ![visited + 1] = e]) = Len(ids)
          /\ \A r \in 1 .. Len(ids) :
               [ids EXCEPT ![visited + 1] = e][r] = IF r = visited + 1 THEN e ELSE ids[r]
      BY <1>6, <3>2, <3>3, ExceptSeq
    <3> QED BY <2>1, <3>1, <3>4
  <2>2. CASE ~ (Proc!wanted(e) /\ visited < Len(ids))
    <3>1. ids' = ids
      BY <1>4, <2>2
    <3>2. \A r \in 1 .. Len(ids) : Proc!wanted(e) => r # visited + 1
      BY <1>6, <2>2
    <3> QED BY <1>6, <3>1, <3>2
  <2> QED BY <2>1, <2>2
<1>8. SnapTypes'
  BY <1>1, <1>2, <1>4, <1>6, <1>7 DEF SnapTypes
<1>9. Places'
  <2>1. handles' = {"snapshot"}
    BY <1>1, <1>4
  <2>2. step' \in {"last", "open", "entry"} /\ (step' = "last" <=> walk' = << >>)
    BY <1>4
  <2> QED BY <1>1, <1>4, <2>1, <2>2 DEF Places, OpenAt
<1>10. Remains'
  <2>1. Len(walk') = Len(walk) - 1 /\ Len(walk') <= Len(taken')
    BY <1>1, <1>2, <1>4 DEF Remains
  <2>2. ASSUME NEW r \in 1 .. Len(walk') PROVE walk'[r] = taken'[Len(taken') - Len(walk') + r]
    <3>1. r \in 1 .. Len(walk) - 1 /\ r + 1 \in 1 .. Len(walk)
      BY <1>2, <2>1
    <3>2. walk'[r] = walk[r + 1]
      BY <1>2, <1>4, <3>1
    <3>3. walk[r + 1] = taken[k + (r + 1)]
      BY <1>1, <3>1 DEF Remains
    <3>4. Len(taken') - Len(walk') + r = k + (r + 1)
      BY <1>2, <1>5, <3>1
    <3> QED BY <1>4, <3>2, <3>3, <3>4
  <2> QED BY <2>1, <2>2 DEF Remains
<1>11. \A x : Proc!wanted(x)' <=> Proc!wanted(x)
  BY <1>4 DEF Proc!wanted
<1>12. \A n : Proc!rank(n)' = Proc!rank(n)
  BY <1>4, <1>11 DEF Proc!rank
<1>13. /\ visited = Proc!rank(k)
       /\ Proc!rank(k + 1) = IF Proc!wanted(e) THEN Proc!rank(k) + 1 ELSE Proc!rank(k)
  BY <1>1, <1>2, <1>3, RankNext DEF Copied
<1>14. \A m : m = k + 1 => Copied(m)'
  <2>1. visited' = Proc!rank(k + 1)
    BY <1>4, <1>13
  <2>2. ASSUME NEW j \in 1 .. k + 1, Proc!wanted(taken[j]), Proc!rank(j) <= Len(ids)
        PROVE  ids'[Proc!rank(j)] = taken[j]
    <3>1. j \in Nat \ {0} /\ Proc!rank(j) \in Nat /\ Proc!rank(j) >= 1
      <4>1. j \in Nat \ {0}
        BY <1>2
      <4> QED BY <2>2, <4>1, RankFinite, RankOfWanted
    <3>2. Proc!rank(j) \in 1 .. Len(ids)
      BY <1>6, <2>2, <3>1
    <3>3. CASE j = k + 1
      <4>1. Proc!rank(j) = visited + 1 /\ Proc!wanted(e)
        BY <1>3, <1>13, <2>2, <3>3
      <4> QED BY <1>3, <1>7, <3>2, <3>3, <4>1
    <3>4. CASE j # k + 1
      <4>1. j \in 1 .. k
        BY <1>2, <3>4
      <4>2. Proc!rank(j) <= visited
        BY <1>2, <1>13, <4>1, RankGrows
      <4>3. ids[Proc!rank(j)] = taken[j]
        BY <1>1, <2>2, <4>1 DEF Copied
      <4>4. Proc!rank(j) # visited + 1
        BY <1>6, <3>1, <4>2
      <4> QED BY <1>7, <3>2, <4>3, <4>4
    <3> QED BY <3>3, <3>4
  <2>3. ASSUME NEW r \in 1 .. Len(ids), visited' < r PROVE ids'[r] = Proc!Blank
    <3>1. visited < r /\ (Proc!wanted(e) => r # visited + 1)
      BY <1>4, <1>6, <2>3
    <3>2. ids[r] = Proc!Blank
      BY <1>1, <3>1 DEF Copied
    <3> QED BY <1>7, <3>1, <3>2
  <2>4. \A m : m = k + 1 => Copied(m)'
    BY <1>4, <1>7, <1>11, <1>12, <2>1, <2>2, <2>3 DEF Copied, Proc!Blank
  <2> QED BY <2>4
<1>15. QED
  <2>1. step' \in {"last", "open", "entry"}
    BY <1>4
  <2>2. Copied(Len(taken) - Len(walk))'
    BY <1>5, <1>14
  <2> QED BY <1>8, <1>9, <1>10, <2>1, <2>2 DEF SnapInv

(* What the walk has made of the entries depends on nothing else.           *)
LEMMA CopiedStays ==
  ASSUME UNCHANGED <<asked, ids, visited, taken>>
  PROVE  \A k : Copied(k) => Copied(k)'
<1>1. \A x : Proc!wanted(x)' <=> Proc!wanted(x)
  BY DEF Proc!wanted
<1>2. \A n : Proc!rank(n)' = Proc!rank(n)
  BY <1>1 DEF Proc!rank
<1>3. QED
  BY <1>1, <1>2 DEF Copied, Proc!Blank

LEMMA SnapNext == SnapInv /\ [Proc!Next]_(Proc!vars) => SnapInv'
<1> SUFFICES ASSUME SnapInv, [Proc!Next]_(Proc!vars) PROVE SnapInv'
  OBVIOUS
<1> USE DEF SnapInv, SnapTypes, Places, OpenAt, Blanks
<1>1. ASSUME NEW f, NEW n \in Nat, Proc!Call(f, n) PROVE SnapInv'
  <2> DEFINE blank == [j \in 1 .. n |-> Proc!Blank]
  <2>1. blank \in Seq(Entries \cup {Proc!Blank}) /\ Len(blank) = n
    BY SeqDef
  <2>2. << >> \in Seq(Entries)
    BY EmptySeq
  <2>3. /\ step = "out" /\ step' = "start" /\ ids' = blank /\ need' = Proc!Unset
        /\ visited' = 0 /\ walk' = << >> /\ taken' = << >> /\ handles' = handles
    BY <1>1 DEF Proc!Call
  <2>4. \A j \in 1 .. Len(ids') : ids'[j] = Proc!Blank
    BY <2>1, <2>3
  <2> QED BY <2>1, <2>2, <2>3, <2>4 DEF Proc!Unset, Proc!Blank
<1>2. CASE Proc!SnapshotFails
  BY <1>2 DEF Proc!SnapshotFails, Proc!return, Proc!Unset, Proc!Blank
<1>3. CASE Proc!CreateToolhelp32Snapshot
  <2>1. PICK t \in Proc!Snapshots(asked) : walk' = t /\ taken' = t
    BY <1>3 DEF Proc!CreateToolhelp32Snapshot
  <2>2. /\ step = "start" /\ step' = "first" /\ asked \in Proc!Lists
        /\ handles' = handles \cup {"snapshot"}
        /\ UNCHANGED <<asked, ids, need, visited, returned>>
    BY <1>3 DEF Proc!CreateToolhelp32Snapshot
  <2>3. t \in Seq(Entries)
    BY <2>1, <2>2, SnapshotTyping
  <2>4. handles' = {"snapshot"}
    BY <2>2
  <2> QED BY <2>1, <2>2, <2>3, <2>4 DEF Proc!Unset, Proc!Blank
<1>4. CASE Proc!FirstFails
  BY <1>4 DEF Proc!FirstFails, Proc!return, Proc!Unset, Proc!Blank
<1>5. CASE Proc!First
  <2>1. /\ step = "first" /\ walk # << >> /\ step' \in {"open", "entry"}
        /\ UNCHANGED <<asked, ids, need, walk, visited, handles, returned, taken>>
    BY <1>5 DEF Proc!First
  <2>2. walk = taken /\ visited = 0 /\ Blanks /\ Len(taken) \in Nat
    BY <2>1, LenProperties
  <2>3. Len(taken) - Len(walk) = 0
    BY <2>2
  <2>4. Copied(0)
    BY <2>2, RankZero DEF Copied
  <2>5. \A m : m = 0 => Copied(m)'
    BY <2>1, <2>4, CopiedStays
  <2>6. Remains'
    BY <2>1, <2>2 DEF Remains
  <2>7. asked \in Proc!Lists
    BY <2>1
  <2> QED BY <2>1, <2>2, <2>3, <2>5, <2>6, <2>7
<1>6. CASE Proc!OpenProcess
  <2>1. /\ step = "open" /\ step' = "entry"
        /\ handles' \in {handles, handles \cup {"process"}}
        /\ UNCHANGED <<asked, ids, need, walk, visited, returned, taken>>
    BY <1>6 DEF Proc!OpenProcess
  <2>2. Remains' /\ handles' \in {{"snapshot"}, {"snapshot", "process"}}
    BY <2>1 DEF Remains
  <2>3. Copied(Len(taken) - Len(walk))'
    BY <2>1, CopiedStays
  <2> QED BY <2>1, <2>2, <2>3
<1>7. CASE Proc!NextEntry
  BY <1>7, Visit
<1>8. CASE Proc!Last
  <2>1. /\ step = "last" /\ step' = "out" /\ returned' = "true"
        /\ need' = visited /\ handles' = handles \ {"snapshot"}
        /\ UNCHANGED <<asked, ids, walk, visited, taken>>
    BY <1>8 DEF Proc!Last, Proc!return
  <2>2. Len(taken) - Len(walk) = Len(taken) /\ handles' = {}
    BY <2>1, LenProperties, EmptySeq
  <2>3. Copied(Len(taken))
    BY <2>1, <2>2
  <2>4. Copied(Len(taken))'
    BY <2>1, <2>3, CopiedStays
  <2> QED BY <2>1, <2>2, <2>4
<1>9. CASE Proc!OpenProcessToken
  BY <1>9 DEF Proc!OpenProcessToken
<1>10. CASE Proc!EnableDebugPrivilege
  BY <1>10 DEF Proc!EnableDebugPrivilege
<1>11. CASE Proc!GetProcessById
  BY <1>11 DEF Proc!GetProcessById, Proc!return
<1>12. CASE UNCHANGED Proc!vars
  <2>1. UNCHANGED <<asked, step, ids, need, walk, visited, handles, returned, taken>>
    BY <1>12 DEF Proc!vars
  <2>2. Copied(Len(taken) - Len(walk)) => Copied(Len(taken) - Len(walk))'
    BY <2>1, CopiedStays
  <2>3. Copied(Len(taken)) => Copied(Len(taken))'
    BY <2>1, CopiedStays
  <2> QED BY <2>1, <2>2, <2>3 DEF Remains, Proc!Unset, Proc!Blank
<1>13. \A n \in 0 .. RowsAtMost : n \in Nat
  OBVIOUS
<1>14. QED
  BY <1>13, <1>1, <1>2, <1>3, <1>4, <1>5, <1>6, <1>7, <1>8, <1>9, <1>10, <1>11, <1>12 DEF Proc!Next

(* A list that a call returns is the snapshot's as far as it fits, whatever
   the system's calls give or fail to give, and no handle is left open.     *)
THEOREM SnapshotsStaySound == Proc!Spec => []SnapshotsSound
<1>1. SnapInv => SnapshotsSound
  BY LenProperties DEF SnapInv, SnapTypes, Places, OpenAt, Blanks, Copied, SnapshotsSound, Proc!SnapshotsSound
<1>2. QED
  BY SnapInit, SnapNext, <1>1, PTL DEF Proc!Spec

------------------------------------------------------------------------------
(* Loops. A loop that starts with a and passes from turn to turn with F[t]
   goes through values that belong to G[t], if a belongs to the first and
   each turn leads from one to the next: there is such a run of values, and
   every one is so.                                                         *)
Upwards(c, lo, hi, a, F) == c = [t \in lo .. hi |-> IF t = lo THEN a ELSE F[t][c[t - 1]]]

LEMMA UpwardsLater ==
  ASSUME NEW lo \in Int, NEW hi \in Int, lo <= hi, NEW a, NEW F, NEW c, Upwards(c, lo, hi, a, F)
  PROVE  \E d : Upwards(d, lo, hi + 1, a, F)
<1> DEFINE d == [t \in lo .. hi + 1 |-> IF t = hi + 1 THEN F[t][c[t - 1]] ELSE c[t]]
           e == [t \in lo .. hi + 1 |-> IF t = lo THEN a ELSE F[t][d[t - 1]]]
<1>1. \A t \in lo .. hi : c[t] = IF t = lo THEN a ELSE F[t][c[t - 1]]
  BY DEF Upwards
<1>2. ASSUME NEW t \in lo .. hi + 1 PROVE d[t] = e[t]
  <2>1. t # lo => t - 1 \in lo .. hi + 1 /\ t - 1 # hi + 1
    OBVIOUS
  <2>2. t # lo => d[t - 1] = c[t - 1]
    BY <2>1
  <2>3. CASE t = hi + 1
    <3>1. t # lo
      BY <2>3
    <3>2. d[t] = F[t][c[t - 1]]
      BY <2>3
    <3>3. e[t] = F[t][d[t - 1]]
      BY <3>1
    <3>4. QED
      BY <2>2, <3>1, <3>2, <3>3
  <2>4. CASE t # hi + 1
    <3>1. t \in lo .. hi
      BY <2>4
    <3>2. d[t] = c[t]
      BY <2>4
    <3>3. e[t] = IF t = lo THEN a ELSE F[t][d[t - 1]]
      OBVIOUS
    <3>4. QED
      BY <1>1, <2>2, <3>1, <3>2, <3>3
  <2>5. QED
    BY <2>3, <2>4
<1>3. d = e
  BY <1>2
<1>4. Upwards(d, lo, hi + 1, a, F)
  BY <1>3 DEF Upwards
<1>5. QED
  BY <1>4

LEMMA UpwardsExists ==
  ASSUME NEW lo \in Int, NEW hi \in Int, lo <= hi, NEW a, NEW F
  PROVE  \E c : Upwards(c, lo, hi, a, F)
<1> DEFINE T == {m \in Nat : ~ \E c : Upwards(c, lo, lo + m, a, F)}
<1>1. SUFFICES ASSUME T # {} PROVE FALSE
  <2>1. hi - lo \in Nat
    OBVIOUS
  <2>2. \E c : Upwards(c, lo, lo + (hi - lo), a, F)
    BY <1>1, <2>1
  <2>3. lo + (hi - lo) = hi
    OBVIOUS
  <2>4. QED
    BY <2>2, <2>3
<1>2. PICK m \in T : \A y \in T : m <= y
  <2>1. T \subseteq Nat
    OBVIOUS
  <2> HIDE DEF T
  <2>2. QED
    BY <1>1, <2>1, LeastNumber
<1>3. m \in Nat /\ ~ \E c : Upwards(c, lo, lo + m, a, F)
  OBVIOUS
<1>4. CASE m = 0
  <2> DEFINE c == [t \in lo .. lo |-> a]
  <2>1. c = [t \in lo .. lo |-> IF t = lo THEN a ELSE F[t][c[t - 1]]]
    OBVIOUS
  <2>2. Upwards(c, lo, lo + 0, a, F)
    BY <2>1 DEF Upwards
  <2>3. QED
    BY <1>3, <1>4, <2>2
<1>5. CASE m # 0
  <2>1. m - 1 \in Nat /\ ~ (m <= m - 1)
    BY <1>3, <1>5
  <2>2. m - 1 \notin T
    <3> HIDE DEF T
    <3>1. QED
      BY <1>2, <2>1
  <2>3. PICK c : Upwards(c, lo, lo + (m - 1), a, F)
    BY <2>1, <2>2
  <2>4. \E d : Upwards(d, lo, lo + (m - 1) + 1, a, F)
    BY <1>3, <2>1, <2>3, UpwardsLater
  <2>5. lo + (m - 1) + 1 = lo + m
    BY <1>3
  <2>6. QED
    BY <1>3, <2>4, <2>5
<1>6. QED
  BY <1>4, <1>5

LEMMA StaysUpwards ==
  ASSUME NEW lo \in Int, NEW hi \in Int, NEW c, NEW G, c[lo] \in G[lo],
         \A t \in lo + 1 .. hi : c[t - 1] \in G[t - 1] => c[t] \in G[t]
  PROVE  \A t \in lo .. hi : c[t] \in G[t]
<1> DEFINE T == {m \in 0 .. hi - lo : c[lo + m] \notin G[lo + m]}
<1>1. SUFFICES ASSUME T # {} PROVE FALSE
  <2>1. ASSUME NEW t \in lo .. hi PROVE c[t] \in G[t]
    <3>1. t - lo \in 0 .. hi - lo /\ lo + (t - lo) = t
      OBVIOUS
    <3>2. QED
      BY <1>1, <3>1
  <2>2. QED
    BY <2>1
<1>2. PICK m \in T : \A y \in T : m <= y
  <2>1. T \subseteq Nat
    OBVIOUS
  <2> HIDE DEF T
  <2>2. QED
    BY <1>1, <2>1, LeastNumber
<1>3. m \in 0 .. hi - lo /\ c[lo + m] \notin G[lo + m]
  OBVIOUS
<1>4. m # 0
  <2>1. lo + 0 = lo
    OBVIOUS
  <2>2. QED
    BY <1>3, <2>1
<1>5. m - 1 \in 0 .. hi - lo /\ ~ (m <= m - 1)
  BY <1>3, <1>4
<1>6. m - 1 \notin T
  <2> HIDE DEF T
  <2>1. QED
    BY <1>2, <1>5
<1>7. c[lo + (m - 1)] \in G[lo + (m - 1)]
  BY <1>5, <1>6
<1>8. lo + (m - 1) = lo + m - 1 /\ lo + m \in lo + 1 .. hi
  BY <1>3, <1>4
<1>9. QED
  BY <1>3, <1>7, <1>8

LEMMA UpwardsRun ==
  ASSUME NEW lo \in Int, NEW hi \in Int, lo <= hi, NEW a, NEW F,
         NEW G, a \in G[lo], \A t \in lo + 1 .. hi : \A b \in G[t - 1] : F[t][b] \in G[t]
  PROVE  \E c : Upwards(c, lo, hi, a, F) /\ \A t \in lo .. hi : c[t] \in G[t]
<1>1. PICK c : Upwards(c, lo, hi, a, F)
  BY UpwardsExists
<1>2. \A t \in lo .. hi : c[t] = IF t = lo THEN a ELSE F[t][c[t - 1]]
  BY <1>1 DEF Upwards
<1>3. c[lo] \in G[lo]
  BY <1>2
<1>4. \A t \in lo + 1 .. hi : t # lo /\ t \in lo .. hi
  OBVIOUS
<1>5. \A t \in lo + 1 .. hi : c[t - 1] \in G[t - 1] => c[t] \in G[t]
  BY <1>2, <1>4
<1>6. \A t \in lo .. hi : c[t] \in G[t]
  BY <1>3, <1>5, StaysUpwards
<1>7. QED
  BY <1>1, <1>6

(* The same of a loop that counts down.                                      *)
Downwards(c, lo, hi, a, F) == c = [t \in lo .. hi |-> IF t = hi THEN a ELSE F[t][c[t + 1]]]

LEMMA DownwardsExists ==
  ASSUME NEW lo \in Int, NEW hi \in Int, lo <= hi, NEW a, NEW F
  PROVE  \E c : Downwards(c, lo, hi, a, F)
<1> DEFINE E == [k \in -hi .. -lo |-> F[-k]]
<1>1. -hi \in Int /\ -lo \in Int /\ -hi <= -lo
  OBVIOUS
<1>2. PICK u : Upwards(u, -hi, -lo, a, E)
  <2> HIDE DEF E
  <2>1. QED
    BY <1>1, UpwardsExists
<1>3. \A k \in -hi .. -lo : u[k] = IF k = -hi THEN a ELSE E[k][u[k - 1]]
  <2> HIDE DEF E
  <2>1. QED
    BY <1>2 DEF Upwards
<1> DEFINE c == [t \in lo .. hi |-> u[-t]]
           e == [t \in lo .. hi |-> IF t = hi THEN a ELSE F[t][c[t + 1]]]
<1>4. ASSUME NEW t \in lo .. hi PROVE c[t] = e[t]
  <2>1. -t \in -hi .. -lo /\ (t = hi <=> -t = -hi)
    OBVIOUS
  <2>2. c[t] = u[-t]
    OBVIOUS
  <2>3. CASE t = hi
    <3>1. u[-t] = a
      BY <1>3, <2>1, <2>3
    <3>2. QED
      BY <2>2, <2>3, <3>1
  <2>4. CASE t # hi
    <3>1. t + 1 \in lo .. hi /\ -(t + 1) = -t - 1 /\ -(-t) = t
      BY <2>4
    <3>2. u[-t] = E[-t][u[-t - 1]]
      BY <1>3, <2>1, <2>4
    <3>3. E[-t] = F[t]
      BY <2>1, <3>1
    <3>4. c[t + 1] = u[-t - 1]
      BY <3>1
    <3>5. e[t] = F[t][c[t + 1]]
      BY <2>4
    <3>6. QED
      BY <2>2, <3>2, <3>3, <3>4, <3>5
  <2>5. QED
    BY <2>3, <2>4
<1>5. c = e
  BY <1>4
<1>6. QED
  BY <1>5 DEF Downwards

LEMMA StaysDownwards ==
  ASSUME NEW lo \in Int, NEW hi \in Int, NEW c, NEW G, c[hi] \in G[hi],
         \A t \in lo .. hi - 1 : c[t + 1] \in G[t + 1] => c[t] \in G[t]
  PROVE  \A t \in lo .. hi : c[t] \in G[t]
<1> DEFINE T == {m \in 0 .. hi - lo : c[hi - m] \notin G[hi - m]}
<1>1. SUFFICES ASSUME T # {} PROVE FALSE
  <2>1. ASSUME NEW t \in lo .. hi PROVE c[t] \in G[t]
    <3>1. hi - t \in 0 .. hi - lo /\ hi - (hi - t) = t
      OBVIOUS
    <3>2. QED
      BY <1>1, <3>1
  <2>2. QED
    BY <2>1
<1>2. PICK m \in T : \A y \in T : m <= y
  <2>1. T \subseteq Nat
    OBVIOUS
  <2> HIDE DEF T
  <2>2. QED
    BY <1>1, <2>1, LeastNumber
<1>3. m \in 0 .. hi - lo /\ c[hi - m] \notin G[hi - m]
  OBVIOUS
<1>4. m # 0
  <2>1. hi - 0 = hi
    OBVIOUS
  <2>2. QED
    BY <1>3, <2>1
<1>5. m - 1 \in 0 .. hi - lo /\ ~ (m <= m - 1)
  BY <1>3, <1>4
<1>6. m - 1 \notin T
  <2> HIDE DEF T
  <2>1. QED
    BY <1>2, <1>5
<1>7. c[hi - (m - 1)] \in G[hi - (m - 1)]
  BY <1>5, <1>6
<1>8. hi - (m - 1) = hi - m + 1 /\ hi - m \in lo .. hi - 1
  BY <1>3, <1>4
<1>9. QED
  BY <1>3, <1>7, <1>8

LEMMA DownwardsRun ==
  ASSUME NEW lo \in Int, NEW hi \in Int, lo <= hi, NEW a, NEW F,
         NEW G, a \in G[hi], \A t \in lo .. hi - 1 : \A b \in G[t + 1] : F[t][b] \in G[t]
  PROVE  \E c : Downwards(c, lo, hi, a, F) /\ \A t \in lo .. hi : c[t] \in G[t]
<1>1. PICK c : Downwards(c, lo, hi, a, F)
  BY DownwardsExists
<1>2. \A t \in lo .. hi : c[t] = IF t = hi THEN a ELSE F[t][c[t + 1]]
  BY <1>1 DEF Downwards
<1>3. c[hi] \in G[hi]
  BY <1>2
<1>4. \A t \in lo .. hi - 1 : t # hi /\ t \in lo .. hi
  OBVIOUS
<1>5. \A t \in lo .. hi - 1 : c[t + 1] \in G[t + 1] => c[t] \in G[t]
  BY <1>2, <1>4
<1>6. \A t \in lo .. hi : c[t] \in G[t]
  BY <1>3, <1>5, StaysDownwards
<1>7. QED
  BY <1>1, <1>6

------------------------------------------------------------------------------
(* Arrays of n numbers, and what a sort may do to the part from lo to hi:
   put its elements into other places.                                      *)
Vector(n) == [0 .. n - 1 -> Int]

Shuffles(n, lo, hi) ==
  {f \in [0 .. n - 1 -> 0 .. n - 1] :
     /\ \A j, k \in 0 .. n - 1 : f[j] = f[k] => j = k
     /\ \A j \in 0 .. n - 1 : \E k \in 0 .. n - 1 : f[k] = j
     /\ \A k \in 0 .. n - 1 : k \notin lo .. hi => f[k] = k}

Moves(a, b, n, f) == \A k \in 0 .. n - 1 : b[k] = a[f[k]]

Rearranged(a, b, n, lo, hi) ==
  /\ a \in Vector(n) /\ b \in Vector(n)
  /\ \E f \in Shuffles(n, lo, hi) : Moves(a, b, n, f)

LEMMA SizeOf ==
  ASSUME NEW n \in Nat, NEW a, DOMAIN a = 0 .. n - 1
  PROVE  Arr!size(a) = n
<1>1. Cardinality(0 .. n - 1) = n
  <2>1. Cardinality(0 .. n - 1) = IF 0 > n - 1 THEN 0 ELSE n - 1 - 0 + 1
    BY FS_Interval
  <2>2. QED
    BY <2>1
<1>2. Arr!Cardinality(DOMAIN a) = Cardinality(DOMAIN a)
  BY DEF Arr!Cardinality, Cardinality
<1>3. QED
  BY <1>1, <1>2 DEF Arr!size

LEMMA SizeOfVector ==
  ASSUME NEW n \in Nat, NEW a \in Vector(n)
  PROVE  Arr!size(a) = n
<1>1. DOMAIN a = 0 .. n - 1
  BY DEF Vector
<1>2. QED
  BY <1>1, SizeOf

LEMMA Unmoved ==
  ASSUME NEW n \in Nat, NEW a \in Vector(n), NEW lo \in Int, NEW hi \in Int
  PROVE  Rearranged(a, a, n, lo, hi)
<1> DEFINE f == [k \in 0 .. n - 1 |-> k]
<1>1. f \in Shuffles(n, lo, hi)
  BY DEF Shuffles
<1>2. Moves(a, a, n, f)
  BY DEF Moves
<1>3. QED
  BY <1>1, <1>2 DEF Rearranged

LEMMA Exchanged ==
  ASSUME NEW n \in Nat, NEW a \in Vector(n), NEW t \in 0 .. n - 1, NEW j \in 0 .. n - 1
  PROVE  /\ Arr!Exchange(a, t, j) \in Vector(n)
         /\ Arr!Exchange(a, t, j)[t] = a[j]
         /\ Arr!Exchange(a, t, j)[j] = a[t]
         /\ \A k \in 0 .. n - 1 : k \notin {t, j} => Arr!Exchange(a, t, j)[k] = a[k]
BY DEF Arr!Exchange, Vector

LEMMA ExchangeMoves ==
  ASSUME NEW n \in Nat, NEW a \in Vector(n), NEW lo \in Int, NEW hi \in Int,
         NEW t \in 0 .. n - 1, NEW j \in 0 .. n - 1, t \in lo .. hi, j \in lo .. hi
  PROVE  Rearranged(a, Arr!Exchange(a, t, j), n, lo, hi)
<1> DEFINE f == [k \in 0 .. n - 1 |-> IF k = t THEN j ELSE IF k = j THEN t ELSE k]
<1>1. f \in [0 .. n - 1 -> 0 .. n - 1]
  OBVIOUS
<1>2. \A k, m \in 0 .. n - 1 : f[k] = f[m] => k = m
  OBVIOUS
<1>3. ASSUME NEW k \in 0 .. n - 1 PROVE \E m \in 0 .. n - 1 : f[m] = k
  <2>1. f[f[k]] = k /\ f[k] \in 0 .. n - 1
    OBVIOUS
  <2>2. QED
    BY <2>1
<1>4. \A k \in 0 .. n - 1 : k \notin lo .. hi => f[k] = k
  OBVIOUS
<1>5. f \in Shuffles(n, lo, hi)
  BY <1>1, <1>2, <1>3, <1>4 DEF Shuffles
<1>6. Moves(a, Arr!Exchange(a, t, j), n, f)
  BY Exchanged DEF Moves
<1>7. QED
  BY <1>5, <1>6, Exchanged DEF Rearranged

LEMMA MovedTwice ==
  ASSUME NEW n \in Nat, NEW a, NEW b, NEW c, NEW lo \in Int, NEW hi \in Int,
         Rearranged(a, b, n, lo, hi), Rearranged(b, c, n, lo, hi)
  PROVE  Rearranged(a, c, n, lo, hi)
<1>1. PICK f \in Shuffles(n, lo, hi) : Moves(a, b, n, f)
  BY DEF Rearranged
<1>2. PICK g \in Shuffles(n, lo, hi) : Moves(b, c, n, g)
  BY DEF Rearranged
<1> DEFINE h == [k \in 0 .. n - 1 |-> f[g[k]]]
<1>3. f \in [0 .. n - 1 -> 0 .. n - 1] /\ g \in [0 .. n - 1 -> 0 .. n - 1]
  BY DEF Shuffles
<1>4. h \in [0 .. n - 1 -> 0 .. n - 1]
  BY <1>3
<1>5. \A j, k \in 0 .. n - 1 : h[j] = h[k] => j = k
  BY <1>3 DEF Shuffles
<1>6. ASSUME NEW j \in 0 .. n - 1 PROVE \E k \in 0 .. n - 1 : h[k] = j
  <2>1. PICK m \in 0 .. n - 1 : f[m] = j
    BY DEF Shuffles
  <2>2. PICK k \in 0 .. n - 1 : g[k] = m
    BY DEF Shuffles
  <2>3. QED
    BY <2>1, <2>2
<1>7. \A k \in 0 .. n - 1 : k \notin lo .. hi => h[k] = k
  BY DEF Shuffles
<1>8. h \in Shuffles(n, lo, hi)
  BY <1>4, <1>5, <1>6, <1>7 DEF Shuffles
<1>9. Moves(a, c, n, h)
  BY <1>1, <1>2, <1>3 DEF Moves
<1>10. QED
  BY <1>8, <1>9 DEF Rearranged

LEMMA MovedWithin ==
  ASSUME NEW n \in Nat, NEW a, NEW b, NEW lo \in Int, NEW hi \in Int, NEW from \in Int, NEW to \in Int,
         Rearranged(a, b, n, lo, hi), from <= lo, hi <= to
  PROVE  Rearranged(a, b, n, from, to)
<1>1. PICK f \in Shuffles(n, lo, hi) : Moves(a, b, n, f)
  BY DEF Rearranged
<1>2. \A k \in 0 .. n - 1 : k \notin from .. to => k \notin lo .. hi
  OBVIOUS
<1>3. f \in Shuffles(n, from, to)
  <2>1. \A k \in 0 .. n - 1 : k \notin from .. to => f[k] = k
    BY <1>2 DEF Shuffles
  <2>2. QED
    BY <2>1 DEF Shuffles
<1>4. QED
  BY <1>1, <1>3 DEF Rearranged

(* Elements come from the same part, and go there.                           *)
LEMMA MovedFrom ==
  ASSUME NEW n \in Nat, NEW a, NEW b, NEW lo \in Int, NEW hi \in Int, Rearranged(a, b, n, lo, hi)
  PROVE  /\ \A k \in 0 .. n - 1 : k \notin lo .. hi => b[k] = a[k]
         /\ \A k \in 0 .. n - 1 : k \in lo .. hi =>
              \E j \in 0 .. n - 1 : j \in lo .. hi /\ b[k] = a[j]
<1>1. PICK f \in Shuffles(n, lo, hi) : Moves(a, b, n, f)
  BY DEF Rearranged
<1>2. \A k \in 0 .. n - 1 : f[k] \in 0 .. n - 1 /\ b[k] = a[f[k]]
  BY <1>1 DEF Shuffles, Moves
<1>3. ASSUME NEW k \in 0 .. n - 1, k \in lo .. hi PROVE f[k] \in lo .. hi
  <2>1. SUFFICES ASSUME f[k] \notin lo .. hi PROVE FALSE
    OBVIOUS
  <2>2. f[f[k]] = f[k]
    BY <1>2, <2>1 DEF Shuffles
  <2>3. f[k] = k
    BY <1>2, <2>2 DEF Shuffles
  <2>4. QED
    BY <1>3, <2>1, <2>3
<1>4. \A k \in 0 .. n - 1 : k \notin lo .. hi => b[k] = a[k]
  BY <1>2 DEF Shuffles
<1>5. QED
  BY <1>2, <1>3, <1>4

AsMany(a, b, x) == Arr!Cardinality({k \in DOMAIN a : a[k] = x}) = Arr!Cardinality({k \in DOMAIN b : b[k] = x})

LEMMA MovedCounts ==
  ASSUME NEW n \in Nat, NEW a, NEW b, NEW lo, NEW hi, Rearranged(a, b, n, lo, hi), NEW x
  PROVE  AsMany(a, b, x)
<1>1. PICK f \in Shuffles(n, lo, hi) : Moves(a, b, n, f)
  BY DEF Rearranged
<1>2. DOMAIN a = 0 .. n - 1 /\ DOMAIN b = 0 .. n - 1
  BY DEF Rearranged, Vector
<1> DEFINE X == {k \in 0 .. n - 1 : a[k] = x}
           Y == {k \in 0 .. n - 1 : b[k] = x}
           g == [k \in Y |-> f[k]]
<1>3. IsFiniteSet(Y)
  <2>1. IsFiniteSet(0 .. n - 1)
    BY FS_Interval
  <2>2. Y \subseteq 0 .. n - 1
    OBVIOUS
  <2>3. QED
    BY <2>1, <2>2, FS_Subset
<1>4. g \in [Y -> X]
  BY <1>1 DEF Shuffles, Moves
<1>5. \A j, k \in Y : g[j] = g[k] => j = k
  BY DEF Shuffles
<1>6. ASSUME NEW j \in X PROVE \E k \in Y : g[k] = j
  <2>1. PICK k \in 0 .. n - 1 : f[k] = j
    BY DEF Shuffles
  <2>2. k \in Y
    BY <1>1, <2>1 DEF Moves
  <2>3. QED
    BY <2>1, <2>2
<1>7. g \in Bijection(Y, X)
  <2> HIDE DEF g, X, Y
  <2>1. g \in Injection(Y, X)
    BY <1>4, <1>5 DEF Injection, IsInjective
  <2>2. g \in Surjection(Y, X)
    BY <1>4, <1>6 DEF Surjection
  <2>3. QED
    BY <2>1, <2>2 DEF Bijection
<1>8. Cardinality(X) = Cardinality(Y)
  <2> HIDE DEF g, X, Y
  <2>1. ExistsBijection(Y, X)
    BY <1>7 DEF ExistsBijection
  <2>2. QED
    BY <1>3, <2>1, FS_Bijection
<1>9. \A S : Arr!Cardinality(S) = Cardinality(S)
  BY DEF Arr!Cardinality, Cardinality
<1>10. QED
  BY <1>2, <1>8, <1>9 DEF AsMany

LEMMA MovedSame ==
  ASSUME NEW n \in Nat, NEW a, NEW b, NEW lo, NEW hi, Rearranged(a, b, n, lo, hi)
  PROVE  Arr!sameElements(a, b)
<1>1. DOMAIN a = DOMAIN b
  BY DEF Rearranged, Vector
<1>2. ASSUME NEW x PROVE AsMany(a, b, x)
  BY ONLY n \in Nat, Rearranged(a, b, n, lo, hi), MovedCounts
<1>3. QED
  BY ONLY <1>1, <1>2 DEF Arr!sameElements, AsMany

------------------------------------------------------------------------------
(* The first of the best from lo to hi, in an order that compares all.       *)
LEMMA FirstBest ==
  ASSUME NEW lo \in Nat, NEW hi \in Nat, lo <= hi, NEW R,
         \A j, k \in lo .. hi : <<j, k>> \in R \/ <<k, j>> \in R,
         \A j, k, m \in lo .. hi : <<j, k>> \in R /\ <<k, m>> \in R => <<j, m>> \in R
  PROVE  \E p \in lo .. hi : /\ \A j \in lo .. hi : <<p, j>> \in R
                             /\ \A j \in lo .. p - 1 : <<j, p>> \notin R
<1> DEFINE Best(p, m) == \A j \in lo .. m : <<p, j>> \in R
           HasBest(m) == \E p \in lo .. m : Best(p, m)
           c == [t \in lo .. hi |-> HasBest(t)]
           G == [t \in lo .. hi |-> {TRUE}]
<1>1. HasBest(lo)
  <2>1. <<lo, lo>> \in R /\ lo \in lo .. lo /\ \A j \in lo .. lo : j = lo
    OBVIOUS
  <2>2. QED
    BY <2>1
<1>2. ASSUME NEW t \in lo + 1 .. hi, HasBest(t - 1) PROVE HasBest(t)
  <2>1. t - 1 \in lo .. hi /\ t \in lo .. hi
    OBVIOUS
  <2>2. PICK p \in lo .. t - 1 : Best(p, t - 1)
    BY <1>2
  <2>3. \A j \in lo .. t : j \in lo .. t - 1 \/ j = t
    OBVIOUS
  <2>4. p \in lo .. hi /\ p \in lo .. t /\ t \in lo .. t /\ \A j \in lo .. t - 1 : j \in lo .. hi
    OBVIOUS
  <2>5. CASE <<p, t>> \in R
    <3>1. Best(p, t)
      BY <2>2, <2>3, <2>5
    <3>2. QED
      BY <2>4, <3>1
  <2>6. CASE <<t, p>> \in R
    <3>1. <<t, t>> \in R
      BY <2>1
    <3>2. ASSUME NEW j \in lo .. t - 1 PROVE <<t, j>> \in R
      <4>1. <<p, j>> \in R
        BY <2>2
      <4>2. QED
        BY <2>1, <2>4, <2>6, <4>1
    <3>3. Best(t, t)
      BY <2>3, <3>1, <3>2
    <3>4. QED
      BY <2>4, <3>3
  <2>7. QED
    BY <2>1, <2>4, <2>5, <2>6
<1>3. HasBest(hi)
  <2>1. c[lo] \in G[lo]
    BY <1>1
  <2>2. ASSUME NEW t \in lo + 1 .. hi, c[t - 1] \in G[t - 1] PROVE c[t] \in G[t]
    <3>1. t - 1 \in lo .. hi /\ t \in lo .. hi
      OBVIOUS
    <3> HIDE DEF HasBest
    <3>2. HasBest(t - 1)
      BY <2>2, <3>1
    <3>3. HasBest(t)
      BY <1>2, <3>2
    <3>4. QED
      BY <3>1, <3>3
  <2>3. \A t \in lo .. hi : c[t] \in G[t]
    <3> HIDE DEF c, G
    <3>1. QED
      BY <2>1, <2>2, StaysUpwards
  <2>4. hi \in lo .. hi
    OBVIOUS
  <2> HIDE DEF HasBest
  <2>5. QED
    BY <2>3, <2>4
<1> DEFINE bests(m) == {p \in lo .. m : Best(p, m)}
<1>4. bests(hi) # {} /\ bests(hi) \subseteq Nat
  <2>1. bests(hi) # {}
    <3> HIDE DEF Best
    <3>1. QED
      BY <1>3
  <2>2. QED
    BY <2>1
<1>5. PICK p \in bests(hi) : \A q \in bests(hi) : p <= q
  <2> HIDE DEF bests
  <2>1. QED
    BY <1>4, LeastNumber
<1>6. p \in lo .. hi /\ \A j \in lo .. hi : <<p, j>> \in R
  OBVIOUS
<1>7. ASSUME NEW j \in lo .. p - 1, <<j, p>> \in R PROVE FALSE
  <2>1. j \in lo .. hi /\ ~ (p <= j)
    BY <1>6
  <2>2. \A k \in lo .. hi : <<j, k>> \in R
    <3>1. ASSUME NEW k \in lo .. hi PROVE <<j, k>> \in R
      <4>1. <<p, k>> \in R
        BY <1>6
      <4>2. QED
        BY <1>6, <1>7, <2>1, <4>1
    <3>2. QED
      BY <3>1
  <2>3. j \in bests(hi)
    BY <2>1, <2>2
  <2>4. QED
    BY <1>5, <2>1, <2>3
<1>8. QED
  BY <1>6, <1>7

LEMMA SmallestIs ==
  ASSUME NEW n \in Nat, NEW a \in Vector(n), NEW t \in 0 .. n - 1
  PROVE  /\ Arr!smallest(a, t) \in t .. n - 1
         /\ \A j \in t .. n - 1 : a[Arr!smallest(a, t)] <= a[j]
<1> DEFINE R == {x \in (0 .. n - 1) \X (0 .. n - 1) : a[x[1]] <= a[x[2]]}
<1>1. \A j \in 0 .. n - 1 : a[j] \in Int
  BY DEF Vector
<1>2. \A j, k \in t .. n - 1 : <<j, k>> \in R <=> a[j] <= a[k]
  OBVIOUS
<1>3. \A j \in t .. n - 1 : a[j] \in Int
  BY <1>1
<1>4. \A j, k \in t .. n - 1 : a[j] <= a[k] \/ a[k] <= a[j]
  BY <1>3
<1>5. \A j, k, m \in t .. n - 1 : a[j] <= a[k] /\ a[k] <= a[m] => a[j] <= a[m]
  BY <1>3
<1>6. PICK p \in t .. n - 1 : /\ \A j \in t .. n - 1 : <<p, j>> \in R
                              /\ \A j \in t .. p - 1 : <<j, p>> \notin R
  <2> HIDE DEF R
  <2>1. t \in Nat /\ n - 1 \in Nat /\ t <= n - 1
    OBVIOUS
  <2>2. \A j, k \in t .. n - 1 : <<j, k>> \in R \/ <<k, j>> \in R
    BY <1>2, <1>4
  <2>3. \A j, k, m \in t .. n - 1 : <<j, k>> \in R /\ <<k, m>> \in R => <<j, m>> \in R
    BY <1>2, <1>5
  <2>4. QED
    BY <2>1, <2>2, <2>3, FirstBest
<1>7. \A j \in t .. n - 1 : a[p] <= a[j]
  BY <1>2, <1>6
<1>8. \A j \in t .. p - 1 : a[p] < a[j]
  <2>1. ASSUME NEW j \in t .. p - 1 PROVE j \in t .. n - 1 /\ ~ (a[j] <= a[p])
    <3>1. j \in t .. n - 1 /\ <<j, p>> \notin R
      BY <1>6
    <3>2. QED
      BY <1>2, <1>6, <3>1
  <2>2. QED
    BY <1>3, <2>1
<1>9. Arr!size(a) = n
  BY SizeOfVector
<1>10. QED
  BY <1>7, <1>8, <1>9 DEF Arr!smallest

------------------------------------------------------------------------------
(* insert_sort. After t turns the first t elements are in their places.      *)
Placed(b, n, t) == \A j \in 0 .. t - 1 : \A k \in j .. n - 1 : b[j] <= b[k]

LEMMA InsertionTurn ==
  ASSUME NEW n \in Nat, NEW a, NEW t \in 1 .. n, NEW b,
         Rearranged(a, b, n, 0, n - 1), Placed(b, n, t - 1)
  PROVE  LET c == Arr!Exchange(b, t - 1, Arr!smallest(b, t - 1))
         IN Rearranged(a, c, n, 0, n - 1) /\ Placed(c, n, t)
<1> DEFINE p == Arr!smallest(b, t - 1)
           c == Arr!Exchange(b, t - 1, p)
<1>1. b \in Vector(n) /\ t - 1 \in 0 .. n - 1
  BY DEF Rearranged
<1>2. p \in t - 1 .. n - 1 /\ \A j \in t - 1 .. n - 1 : b[p] <= b[j]
  BY <1>1, SmallestIs
<1>3. p \in 0 .. n - 1
  BY <1>1, <1>2
<1> HIDE DEF p
<1>4. Rearranged(b, c, n, 0, n - 1)
  BY <1>1, <1>3, ExchangeMoves
<1>5. Rearranged(a, c, n, 0, n - 1)
  BY <1>4, MovedTwice
<1>6. /\ c[t - 1] = b[p] /\ c[p] = b[t - 1]
      /\ \A k \in 0 .. n - 1 : k \notin {t - 1, p} => c[k] = b[k]
  BY <1>1, <1>3, Exchanged
<1> HIDE DEF c
<1>7. ASSUME NEW j \in 0 .. t - 1, NEW k \in j .. n - 1 PROVE c[j] <= c[k]
  <2>1. k \in 0 .. n - 1 /\ j \in 0 .. n - 1
    BY <1>1
  <2>2. PICK m \in j .. n - 1 : c[k] = b[m] /\ (j = t - 1 => m \in t - 1 .. n - 1)
    <3>1. CASE k = t - 1
      BY <1>2, <1>6, <3>1
    <3>2. CASE k = p /\ k # t - 1
      <4>1. t - 1 \in j .. n - 1 /\ t - 1 \in t - 1 .. n - 1
        BY <1>1
      <4>2. QED
        BY <1>6, <3>2, <4>1
    <3>3. CASE k # p /\ k # t - 1
      <4>1. c[k] = b[k]
        BY <1>6, <2>1, <3>3
      <4>2. QED
        BY <4>1
    <3>4. QED
      BY <3>1, <3>2, <3>3
  <2>3. CASE j = t - 1
    BY <1>2, <1>6, <2>2, <2>3
  <2>4. CASE j # t - 1
    <3>1. j \in 0 .. t - 1 - 1 /\ j \notin {t - 1, p}
      BY <1>2, <2>4
    <3>2. c[j] = b[j]
      BY <1>6, <2>1, <3>1
    <3>3. b[j] <= b[m]
      BY <2>2, <3>1 DEF Placed
    <3>4. QED
      BY <2>2, <3>2, <3>3
  <2>5. QED
    BY <2>3, <2>4
<1>8. Placed(c, n, t)
  BY <1>7 DEF Placed
<1>9. QED
  BY <1>5, <1>8 DEF c, p

LEMMA InsertionSorts ==
  ASSUME NEW n \in Nat, NEW a \in Vector(n)
  PROVE  Rearranged(a, Arr!insertion(a), n, 0, n - 1) /\ Placed(Arr!insertion(a), n, n)
<1> DEFINE turn(b, t) == Arr!Exchange(b, t - 1, Arr!smallest(b, t - 1))
           F == [t \in 1 .. n |-> [b \in Vector(n) |-> turn(b, t)]]
           G == [t \in 0 .. n |-> {b \in Vector(n) : Rearranged(a, b, n, 0, n - 1) /\ Placed(b, n, t)}]
           loop(c) == [t \in 0 .. n |-> IF t = 0 THEN a ELSE turn(c[t - 1], t)]
           c0 == CHOOSE c : c = loop(c)
<1>1. Arr!size(a) = n /\ n \in 0 .. n
  BY SizeOfVector
<1>2. Arr!insertion(a) = c0[n]
  BY <1>1 DEF Arr!insertion
<1>3. \A t \in 1 .. n : t \in 0 .. n /\ t - 1 \in 0 .. n /\ t # 0
  OBVIOUS
<1>4. a \in G[0]
  <2>1. Rearranged(a, a, n, 0, n - 1) /\ Placed(a, n, 0)
    <3>1. Placed(a, n, 0)
      BY DEF Placed
    <3>2. n - 1 \in Int
      OBVIOUS
    <3>3. QED
      BY <3>1, <3>2, Unmoved
  <2>2. 0 \in 0 .. n
    OBVIOUS
  <2>3. QED
    BY <2>1, <2>2
<1>5. ASSUME NEW t \in 1 .. n, NEW b \in G[t - 1] PROVE b \in Vector(n) /\ turn(b, t) \in G[t]
  <2>1. b \in Vector(n) /\ Rearranged(a, b, n, 0, n - 1) /\ Placed(b, n, t - 1)
    BY <1>3
  <2>2. Rearranged(a, turn(b, t), n, 0, n - 1) /\ Placed(turn(b, t), n, t)
    BY <2>1, InsertionTurn
  <2>3. turn(b, t) \in Vector(n)
    BY <2>2 DEF Rearranged
  <2> HIDE DEF turn
  <2>4. QED
    BY <1>3, <2>1, <2>2, <2>3
<1>6. \A t \in 1 .. n, b \in Vector(n) : F[t][b] = turn(b, t)
  OBVIOUS
<1>7. PICK u : Upwards(u, 0, n, a, F) /\ \A t \in 0 .. n : u[t] \in G[t]
  <2>1. \A t \in 0 + 1 .. n : \A b \in G[t - 1] : F[t][b] \in G[t]
    <3> HIDE DEF F, G, turn
    <3>1. QED
      BY <1>5, <1>6
  <2>2. 0 \in Int /\ n \in Int /\ 0 <= n
    OBVIOUS
  <2> HIDE DEF F, G
  <2>3. QED
    BY ONLY <1>4, <2>1, <2>2, UpwardsRun
<1>8. u = loop(u)
  <2>1. u = [t \in 0 .. n |-> IF t = 0 THEN a ELSE F[t][u[t - 1]]]
    <3> HIDE DEF F
    <3>1. QED
      BY <1>7 DEF Upwards
  <2>2. \A t \in 1 .. n : F[t][u[t - 1]] = turn(u[t - 1], t)
    <3> HIDE DEF F, G, turn
    <3>1. QED
      BY <1>3, <1>5, <1>6, <1>7
  <2>3. \A t \in 0 .. n : t = 0 \/ t \in 1 .. n
    OBVIOUS
  <2> HIDE DEF F, turn
  <2>4. QED
    BY <2>1, <2>2, <2>3
<1>9. c0 = loop(c0)
  <2> HIDE DEF loop
  <2>1. QED
    BY <1>8
<1>10. \A t \in 0 .. n : c0[t] = IF t = 0 THEN a ELSE turn(c0[t - 1], t)
  <2> HIDE DEF c0, turn
  <2>1. QED
    BY <1>9
<1>11. \A t \in 0 .. n : c0[t] \in G[t]
  <2> HIDE DEF c0, G, turn
  <2>1. c0[0] \in G[0]
    BY <1>4, <1>10
  <2>2. \A t \in 0 + 1 .. n : c0[t - 1] \in G[t - 1] => c0[t] \in G[t]
    BY <1>3, <1>5, <1>10
  <2>3. QED
    BY <2>1, <2>2, StaysUpwards
<1>12. c0[n] \in G[n]
  BY <1>1, <1>11
<1>13. QED
  <2> HIDE DEF c0
  <2>1. QED
    BY <1>1, <1>2, <1>12

------------------------------------------------------------------------------
(* Bubble_Sort. What is in front stays as it is when others change places
   behind it.                                                               *)
LEMMA FrontStays ==
  ASSUME NEW n \in Nat, NEW a, NEW b, NEW t \in 0 .. n, Placed(a, n, t), Rearranged(a, b, n, t, n - 1)
  PROVE  Placed(b, n, t)
<1>1. t \in Int /\ n - 1 \in Int
  OBVIOUS
<1>2. /\ \A k \in 0 .. n - 1 : k \notin t .. n - 1 => b[k] = a[k]
      /\ \A k \in 0 .. n - 1 : k \in t .. n - 1 =>
           \E j \in 0 .. n - 1 : j \in t .. n - 1 /\ b[k] = a[j]
  BY <1>1, MovedFrom
<1>3. ASSUME NEW j \in 0 .. t - 1, NEW k \in j .. n - 1 PROVE b[j] <= b[k]
  <2>1. j \in 0 .. n - 1 /\ k \in 0 .. n - 1 /\ j \notin t .. n - 1
    OBVIOUS
  <2>2. b[j] = a[j]
    BY <1>2, <2>1
  <2>3. PICK m \in j .. n - 1 : b[k] = a[m]
    <3>1. CASE k \in t .. n - 1
      <4>1. PICK m \in 0 .. n - 1 : m \in t .. n - 1 /\ b[k] = a[m]
        BY <1>2, <2>1, <3>1
      <4>2. QED
        BY <4>1
    <3>2. CASE k \notin t .. n - 1
      BY <1>2, <2>1, <3>2
    <3>3. QED
      BY <3>1, <3>2
  <2>4. QED
    BY <2>2, <2>3 DEF Placed
<1>4. QED
  BY <1>3 DEF Placed

(* As far as the inner loop has come, it carries the least element down.     *)
LeastFrom(b, n, t) == \A k \in t .. n - 1 : b[t - 1] <= b[k]

LEMMA BubbleTurn ==
  ASSUME NEW n \in Nat, NEW a, NEW lo \in 0 .. n - 1, NEW t \in lo + 1 .. n - 1, NEW b,
         Rearranged(a, b, n, lo, n - 1), LeastFrom(b, n, t + 1)
  PROVE  Rearranged(a, Arr!compared(b, t), n, lo, n - 1) /\ LeastFrom(Arr!compared(b, t), n, t)
<1>1. b \in Vector(n) /\ t \in 0 .. n - 1 /\ t - 1 \in 0 .. n - 1 /\ t \in lo .. n - 1 /\ t - 1 \in lo .. n - 1
  BY DEF Rearranged
<1>2. \A k \in 0 .. n - 1 : b[k] \in Int
  BY <1>1 DEF Vector
<1>3. \A k \in t .. n - 1 : b[t] <= b[k]
  <2>1. \A k \in t .. n - 1 : k = t \/ k \in t + 1 .. n - 1
    OBVIOUS
  <2>2. t + 1 - 1 = t
    OBVIOUS
  <2>3. \A k \in t + 1 .. n - 1 : b[t] <= b[k]
    BY <2>2 DEF LeastFrom
  <2>4. b[t] <= b[t]
    BY <1>1, <1>2
  <2>5. QED
    BY <2>1, <2>3, <2>4
<1>4. CASE b[t] < b[t - 1]
  <2> DEFINE c == Arr!Exchange(b, t, t - 1)
  <2>1. Arr!compared(b, t) = c
    BY <1>4 DEF Arr!compared
  <2>2. Rearranged(b, c, n, lo, n - 1)
    <3>1. lo \in Int /\ n - 1 \in Int
      OBVIOUS
    <3>2. QED
      BY <1>1, <3>1, ExchangeMoves
  <2>3. Rearranged(a, c, n, lo, n - 1)
    <3>1. lo \in Int /\ n - 1 \in Int
      OBVIOUS
    <3> HIDE DEF c
    <3>2. QED
      BY <2>2, <3>1, MovedTwice
  <2>4. /\ c[t] = b[t - 1] /\ c[t - 1] = b[t]
        /\ \A k \in 0 .. n - 1 : k \notin {t, t - 1} => c[k] = b[k]
    BY <1>1, Exchanged
  <2> HIDE DEF c
  <2>5. ASSUME NEW k \in t .. n - 1 PROVE c[t - 1] <= c[k]
    <3>1. CASE k = t
      BY <1>1, <1>2, <1>4, <2>4, <3>1
    <3>2. CASE k # t
      <4>1. k \in 0 .. n - 1 /\ k \notin {t, t - 1}
        BY <1>1, <3>2
      <4>2. QED
        BY <1>3, <2>4, <4>1
    <3>3. QED
      BY <3>1, <3>2
  <2>6. QED
    BY <2>1, <2>3, <2>5 DEF LeastFrom
<1>5. CASE ~ (b[t] < b[t - 1])
  <2>1. Arr!compared(b, t) = b
    BY <1>5 DEF Arr!compared
  <2>2. ASSUME NEW k \in t .. n - 1 PROVE b[t - 1] <= b[k]
    <3>1. k \in 0 .. n - 1
      BY <1>1
    <3>2. b[t] \in Int /\ b[t - 1] \in Int /\ b[k] \in Int
      BY <1>1, <1>2, <3>1
    <3>3. b[t] <= b[k]
      BY <1>3
    <3>4. QED
      BY <1>5, <3>2, <3>3
  <2>3. QED
    BY <2>1, <2>2 DEF LeastFrom
<1>6. QED
  BY <1>4, <1>5

LEMMA BubbleCarries ==
  ASSUME NEW n \in Nat, NEW a \in Vector(n), NEW lo \in 0 .. n - 1
  PROVE  /\ Rearranged(a, Arr!bubble(a, lo), n, lo, n - 1)
         /\ LeastFrom(Arr!bubble(a, lo), n, lo + 1)
<1> DEFINE turn(b, t) == Arr!compared(b, t)
           F == [t \in lo + 1 .. n |-> [b \in Vector(n) |-> turn(b, t)]]
           G == [t \in lo + 1 .. n |-> {b \in Vector(n) : Rearranged(a, b, n, lo, n - 1) /\ LeastFrom(b, n, t)}]
           loop(c) == [t \in lo + 1 .. n |-> IF t = n THEN a ELSE turn(c[t + 1], t)]
           c0 == CHOOSE c : c = loop(c)
<1>1. Arr!size(a) = n /\ n \in lo + 1 .. n /\ lo + 1 \in lo + 1 .. n
  BY SizeOfVector
<1>2. Arr!bubble(a, lo) = c0[lo + 1]
  BY <1>1 DEF Arr!bubble
<1>3. \A t \in lo + 1 .. n - 1 : t \in lo + 1 .. n /\ t + 1 \in lo + 1 .. n /\ t # n
  OBVIOUS
<1>4. a \in G[n]
  <2>1. LeastFrom(a, n, n)
    BY DEF LeastFrom
  <2>2. lo \in Int /\ n - 1 \in Int
    OBVIOUS
  <2>3. Rearranged(a, a, n, lo, n - 1)
    BY <2>2, Unmoved
  <2>4. QED
    BY <1>1, <2>1, <2>3
<1>5. ASSUME NEW t \in lo + 1 .. n - 1, NEW b \in G[t + 1] PROVE b \in Vector(n) /\ turn(b, t) \in G[t]
  <2>1. b \in Vector(n) /\ Rearranged(a, b, n, lo, n - 1) /\ LeastFrom(b, n, t + 1)
    BY <1>3
  <2>2. Rearranged(a, turn(b, t), n, lo, n - 1) /\ LeastFrom(turn(b, t), n, t)
    BY <2>1, BubbleTurn
  <2>3. turn(b, t) \in Vector(n)
    BY <2>2 DEF Rearranged
  <2> HIDE DEF turn
  <2>4. QED
    BY <1>3, <2>1, <2>2, <2>3
<1>6. \A t \in lo + 1 .. n - 1, b \in Vector(n) : F[t][b] = turn(b, t)
  BY <1>3
<1>7. PICK u : Downwards(u, lo + 1, n, a, F) /\ \A t \in lo + 1 .. n : u[t] \in G[t]
  <2>1. \A t \in lo + 1 .. n - 1 : \A b \in G[t + 1] : F[t][b] \in G[t]
    <3> HIDE DEF F, G, turn
    <3>1. QED
      BY <1>5, <1>6
  <2>2. lo + 1 \in Int /\ n \in Int /\ lo + 1 <= n
    OBVIOUS
  <2> HIDE DEF F, G
  <2>3. QED
    BY ONLY <1>4, <2>1, <2>2, DownwardsRun
<1>8. u = loop(u)
  <2>1. u = [t \in lo + 1 .. n |-> IF t = n THEN a ELSE F[t][u[t + 1]]]
    <3> HIDE DEF F
    <3>1. QED
      BY <1>7 DEF Downwards
  <2>2. \A t \in lo + 1 .. n - 1 : F[t][u[t + 1]] = turn(u[t + 1], t)
    <3> HIDE DEF F, G, turn
    <3>1. QED
      BY <1>3, <1>5, <1>6, <1>7
  <2>3. \A t \in lo + 1 .. n : t = n \/ t \in lo + 1 .. n - 1
    OBVIOUS
  <2> HIDE DEF F, turn
  <2>4. QED
    BY <2>1, <2>2, <2>3
<1>9. c0 = loop(c0)
  <2> HIDE DEF loop
  <2>1. QED
    BY <1>8
<1>10. \A t \in lo + 1 .. n : c0[t] = IF t = n THEN a ELSE turn(c0[t + 1], t)
  <2> HIDE DEF c0, turn
  <2>1. QED
    BY <1>9
<1>11. \A t \in lo + 1 .. n : c0[t] \in G[t]
  <2> HIDE DEF c0, G, turn
  <2>1. c0[n] \in G[n]
    BY <1>1, <1>4, <1>10
  <2>2. \A t \in lo + 1 .. n - 1 : c0[t + 1] \in G[t + 1] => c0[t] \in G[t]
    BY <1>3, <1>5, <1>10
  <2>3. lo + 1 \in Int /\ n \in Int
    OBVIOUS
  <2>4. QED
    BY ONLY <2>1, <2>2, <2>3, StaysDownwards
<1>12. c0[lo + 1] \in G[lo + 1]
  BY <1>1, <1>11
<1>13. QED
  <2> HIDE DEF c0
  <2>1. QED
    BY <1>1, <1>2, <1>12

LEMMA BubbledTurn ==
  ASSUME NEW n \in Nat, NEW a, NEW t \in 1 .. n, NEW b,
         Rearranged(a, b, n, 0, n - 1), Placed(b, n, t - 1)
  PROVE  Rearranged(a, Arr!bubble(b, t - 1), n, 0, n - 1) /\ Placed(Arr!bubble(b, t - 1), n, t)
<1> DEFINE c == Arr!bubble(b, t - 1)
<1>1. b \in Vector(n) /\ t - 1 \in 0 .. n - 1 /\ t - 1 \in 0 .. n /\ t - 1 + 1 = t
  BY DEF Rearranged
<1>2. Rearranged(b, c, n, t - 1, n - 1) /\ LeastFrom(c, n, t - 1 + 1)
  BY <1>1, BubbleCarries
<1> HIDE DEF c
<1>3. Rearranged(b, c, n, 0, n - 1)
  <2>1. 0 \in Int /\ t - 1 \in Int /\ n - 1 \in Int /\ 0 <= t - 1 /\ n - 1 <= n - 1
    OBVIOUS
  <2>2. QED
    BY <1>2, <2>1, MovedWithin
<1>4. Rearranged(a, c, n, 0, n - 1)
  <2>1. 0 \in Int /\ n - 1 \in Int
    OBVIOUS
  <2>2. QED
    BY <1>3, <2>1, MovedTwice
<1>5. Placed(c, n, t - 1)
  BY <1>1, <1>2, FrontStays
<1>6. \A k \in t .. n - 1 : c[t - 1] <= c[k]
  BY <1>1, <1>2 DEF LeastFrom
<1>7. c[t - 1] <= c[t - 1]
  BY <1>1, <1>2 DEF Rearranged, Vector
<1>8. ASSUME NEW j \in 0 .. t - 1, NEW k \in j .. n - 1 PROVE c[j] <= c[k]
  <2>1. CASE j = t - 1
    <3>1. k = t - 1 \/ k \in t .. n - 1
      BY <2>1
    <3>2. QED
      BY <1>6, <1>7, <2>1, <3>1
  <2>2. CASE j # t - 1
    <3>1. j \in 0 .. t - 1 - 1
      BY <2>2
    <3>2. QED
      BY <1>5, <3>1 DEF Placed
  <2>3. QED
    BY <2>1, <2>2
<1>9. QED
  BY <1>4, <1>8 DEF Placed, c

LEMMA BubbleSorts ==
  ASSUME NEW n \in Nat, NEW a \in Vector(n)
  PROVE  Rearranged(a, Arr!bubbled(a), n, 0, n - 1) /\ Placed(Arr!bubbled(a), n, n - 1)
<1> DEFINE turn(b, t) == Arr!bubble(b, t - 1)
           F == [t \in 1 .. n - 1 |-> [b \in Vector(n) |-> turn(b, t)]]
           G == [t \in 0 .. n - 1 |-> {b \in Vector(n) : Rearranged(a, b, n, 0, n - 1) /\ Placed(b, n, t)}]
           loop(c) == [t \in 0 .. n - 1 |-> IF t = 0 THEN a ELSE turn(c[t - 1], t)]
           c0 == CHOOSE c : c = loop(c)
<1>1. Arr!size(a) = n
  BY SizeOfVector
<1>2. Arr!bubbled(a) = IF n = 0 THEN a ELSE c0[n - 1]
  BY <1>1 DEF Arr!bubbled
<1>3. Rearranged(a, a, n, 0, n - 1) /\ Placed(a, n, 0)
  <2>1. Placed(a, n, 0)
    BY DEF Placed
  <2>2. n - 1 \in Int /\ 0 \in Int
    OBVIOUS
  <2>3. QED
    BY <2>1, <2>2, Unmoved
<1>4. CASE n = 0
  <2>1. Placed(a, n, n - 1)
    BY <1>4 DEF Placed
  <2>2. QED
    BY <1>2, <1>3, <1>4, <2>1
<1>5. CASE n # 0
  <2>1. 0 \in 0 .. n - 1 /\ n - 1 \in 0 .. n - 1
    BY <1>5
  <2>2. \A t \in 1 .. n - 1 : t \in 1 .. n /\ t \in 0 .. n - 1 /\ t - 1 \in 0 .. n - 1 /\ t # 0
    OBVIOUS
  <2>3. a \in G[0]
    BY <1>3, <2>1
  <2>4. ASSUME NEW t \in 1 .. n - 1, NEW b \in G[t - 1] PROVE b \in Vector(n) /\ turn(b, t) \in G[t]
    <3>1. b \in Vector(n) /\ Rearranged(a, b, n, 0, n - 1) /\ Placed(b, n, t - 1)
      BY <2>2
    <3>2. Rearranged(a, turn(b, t), n, 0, n - 1) /\ Placed(turn(b, t), n, t)
      BY <2>2, <3>1, BubbledTurn
    <3>3. turn(b, t) \in Vector(n)
      BY <3>2 DEF Rearranged
    <3> HIDE DEF turn
    <3>4. QED
      BY <2>2, <3>1, <3>2, <3>3
  <2>5. \A t \in 1 .. n - 1, b \in Vector(n) : F[t][b] = turn(b, t)
    OBVIOUS
  <2>6. 0 \in Int /\ n - 1 \in Int /\ 0 <= n - 1
    BY <1>5
  <2>7. PICK u : Upwards(u, 0, n - 1, a, F) /\ \A t \in 0 .. n - 1 : u[t] \in G[t]
    <3>1. \A t \in 0 + 1 .. n - 1 : \A b \in G[t - 1] : F[t][b] \in G[t]
      <4> HIDE DEF F, G, turn
      <4>1. QED
        BY <2>4, <2>5
    <3> HIDE DEF F, G
    <3>2. QED
      BY ONLY <2>3, <2>6, <3>1, UpwardsRun
  <2>8. u = loop(u)
    <3>1. u = [t \in 0 .. n - 1 |-> IF t = 0 THEN a ELSE F[t][u[t - 1]]]
      <4> HIDE DEF F
      <4>1. QED
        BY <2>7 DEF Upwards
    <3>2. \A t \in 1 .. n - 1 : F[t][u[t - 1]] = turn(u[t - 1], t)
      <4> HIDE DEF F, G, turn
      <4>1. QED
        BY <2>2, <2>4, <2>5, <2>7
    <3>3. \A t \in 0 .. n - 1 : t = 0 \/ t \in 1 .. n - 1
      OBVIOUS
    <3> HIDE DEF F, turn
    <3>4. QED
      BY <3>1, <3>2, <3>3
  <2>9. c0 = loop(c0)
    <3> HIDE DEF loop
    <3>1. QED
      BY <2>8
  <2>10. \A t \in 0 .. n - 1 : c0[t] = IF t = 0 THEN a ELSE turn(c0[t - 1], t)
    <3> HIDE DEF c0, turn
    <3>1. QED
      BY <2>9
  <2>11. \A t \in 0 .. n - 1 : c0[t] \in G[t]
    <3> HIDE DEF c0, G, turn
    <3>1. c0[0] \in G[0]
      BY <2>1, <2>3, <2>10
    <3>2. \A t \in 0 + 1 .. n - 1 : c0[t - 1] \in G[t - 1] => c0[t] \in G[t]
      BY <2>2, <2>4, <2>10
    <3>3. QED
      BY ONLY <2>6, <3>1, <3>2, StaysUpwards
  <2>12. c0[n - 1] \in G[n - 1]
    BY <2>1, <2>11
  <2> HIDE DEF c0
  <2>13. QED
    BY <1>2, <1>5, <2>1, <2>12
<1>6. QED
  BY <1>4, <1>5

------------------------------------------------------------------------------
(* Heap_Sort. The heap is numbered from 0, the children of k are 2k and 2k + 1:
   k \div 2 is above k, and 0 only above 1. In a heap from lo on, none of the
   first hs elements from lo on is below a smaller one; with a hole at x, x
   may be less than those below it, and only x.                             *)
Heap(b, hs, lo) == \A k \in 1 .. hs - 1 : k \div 2 >= lo => b[k \div 2] >= b[k]

Hole(b, hs, lo, x) ==
  /\ \A k \in 1 .. hs - 1 : k \div 2 >= lo /\ k \div 2 # x => b[k \div 2] >= b[k]
  /\ \A k \in 1 .. hs - 1 : k \div 2 = x /\ x >= 1 /\ x \div 2 >= lo => b[x \div 2] >= b[k]

LEMMA Above ==
  ASSUME NEW k \in Nat
  PROVE  /\ k \div 2 \in Nat /\ k \div 2 <= k /\ (k # 0 => k \div 2 < k)
         /\ k = 2 * (k \div 2) \/ k = 2 * (k \div 2) + 1
OBVIOUS

LEMMA Halves ==
  ASSUME NEW k \in Nat
  PROVE  (k + k) \div 2 = k /\ (k + k + 1) \div 2 = k
<1>1. (k + k) \div 2 = k
  OBVIOUS
<1>2. (k + k + 1) \div 2 = k
  OBVIOUS
<1>3. QED
  BY <1>1, <1>2

LEMMA LargestIs ==
  ASSUME NEW n \in Nat, NEW b \in Vector(n), NEW hs \in 1 .. n, NEW x \in 0 .. hs - 1
  PROVE  LET m == Arr!largest(b, x, hs)
         IN /\ m \in 0 .. hs - 1 /\ b[m] >= b[x]
            /\ m # x => m > x /\ m \div 2 = x /\ b[m] > b[x]
            /\ \A k \in 1 .. hs - 1 : k \div 2 = x => b[m] >= b[k]
<1> DEFINE m == Arr!largest(b, x, hs)
           left == IF x + x < hs /\ b[x + x] > b[x] THEN x + x ELSE x
<1>1. \A k \in 0 .. hs - 1 : b[k] \in Int
  BY DEF Vector
<1>2. m = IF x + x + 1 < hs /\ b[x + x + 1] > b[left] THEN x + x + 1 ELSE left
  BY DEF Arr!largest, Arr!Heap_Left, Arr!Heap_Right
<1>3. /\ left \in 0 .. hs - 1 /\ b[left] >= b[x]
      /\ left # x => left = x + x /\ x # 0 /\ b[left] > b[x]
      /\ x + x < hs => b[left] >= b[x + x]
  <2>1. CASE x + x < hs /\ b[x + x] > b[x]
    <3>1. x + x \in 0 .. hs - 1 /\ b[x] \in Int /\ b[x + x] \in Int
      BY <1>1, <2>1
    <3>2. x # 0
      <4>1. x = 0 => x + x = x
        OBVIOUS
      <4>2. QED
        BY <2>1, <3>1, <4>1
    <3>3. QED
      BY <2>1, <3>1, <3>2
  <2>2. CASE ~ (x + x < hs /\ b[x + x] > b[x])
    <3>1. left = x /\ b[x] \in Int
      BY <1>1, <2>2
    <3>2. x + x < hs => b[x + x] \in Int /\ b[x] >= b[x + x]
      <4>1. x + x < hs => x + x \in 0 .. hs - 1
        OBVIOUS
      <4>2. QED
        BY <1>1, <2>2, <3>1, <4>1
    <3>3. QED
      BY <3>1, <3>2
  <2>3. QED
    BY <2>1, <2>2
<1> HIDE DEF left
<1>4. /\ m \in 0 .. hs - 1 /\ b[m] >= b[left]
      /\ m = left \/ (m = x + x + 1 /\ b[m] > b[left])
      /\ x + x + 1 < hs => b[m] >= b[x + x + 1]
  <2>1. CASE x + x + 1 < hs /\ b[x + x + 1] > b[left]
    <3>1. x + x + 1 \in 0 .. hs - 1
      BY <2>1
    <3>2. m = x + x + 1
      BY <1>2, <2>1
    <3>3. b[m] \in Int /\ b[left] \in Int
      BY <1>1, <1>3, <3>1, <3>2
    <3>4. QED
      BY <2>1, <3>1, <3>2, <3>3
  <2>2. CASE ~ (x + x + 1 < hs /\ b[x + x + 1] > b[left])
    <3>1. m = left /\ b[left] \in Int
      BY <1>1, <1>2, <1>3, <2>2
    <3>2. x + x + 1 < hs => b[left] >= b[x + x + 1]
      <4>1. x + x + 1 < hs => x + x + 1 \in 0 .. hs - 1
        OBVIOUS
      <4>2. QED
        BY <1>1, <2>2, <3>1, <4>1
    <3>3. QED
      BY <1>3, <3>1, <3>2
  <2>3. QED
    BY <2>1, <2>2
<1> HIDE DEF m
<1>5. b[m] \in Int /\ b[left] \in Int /\ b[x] \in Int
  BY <1>1, <1>3, <1>4
<1>6. b[m] >= b[x]
  BY <1>3, <1>4, <1>5
<1>7. m # x => m > x /\ m \div 2 = x /\ b[m] > b[x]
  <2>1. CASE m = x + x + 1
    <3>1. m > x /\ m \div 2 = x
      BY <2>1
    <3>2. b[m] > b[left] \/ m = left
      BY <1>4
    <3>3. m = left => left # x
      BY <3>1
    <3>4. b[m] > b[x]
      BY <1>3, <1>5, <3>2, <3>3
    <3>5. QED
      BY <3>1, <3>4
  <2>2. CASE m # x + x + 1
    <3>1. m = left
      BY <1>4, <2>2
    <3>2. m # x => m = x + x /\ x # 0 /\ b[m] > b[x]
      BY <1>3, <3>1
    <3>3. (x + x) \div 2 = x /\ (x # 0 => x + x > x)
      OBVIOUS
    <3>4. QED
      BY <3>2, <3>3
  <2>3. QED
    BY <2>1, <2>2
<1>8. ASSUME NEW k \in 1 .. hs - 1, k \div 2 = x PROVE b[m] >= b[k]
  <2>1. k = x + x \/ k = x + x + 1
    <3>1. k \in Nat
      OBVIOUS
    <3>2. k = 2 * x \/ k = 2 * x + 1
      BY <1>8, <3>1, Above
    <3>3. 2 * x = x + x
      OBVIOUS
    <3>4. QED
      BY <3>2, <3>3
  <2>2. b[k] \in Int
    BY <1>1
  <2>3. CASE k = x + x
    <3>1. b[left] >= b[k]
      BY <1>3, <2>3
    <3>2. QED
      BY <1>4, <1>5, <2>2, <3>1
  <2>4. CASE k = x + x + 1
    BY <1>4, <2>4
  <2>5. QED
    BY <2>1, <2>3, <2>4
<1>9. QED
  BY <1>4, <1>6, <1>7, <1>8 DEF m

LEMMA NoHole ==
  ASSUME NEW n \in Nat, NEW b \in Vector(n), NEW hs \in 1 .. n, NEW lo \in Nat, NEW x \in 0 .. hs - 1,
         Hole(b, hs, lo, x), Arr!largest(b, x, hs) = x
  PROVE  Heap(b, hs, lo)
<1>1. \A k \in 1 .. hs - 1 : k \div 2 = x => b[x] >= b[k]
  BY LargestIs
<1>2. QED
  BY <1>1 DEF Hole, Heap

LEMMA HoleSinks ==
  ASSUME NEW n \in Nat, NEW b \in Vector(n), NEW hs \in 1 .. n, NEW lo \in Nat, NEW x \in 0 .. hs - 1,
         Hole(b, hs, lo, x), NEW m, m = Arr!largest(b, x, hs), m # x
  PROVE  Hole(Arr!Exchange(b, x, m), hs, lo, m)
<1> DEFINE c == Arr!Exchange(b, x, m)
<1>1. /\ m \in 0 .. hs - 1 /\ b[m] >= b[x] /\ m > x /\ m \div 2 = x
      /\ \A k \in 1 .. hs - 1 : k \div 2 = x => b[m] >= b[k]
  BY LargestIs
<1>2. x \in 0 .. n - 1 /\ m \in 0 .. n - 1 /\ m \in 1 .. hs - 1
  BY <1>1
<1>3. /\ c[x] = b[m] /\ c[m] = b[x]
      /\ \A k \in 0 .. n - 1 : k \notin {x, m} => c[k] = b[k]
  BY <1>2, Exchanged
<1> HIDE DEF c
<1>4. ASSUME NEW k \in 1 .. hs - 1
      PROVE /\ k \in Nat /\ k \in 0 .. n - 1 /\ k \div 2 \in 0 .. n - 1 /\ k \div 2 < k
            /\ k = m => k \div 2 = x
  <2>1. k \in Nat /\ k # 0
    OBVIOUS
  <2>2. k \div 2 \in Nat /\ k \div 2 < k
    BY <2>1, Above
  <2>3. QED
    BY <1>1, <2>1, <2>2
<1>5. ASSUME NEW k \in 1 .. hs - 1, k \div 2 >= lo, k \div 2 # m PROVE c[k \div 2] >= c[k]
  <2>1. CASE k \div 2 = x
    <3>1. b[m] >= b[k] /\ c[k \div 2] = b[m]
      BY <1>1, <1>3, <2>1
    <3>2. CASE k = m
      BY <1>1, <1>3, <3>1, <3>2
    <3>3. CASE k # m
      <4>1. k # x
        BY <1>4, <2>1
      <4>2. c[k] = b[k]
        BY <1>3, <1>4, <3>3, <4>1
      <4>3. QED
        BY <3>1, <4>2
    <3>4. QED
      BY <3>2, <3>3
  <2>2. CASE k \div 2 # x
    <3>1. c[k \div 2] = b[k \div 2] /\ k # m
      BY <1>3, <1>4, <1>5, <2>2
    <3>2. CASE k = x
      <4>1. x >= 1 /\ x \div 2 >= lo
        BY <1>5, <3>2
      <4>2. b[x \div 2] >= b[m]
        BY <1>1, <1>2, <4>1 DEF Hole
      <4>3. QED
        BY <1>3, <3>1, <3>2, <4>2
    <3>3. CASE k # x
      <4>1. c[k] = b[k]
        BY <1>3, <1>4, <3>1, <3>3
      <4>2. b[k \div 2] >= b[k]
        BY <1>5, <2>2 DEF Hole
      <4>3. QED
        BY <3>1, <4>1, <4>2
    <3>4. QED
      BY <3>2, <3>3
  <2>3. QED
    BY <2>1, <2>2
<1>6. ASSUME NEW k \in 1 .. hs - 1, k \div 2 = m, m >= 1, m \div 2 >= lo PROVE c[m \div 2] >= c[k]
  <2>1. k \div 2 >= lo /\ k \div 2 # x
    BY <1>1, <1>6
  <2>2. b[m] >= b[k]
    BY <1>6, <2>1 DEF Hole
  <2>3. k \notin {x, m}
    BY <1>1, <1>4, <1>6
  <2>4. c[k] = b[k]
    BY <1>3, <1>4, <2>3
  <2>5. QED
    BY <1>1, <1>3, <2>2, <2>4
<1>7. Hole(c, hs, lo, m)
  BY <1>5, <1>6 DEF Hole
<1>8. QED
  BY <1>7 DEF c

(* Max_HeapIFY fills the hole: at each call it has sunk, or there is none.   *)
Sinking(s, a, n, hs, lo, k) ==
  /\ s \in [array : Vector(n), i : 0 .. hs - 1]
  /\ Rearranged(a, s.array, n, 0, hs - 1)
  /\ \/ Heap(s.array, hs, lo) /\ Arr!largest(s.array, s.i, hs) = s.i
     \/ Hole(s.array, hs, lo, s.i) /\ s.i >= k

LEMMA SinkTurn ==
  ASSUME NEW n \in Nat, NEW a, NEW hs \in 1 .. n, NEW lo \in Nat, NEW k \in 1 .. hs, NEW s,
         Sinking(s, a, n, hs, lo, k - 1)
  PROVE  Sinking(Arr!sink(s, hs), a, n, hs, lo, k)
<1> DEFINE b == s.array
           x == s.i
           m == Arr!largest(b, x, hs)
<1>1. b \in Vector(n) /\ x \in 0 .. hs - 1
  BY DEF Sinking
<1>2. CASE m = x
  <2>1. Arr!sink(s, hs) = s
    BY <1>2 DEF Arr!sink
  <2>2. Heap(b, hs, lo)
    <3>1. Heap(b, hs, lo) \/ Hole(b, hs, lo, x)
      BY DEF Sinking
    <3> HIDE DEF b, x
    <3>2. QED
      BY <1>1, <1>2, <3>1, NoHole DEF m
  <2>3. QED
    BY <1>2, <2>1, <2>2 DEF Sinking
<1>3. CASE m # x
  <2> DEFINE c == Arr!Exchange(b, x, m)
  <2>1. Arr!sink(s, hs) = [array |-> c, i |-> m]
    BY <1>3 DEF Arr!sink
  <2>2. Rearranged(a, b, n, 0, hs - 1) /\ Hole(b, hs, lo, x) /\ x >= k - 1
    BY <1>3 DEF Sinking
  <2> HIDE DEF b, x
  <2>3. m \in 0 .. hs - 1 /\ m > x
    BY <1>1, <1>3, LargestIs DEF m
  <2>4. Hole(c, hs, lo, m)
    BY <1>1, <1>3, <2>2, HoleSinks DEF m
  <2>5. Rearranged(b, c, n, 0, hs - 1)
    <3>1. 0 \in Int /\ hs - 1 \in Int /\ x \in 0 .. n - 1 /\ m \in 0 .. n - 1
      BY <1>1, <2>3
    <3> HIDE DEF m
    <3>2. QED
      BY <1>1, <2>3, <3>1, ExchangeMoves
  <2> HIDE DEF m, c
  <2>6. Rearranged(a, c, n, 0, hs - 1)
    <3>1. 0 \in Int /\ hs - 1 \in Int
      OBVIOUS
    <3>2. QED
      BY <2>2, <2>5, <3>1, MovedTwice
  <2>7. m >= k
    BY <1>1, <2>2, <2>3
  <2>8. c \in Vector(n)
    BY <2>6 DEF Rearranged
  <2>9. QED
    BY <2>1, <2>3, <2>4, <2>6, <2>7, <2>8 DEF Sinking
<1>4. QED
  BY <1>2, <1>3

LEMMA HeapifyFills ==
  ASSUME NEW n \in Nat, NEW a \in Vector(n), NEW hs \in 1 .. n, NEW lo \in Nat, NEW x \in 0 .. hs - 1,
         Hole(a, hs, lo, x)
  PROVE  /\ Rearranged(a, Arr!Max_HeapIFY(a, x, hs), n, 0, hs - 1)
         /\ Heap(Arr!Max_HeapIFY(a, x, hs), hs, lo)
<1> DEFINE D == [array : Vector(n), i : 0 .. hs - 1]
           start == [array |-> a, i |-> x]
           turn(s) == Arr!sink(s, hs)
           F == [k \in 1 .. hs |-> [s \in D |-> turn(s)]]
           G == [k \in 0 .. hs |-> {s \in D : Sinking(s, a, n, hs, lo, k)}]
           loop(c) == [k \in 0 .. hs |-> IF k = 0 THEN start ELSE turn(c[k - 1])]
           c0 == CHOOSE c : c = loop(c)
<1>1. Arr!Max_HeapIFY(a, x, hs) = c0[hs].array
  BY DEF Arr!Max_HeapIFY
<1>2. /\ 0 \in 0 .. hs /\ hs \in 0 .. hs /\ 0 \in Int /\ hs \in Int /\ 0 <= hs /\ hs - 1 \in Int
      /\ \A k \in 1 .. hs : k \in 0 .. hs /\ k - 1 \in 0 .. hs /\ k # 0
  OBVIOUS
<1>3. start \in G[0]
  <2>1. Rearranged(a, a, n, 0, hs - 1)
    BY <1>2, Unmoved
  <2>2. Sinking(start, a, n, hs, lo, 0)
    BY <2>1 DEF Sinking
  <2>3. QED
    BY <1>2, <2>2
<1>4. ASSUME NEW k \in 1 .. hs, NEW s \in G[k - 1] PROVE s \in D /\ turn(s) \in G[k]
  <2>1. s \in D /\ Sinking(s, a, n, hs, lo, k - 1)
    BY <1>2
  <2>2. Sinking(turn(s), a, n, hs, lo, k)
    BY <2>1, SinkTurn
  <2>3. turn(s) \in D
    BY <2>2 DEF Sinking
  <2> HIDE DEF turn, D
  <2>4. QED
    BY <1>2, <2>1, <2>2, <2>3
<1>5. \A k \in 1 .. hs, s \in D : F[k][s] = turn(s)
  OBVIOUS
<1>6. PICK u : Upwards(u, 0, hs, start, F) /\ \A k \in 0 .. hs : u[k] \in G[k]
  <2>1. \A k \in 0 + 1 .. hs : \A s \in G[k - 1] : F[k][s] \in G[k]
    <3> HIDE DEF F, G, D, turn
    <3>1. QED
      BY <1>4, <1>5
  <2> HIDE DEF F, G, start
  <2>2. QED
    BY ONLY <1>2, <1>3, <2>1, UpwardsRun
<1>7. u = loop(u)
  <2>1. u = [k \in 0 .. hs |-> IF k = 0 THEN start ELSE F[k][u[k - 1]]]
    <3> HIDE DEF F, start
    <3>1. QED
      BY <1>6 DEF Upwards
  <2>2. \A k \in 1 .. hs : F[k][u[k - 1]] = turn(u[k - 1])
    <3> HIDE DEF F, G, D, turn
    <3>1. QED
      BY <1>2, <1>4, <1>5, <1>6
  <2>3. \A k \in 0 .. hs : k = 0 \/ k \in 1 .. hs
    OBVIOUS
  <2> HIDE DEF F, turn, start
  <2>4. QED
    BY <2>1, <2>2, <2>3
<1>8. c0 = loop(c0)
  <2> HIDE DEF loop
  <2>1. QED
    BY <1>7
<1>9. \A k \in 0 .. hs : c0[k] = IF k = 0 THEN start ELSE turn(c0[k - 1])
  <2> HIDE DEF c0, turn, start
  <2>1. QED
    BY <1>8
<1>10. \A k \in 0 .. hs : c0[k] \in G[k]
  <2> HIDE DEF c0, G, turn, start
  <2>1. c0[0] \in G[0]
    BY <1>2, <1>3, <1>9
  <2>2. \A k \in 0 + 1 .. hs : c0[k - 1] \in G[k - 1] => c0[k] \in G[k]
    BY <1>2, <1>4, <1>9
  <2>3. QED
    BY ONLY <1>2, <2>1, <2>2, StaysUpwards
<1>11. Sinking(c0[hs], a, n, hs, lo, hs)
  <2> HIDE DEF c0, D
  <2>1. c0[hs] \in G[hs]
    BY <1>2, <1>10
  <2>2. QED
    BY <1>2, <2>1
<1>12. QED
  <2> HIDE DEF c0
  <2>1. c0[hs].i \in 0 .. hs - 1
    BY <1>11 DEF Sinking
  <2>2. Heap(c0[hs].array, hs, lo)
    BY <1>11, <2>1 DEF Sinking
  <2>3. QED
    BY <1>1, <1>11, <2>2 DEF Sinking

(* Build_Max_Heap, from the middle up to the first.                          *)
LEMMA BuildTurn ==
  ASSUME NEW n \in Nat, NEW a, NEW t \in 0 .. n \div 2, n # 0, NEW b,
         Rearranged(a, b, n, 0, n - 1), Heap(b, n, t + 1)
  PROVE  LET c == Arr!Max_HeapIFY(b, t, n)
         IN Rearranged(a, c, n, 0, n - 1) /\ Heap(c, n, t)
<1>1. n \in 1 .. n /\ t \in Nat /\ t \in 0 .. n - 1 /\ b \in Vector(n) /\ 0 \in Int /\ n - 1 \in Int
  <2>1. n \div 2 \in Nat /\ n \div 2 < n
    BY Above
  <2>2. QED
    BY <2>1 DEF Rearranged
<1>2. Hole(b, n, t, t)
  <2>1. \A k \in 1 .. n - 1 : k \div 2 \in Nat
    BY Above
  <2>2. \A k \in 1 .. n - 1 : k \div 2 >= t /\ k \div 2 # t => b[k \div 2] >= b[k]
    <3>1. \A k \in 1 .. n - 1 : k \div 2 >= t /\ k \div 2 # t => k \div 2 >= t + 1
      BY <1>1, <2>1
    <3>2. QED
      BY <3>1 DEF Heap
  <2>3. t >= 1 => ~ (t \div 2 >= t)
    BY <1>1, Above
  <2>4. QED
    BY <2>2, <2>3 DEF Hole
<1>3. Rearranged(b, Arr!Max_HeapIFY(b, t, n), n, 0, n - 1) /\ Heap(Arr!Max_HeapIFY(b, t, n), n, t)
  BY <1>1, <1>2, HeapifyFills
<1>4. QED
  BY <1>1, <1>3, MovedTwice

LEMMA BuildsHeap ==
  ASSUME NEW n \in Nat, n # 0, NEW a \in Vector(n)
  PROVE  Rearranged(a, Arr!Build_Max_Heap(a), n, 0, n - 1) /\ Heap(Arr!Build_Max_Heap(a), n, 0)
<1> DEFINE h == n \div 2 + 1
           turn(b, t) == Arr!Max_HeapIFY(b, t, n)
           F == [t \in 0 .. h |-> [b \in Vector(n) |-> turn(b, t)]]
           G == [t \in 0 .. h |-> {b \in Vector(n) : Rearranged(a, b, n, 0, n - 1) /\ Heap(b, n, t)}]
           loop(c) == [t \in 0 .. h |-> IF t = h THEN a ELSE turn(c[t + 1], t)]
           c0 == CHOOSE c : c = loop(c)
<1>1. Arr!size(a) = n /\ h - 1 = n \div 2
  BY SizeOfVector, Above
<1>2. Arr!Build_Max_Heap(a) = c0[0]
  BY <1>1 DEF Arr!Build_Max_Heap
<1>3. Heap(a, n, h)
  <2>1. \A k \in 1 .. n - 1 : ~ (k \div 2 >= n \div 2 + 1)
    OBVIOUS
  <2>2. QED
    BY <2>1 DEF Heap
<1>4. h \in Nat /\ h \in Int /\ 0 \in Int /\ 0 <= h /\ n - 1 \in Int /\ h \in 0 .. h /\ 0 \in 0 .. h
  BY Above
<1>5. \A t \in 0 .. h - 1 : t \in 0 .. n \div 2
  BY <1>1
<1> HIDE DEF h
<1>6. \A t \in 0 .. h - 1 : t \in 0 .. h /\ t + 1 \in 0 .. h /\ t # h
  BY <1>4
<1>7. a \in G[h]
  <2>1. Rearranged(a, a, n, 0, n - 1)
    BY <1>4, Unmoved
  <2>2. QED
    BY <1>3, <1>4, <2>1
<1>8. ASSUME NEW t \in 0 .. h - 1, NEW b \in G[t + 1] PROVE b \in Vector(n) /\ turn(b, t) \in G[t]
  <2>1. b \in Vector(n) /\ Rearranged(a, b, n, 0, n - 1) /\ Heap(b, n, t + 1)
    BY <1>6
  <2>2. Rearranged(a, turn(b, t), n, 0, n - 1) /\ Heap(turn(b, t), n, t)
    BY <1>5, <2>1, BuildTurn
  <2>3. turn(b, t) \in Vector(n)
    BY <2>2 DEF Rearranged
  <2> HIDE DEF turn
  <2>4. QED
    BY <1>6, <2>1, <2>2, <2>3
<1>9. \A t \in 0 .. h - 1, b \in Vector(n) : F[t][b] = turn(b, t)
  BY <1>6
<1>10. PICK u : Downwards(u, 0, h, a, F) /\ \A t \in 0 .. h : u[t] \in G[t]
  <2>1. \A t \in 0 .. h - 1 : \A b \in G[t + 1] : F[t][b] \in G[t]
    <3> HIDE DEF F, G, turn
    <3>1. QED
      BY <1>8, <1>9
  <2> HIDE DEF F, G
  <2>2. QED
    BY ONLY <1>4, <1>7, <2>1, DownwardsRun
<1>11. u = loop(u)
  <2>1. u = [t \in 0 .. h |-> IF t = h THEN a ELSE F[t][u[t + 1]]]
    <3> HIDE DEF F
    <3>1. QED
      BY <1>10 DEF Downwards
  <2>2. \A t \in 0 .. h - 1 : F[t][u[t + 1]] = turn(u[t + 1], t)
    <3> HIDE DEF F, G, turn
    <3>1. QED
      BY <1>6, <1>8, <1>9, <1>10
  <2>3. \A t \in 0 .. h : t = h \/ t \in 0 .. h - 1
    BY <1>4
  <2> HIDE DEF F, turn
  <2>4. QED
    BY <2>1, <2>2, <2>3
<1>12. c0 = loop(c0)
  <2> HIDE DEF loop
  <2>1. QED
    BY <1>11
<1>13. \A t \in 0 .. h : c0[t] = IF t = h THEN a ELSE turn(c0[t + 1], t)
  <2> HIDE DEF c0, turn
  <2>1. QED
    BY <1>12
<1>14. \A t \in 0 .. h : c0[t] \in G[t]
  <2> HIDE DEF c0, G, turn
  <2>1. c0[h] \in G[h]
    BY <1>4, <1>7, <1>13
  <2>2. \A t \in 0 .. h - 1 : c0[t + 1] \in G[t + 1] => c0[t] \in G[t]
    BY <1>6, <1>8, <1>13
  <2>3. QED
    BY ONLY <1>4, <2>1, <2>2, StaysDownwards
<1>15. c0[0] \in G[0]
  BY <1>4, <1>14
<1>16. QED
  <2> HIDE DEF c0
  <2>1. QED
    BY <1>2, <1>4, <1>15

(* The first element of a heap is not less than any.                         *)
LEMMA HeapRoot ==
  ASSUME NEW n \in Nat, NEW b \in Vector(n), NEW hs \in 1 .. n, Heap(b, hs, 0)
  PROVE  \A k \in 0 .. hs - 1 : b[k] <= b[0]
<1> DEFINE T == {k \in 0 .. hs - 1 : ~ (b[k] <= b[0])}
<1>1. \A k \in 0 .. hs - 1 : b[k] \in Int
  BY DEF Vector
<1>2. SUFFICES ASSUME T # {} PROVE FALSE
  OBVIOUS
<1>3. PICK k \in T : \A y \in T : k <= y
  <2>1. T \subseteq Nat
    OBVIOUS
  <2> HIDE DEF T
  <2>2. QED
    BY <1>2, <2>1, LeastNumber
<1>4. k \in 0 .. hs - 1 /\ ~ (b[k] <= b[0]) /\ 0 \in 0 .. hs - 1
  OBVIOUS
<1>5. k # 0
  BY <1>1, <1>4
<1>6. k \in Nat /\ k \in 1 .. hs - 1
  BY <1>4, <1>5
<1>7. k \div 2 \in 0 .. hs - 1 /\ k \div 2 < k /\ k \div 2 >= 0
  BY <1>5, <1>6, Above
<1>8. b[k \div 2] >= b[k]
  BY <1>6, <1>7 DEF Heap
<1>9. b[k \div 2] <= b[0]
  <2>1. k \div 2 \notin T
    <3>1. ~ (k <= k \div 2)
      BY <1>6, <1>7
    <3> HIDE DEF T
    <3>2. QED
      BY <1>3, <3>1
  <2>2. QED
    BY <1>7, <2>1
<1>10. b[k] \in Int /\ b[0] \in Int /\ b[k \div 2] \in Int
  BY <1>1, <1>4, <1>7
<1>11. QED
  BY <1>4, <1>8, <1>9, <1>10

(* What is behind stays as it is when others change places before it.        *)
Back(b, n, t) == \A k \in t .. n - 1 : \A j \in 0 .. k : b[j] <= b[k]

LEMMA BackStays ==
  ASSUME NEW n \in Nat, NEW a, NEW b, NEW t \in 0 .. n, Back(a, n, t), Rearranged(a, b, n, 0, t - 1)
  PROVE  Back(b, n, t)
<1>1. 0 \in Int /\ t - 1 \in Int
  OBVIOUS
<1>2. /\ \A k \in 0 .. n - 1 : k \notin 0 .. t - 1 => b[k] = a[k]
      /\ \A k \in 0 .. n - 1 : k \in 0 .. t - 1 =>
           \E j \in 0 .. n - 1 : j \in 0 .. t - 1 /\ b[k] = a[j]
  BY <1>1, MovedFrom
<1>3. ASSUME NEW k \in t .. n - 1, NEW j \in 0 .. k PROVE b[j] <= b[k]
  <2>1. j \in 0 .. n - 1 /\ k \in 0 .. n - 1 /\ k \notin 0 .. t - 1
    OBVIOUS
  <2>2. b[k] = a[k]
    BY <1>2, <2>1
  <2>3. PICK m \in 0 .. k : b[j] = a[m]
    <3>1. CASE j \in 0 .. t - 1
      <4>1. PICK m \in 0 .. n - 1 : m \in 0 .. t - 1 /\ b[j] = a[m]
        BY <1>2, <2>1, <3>1
      <4>2. QED
        BY <4>1
    <3>2. CASE j \notin 0 .. t - 1
      BY <1>2, <2>1, <3>2
    <3>3. QED
      BY <3>1, <3>2
  <2>4. QED
    BY <2>2, <2>3 DEF Back
<1>4. QED
  BY <1>3 DEF Back

LEMMA HeapTurn ==
  ASSUME NEW n \in Nat, NEW a, NEW t \in 1 .. n - 1, NEW b,
         Rearranged(a, b, n, 0, n - 1), Heap(b, t + 1, 0), Back(b, n, t + 1)
  PROVE  LET d == Arr!Max_HeapIFY(Arr!Exchange(b, 0, t), 0, t)
         IN Rearranged(a, d, n, 0, n - 1) /\ Heap(d, t, 0) /\ Back(d, n, t)
<1> DEFINE c == Arr!Exchange(b, 0, t)
           d == Arr!Max_HeapIFY(c, 0, t)
<1>1. /\ b \in Vector(n) /\ 0 \in 0 .. n - 1 /\ t \in 0 .. n - 1 /\ t + 1 \in 1 .. n /\ t \in 1 .. n
      /\ 0 \in Int /\ n - 1 \in Int /\ 0 \in 0 .. t - 1 /\ 0 \in Nat /\ t - 1 \in Int /\ t - 1 <= n - 1 /\ 0 <= 0
      /\ t + 1 - 1 = t
  BY DEF Rearranged
<1>2. Rearranged(b, c, n, 0, n - 1)
  BY <1>1, ExchangeMoves
<1>3. /\ c[0] = b[t] /\ c[t] = b[0]
      /\ \A k \in 0 .. n - 1 : k \notin {0, t} => c[k] = b[k]
  BY <1>1, Exchanged
<1>4. c \in Vector(n)
  BY <1>2 DEF Rearranged
<1> HIDE DEF c
<1>5. Hole(c, t, 0, 0)
  <2>1. ASSUME NEW k \in 1 .. t - 1, k \div 2 # 0 PROVE c[k \div 2] >= c[k]
    <3>1. k \in Nat
      OBVIOUS
    <3>2. k \div 2 \in Nat /\ k \div 2 < k
      BY <3>1, Above
    <3>3. /\ k \in 0 .. n - 1 /\ k \div 2 \in 0 .. n - 1 /\ k \notin {0, t} /\ k \div 2 \notin {0, t}
          /\ k \in 1 .. t + 1 - 1 /\ k \div 2 >= 0
      BY <2>1, <3>2
    <3>4. c[k] = b[k] /\ c[k \div 2] = b[k \div 2]
      BY <1>3, <3>3
    <3>5. b[k \div 2] >= b[k]
      BY <3>3 DEF Heap
    <3>6. QED
      BY <3>4, <3>5
  <2>2. ~ (0 >= 1)
    OBVIOUS
  <2>3. QED
    BY <2>1, <2>2 DEF Hole
<1>6. Rearranged(c, d, n, 0, t - 1) /\ Heap(d, t, 0)
  BY <1>1, <1>4, <1>5, HeapifyFills
<1> HIDE DEF d
<1>7. Rearranged(a, d, n, 0, n - 1)
  <2>1. Rearranged(c, d, n, 0, n - 1)
    BY <1>1, <1>6, MovedWithin
  <2>2. Rearranged(a, c, n, 0, n - 1)
    BY <1>1, <1>2, MovedTwice
  <2>3. QED
    BY <1>1, <2>1, <2>2, MovedTwice
<1>8. \A k \in 0 .. t : b[k] <= b[0]
  BY <1>1, HeapRoot
<1>9. ASSUME NEW k \in t .. n - 1, NEW j \in 0 .. k PROVE c[j] <= c[k]
  <2>1. k \in 0 .. n - 1 /\ j \in 0 .. n - 1
    OBVIOUS
  <2>2. PICK m \in 0 .. k : c[j] = b[m]
    <3>1. CASE j = 0
      BY <1>3, <3>1
    <3>2. CASE j = t
      BY <1>3, <3>2
    <3>3. CASE j \notin {0, t}
      BY <1>3, <2>1, <3>3
    <3>4. QED
      BY <3>1, <3>2, <3>3
  <2>3. CASE k = t
    BY <1>3, <1>8, <2>2, <2>3
  <2>4. CASE k # t
    <3>1. k \notin {0, t} /\ k \in t + 1 .. n - 1
      BY <2>4
    <3>2. c[k] = b[k]
      BY <1>3, <2>1, <3>1
    <3>3. b[m] <= b[k]
      BY <2>2, <3>1 DEF Back
    <3>4. QED
      BY <2>2, <3>2, <3>3
  <2>5. QED
    BY <2>3, <2>4
<1>10. Back(c, n, t)
  BY <1>9 DEF Back
<1>11. Back(d, n, t)
  <2>1. t \in 0 .. n
    OBVIOUS
  <2>2. QED
    BY <1>6, <1>10, <2>1, BackStays
<1>12. QED
  BY <1>6, <1>7, <1>11 DEF c, d

LEMMA HeapSorts ==
  ASSUME NEW n \in Nat, NEW a \in Vector(n)
  PROVE  Rearranged(a, Arr!heaped(a), n, 0, n - 1) /\ Back(Arr!heaped(a), n, 1)
<1> DEFINE start == Arr!Build_Max_Heap(a)
           turn(b, t) == Arr!Max_HeapIFY(Arr!Exchange(b, 0, t), 0, t)
           F == [t \in 1 .. n |-> [b \in Vector(n) |-> turn(b, t)]]
           Good(b, t) == Rearranged(a, b, n, 0, n - 1) /\ Heap(b, t, 0) /\ Back(b, n, t)
           G == [t \in 1 .. n |-> {b \in Vector(n) : Good(b, t)}]
           loop(c) == [t \in 1 .. n |-> IF t = n THEN start ELSE turn(c[t + 1], t)]
           c0 == CHOOSE c : c = loop(c)
<1>1. Arr!size(a) = n
  BY SizeOfVector
<1>2. Arr!heaped(a) = IF n = 0 THEN a ELSE c0[1]
  BY <1>1 DEF Arr!heaped
<1>3. CASE n = 0
  <2>1. n - 1 \in Int /\ 0 \in Int
    OBVIOUS
  <2>2. Rearranged(a, a, n, 0, n - 1)
    BY <2>1, Unmoved
  <2>3. Back(a, n, 1)
    BY <1>3 DEF Back
  <2>4. QED
    BY <1>2, <1>3, <2>2, <2>3
<1>4. CASE n # 0
  <2>1. 1 \in Int /\ n \in Int /\ 1 <= n /\ n \in 1 .. n /\ 1 \in 1 .. n
    BY <1>4
  <2>2. \A t \in 1 .. n - 1 : t \in 1 .. n /\ t + 1 \in 1 .. n /\ t # n
    OBVIOUS
  <2>3. start \in G[n]
    <3>1. Rearranged(a, start, n, 0, n - 1) /\ Heap(start, n, 0)
      BY <1>4, BuildsHeap
    <3>2. start \in Vector(n) /\ Back(start, n, n)
      BY <3>1 DEF Rearranged, Back
    <3> HIDE DEF start
    <3>3. QED
      BY <2>1, <3>1, <3>2
  <2> HIDE DEF start
  <2>4. ASSUME NEW t \in 1 .. n - 1, NEW b \in G[t + 1] PROVE b \in Vector(n) /\ turn(b, t) \in G[t]
    <3>1. b \in Vector(n) /\ Good(b, t + 1)
      <4> HIDE DEF Good
      <4>1. QED
        BY <2>2
    <3>2. Good(turn(b, t), t)
      BY <3>1, HeapTurn
    <3>3. turn(b, t) \in Vector(n)
      BY <3>2 DEF Rearranged
    <3> HIDE DEF turn, Good
    <3>4. QED
      BY <2>2, <3>1, <3>2, <3>3
  <2>5. \A t \in 1 .. n - 1, b \in Vector(n) : F[t][b] = turn(b, t)
    BY <2>2
  <2>6. PICK u : Downwards(u, 1, n, start, F) /\ \A t \in 1 .. n : u[t] \in G[t]
    <3>1. \A t \in 1 .. n - 1 : \A b \in G[t + 1] : F[t][b] \in G[t]
      <4> HIDE DEF F, G, turn
      <4>1. QED
        BY <2>4, <2>5
    <3> HIDE DEF F, G
    <3>2. QED
      BY ONLY <2>1, <2>3, <3>1, DownwardsRun
  <2>7. u = loop(u)
    <3>1. u = [t \in 1 .. n |-> IF t = n THEN start ELSE F[t][u[t + 1]]]
      <4> HIDE DEF F
      <4>1. QED
        BY <2>6 DEF Downwards
    <3>2. \A t \in 1 .. n - 1 : F[t][u[t + 1]] = turn(u[t + 1], t)
      <4> HIDE DEF F, G, turn
      <4>1. QED
        BY <2>2, <2>4, <2>5, <2>6
    <3>3. \A t \in 1 .. n : t = n \/ t \in 1 .. n - 1
      OBVIOUS
    <3> HIDE DEF F, turn
    <3>4. QED
      BY <3>1, <3>2, <3>3
  <2>8. c0 = loop(c0)
    <3> HIDE DEF loop
    <3>1. QED
      BY <2>7
  <2>9. \A t \in 1 .. n : c0[t] = IF t = n THEN start ELSE turn(c0[t + 1], t)
    <3> HIDE DEF c0, turn
    <3>1. QED
      BY <2>8
  <2>10. \A t \in 1 .. n : c0[t] \in G[t]
    <3> HIDE DEF c0, G, turn
    <3>1. c0[n] \in G[n]
      BY <2>1, <2>3, <2>9
    <3>2. \A t \in 1 .. n - 1 : c0[t + 1] \in G[t + 1] => c0[t] \in G[t]
      BY <2>2, <2>4, <2>9
    <3>3. QED
      BY ONLY <2>1, <3>1, <3>2, StaysDownwards
  <2>11. c0[1] \in G[1]
    BY <2>1, <2>10
  <2> HIDE DEF c0
  <2>12. QED
    BY <1>2, <1>4, <2>1, <2>11
<1>5. QED
  BY <1>3, <1>4

(* In order: from the front, but for the last, or from the back.             *)
LEMMA FrontSorted ==
  ASSUME NEW n \in Nat, NEW b \in Vector(n), Placed(b, n, n - 1) \/ Placed(b, n, n) \/ Back(b, n, 1)
  PROVE  Arr!sorted(b)
<1>1. DOMAIN b = 0 .. n - 1 /\ \A k \in 0 .. n - 1 : b[k] \in Int
  BY DEF Vector
<1>2. ASSUME NEW j \in 0 .. n - 1, NEW k \in 0 .. n - 1, j <= k PROVE b[j] <= b[k]
  <2>1. CASE j = k
    BY <1>1, <2>1
  <2>2. CASE j # k
    <3>1. j \in 0 .. n - 1 - 1 /\ k \in j .. n - 1 /\ k \in 1 .. n - 1 /\ j \in 0 .. k
      BY <1>2, <2>2
    <3>2. QED
      BY <3>1 DEF Placed, Back
  <2>3. QED
    BY <2>1, <2>2
<1>3. QED
  BY <1>1, <1>2 DEF Arr!sorted

------------------------------------------------------------------------------
(* Merge. k elements are written: those before x in the first half and before
   y in the second, in order, and none of the others is less.               *)
Merged(a, b, n, p, q, r, k, x, y) ==
  /\ b \in Vector(n) /\ x \in p .. q + 1 /\ y \in q + 1 .. r + 1 /\ (x - p) + (y - q - 1) = k - p + 1
  /\ \A z \in 0 .. n - 1 : z \notin p .. k => b[z] = a[z]
  /\ \E f \in [p .. k -> Int] :
       /\ \A z, w \in p .. k : f[z] = f[w] => z = w
       /\ \A z \in p .. k : (f[z] \in p .. x - 1 \/ f[z] \in q + 1 .. y - 1) /\ b[z] = a[f[z]]
       /\ \A w \in Int : w \in p .. x - 1 \/ w \in q + 1 .. y - 1 => \E z \in p .. k : f[z] = w
  /\ \A z, w \in p .. k : z <= w => b[z] <= b[w]
  /\ \A z \in p .. k : \A w \in p .. r : w \in x .. q \/ w \in y .. r => b[z] <= a[w]

(* An element that is not greater than the rest of both halves comes next.   *)
LEMMA MergeTake ==
  ASSUME NEW n \in Nat, NEW a \in Vector(n), NEW p \in 0 .. n - 1, NEW r \in 0 .. n - 1, NEW q \in p .. r - 1,
         NEW k \in p .. r, NEW b, NEW x, NEW y, Merged(a, b, n, p, q, r, k - 1, x, y),
         NEW from, NEW x2, NEW y2,
         \/ from = x /\ x <= q /\ x2 = x + 1 /\ y2 = y
         \/ from = y /\ y <= r /\ x2 = x /\ y2 = y + 1,
         \A w \in p .. r : w \in x2 .. q \/ w \in y2 .. r => a[from] <= a[w]
  PROVE  Merged(a, [b EXCEPT ![k] = a[from]], n, p, q, r, k, x2, y2)
<1> DEFINE c == [b EXCEPT ![k] = a[from]]
<1>1. b \in Vector(n) /\ x \in p .. q + 1 /\ y \in q + 1 .. r + 1 /\ (x - p) + (y - q - 1) = k - 1 - p + 1
  BY DEF Merged
<1>2. from \in p .. r /\ (from \in x .. q \/ from \in y .. r)
  BY <1>1
<1>3. x2 \in p .. q + 1 /\ y2 \in q + 1 .. r + 1 /\ (x2 - p) + (y2 - q - 1) = k - p + 1
  BY <1>1
<1>4. k \in 0 .. n - 1 /\ from \in 0 .. n - 1 /\ p .. k - 1 \subseteq p .. k
  BY <1>2
<1>5. \A z \in 0 .. n - 1 : a[z] \in Int /\ b[z] \in Int
  BY <1>1 DEF Vector
<1>6. c[k] = a[from] /\ \A z \in 0 .. n - 1 : z # k => c[z] = b[z]
  BY <1>1, <1>4 DEF Vector
<1>7. c \in Vector(n)
  BY <1>1, <1>4, <1>5 DEF Vector
<1> HIDE DEF c
<1>8. \A z \in p .. k : z = k \/ (z \in p .. k - 1 /\ z # k /\ z \in 0 .. n - 1)
  BY <1>4
<1>9. \A z \in 0 .. n - 1 : z \notin p .. k => c[z] = a[z]
  <2>1. \A z \in 0 .. n - 1 : z \notin p .. k => z # k /\ z \notin p .. k - 1
    BY <1>4
  <2>2. \A z \in 0 .. n - 1 : z \notin p .. k - 1 => b[z] = a[z]
    BY DEF Merged
  <2>3. QED
    BY <1>6, <2>1, <2>2
<1>10. \E g \in [p .. k -> Int] :
          /\ \A z, w \in p .. k : g[z] = g[w] => z = w
          /\ \A z \in p .. k : (g[z] \in p .. x2 - 1 \/ g[z] \in q + 1 .. y2 - 1) /\ c[z] = a[g[z]]
          /\ \A w \in Int : w \in p .. x2 - 1 \/ w \in q + 1 .. y2 - 1 => \E z \in p .. k : g[z] = w
  <2>1. PICK f \in [p .. k - 1 -> Int] :
          /\ \A z, w \in p .. k - 1 : f[z] = f[w] => z = w
          /\ \A z \in p .. k - 1 : (f[z] \in p .. x - 1 \/ f[z] \in q + 1 .. y - 1) /\ b[z] = a[f[z]]
          /\ \A w \in Int : w \in p .. x - 1 \/ w \in q + 1 .. y - 1 => \E z \in p .. k - 1 : f[z] = w
    BY DEF Merged
  <2> DEFINE g == [z \in p .. k |-> IF z = k THEN from ELSE f[z]]
  <2>2. g \in [p .. k -> Int] /\ k \in p .. k
    BY <1>2
  <2>3. g[k] = from /\ \A z \in p .. k - 1 : g[z] = f[z]
    BY <1>4
  <2> HIDE DEF g
  <2>4. \A z \in p .. k - 1 : f[z] # from
    <3>1. ~ (from \in p .. x - 1 \/ from \in q + 1 .. y - 1)
      BY <1>1, <1>2
    <3>2. QED
      BY <2>1, <3>1
  <2>5. \A z, w \in p .. k : g[z] = g[w] => z = w
    BY <1>8, <2>1, <2>3, <2>4
  <2>6. \A w \in Int : w \in p .. x2 - 1 \/ w \in q + 1 .. y2 - 1 <=> w = from \/ w \in p .. x - 1 \/ w \in q + 1 .. y - 1
    BY <1>1, <1>2
  <2>7. ASSUME NEW z \in p .. k PROVE (g[z] \in p .. x2 - 1 \/ g[z] \in q + 1 .. y2 - 1) /\ c[z] = a[g[z]]
    <3>1. CASE z = k
      <4>1. from \in Int
        BY <1>2
      <4>2. QED
        BY <1>6, <2>3, <2>6, <3>1, <4>1
    <3>2. CASE z # k
      <4>1. z \in p .. k - 1 /\ z \in 0 .. n - 1
        BY <1>8, <3>2
      <4>2. f[z] \in Int /\ (f[z] \in p .. x - 1 \/ f[z] \in q + 1 .. y - 1) /\ b[z] = a[f[z]]
        BY <2>1, <4>1
      <4>3. QED
        BY <1>6, <2>3, <2>6, <3>2, <4>1, <4>2
    <3>3. QED
      BY <3>1, <3>2
  <2>8. ASSUME NEW w \in Int, w \in p .. x2 - 1 \/ w \in q + 1 .. y2 - 1 PROVE \E z \in p .. k : g[z] = w
    <3>1. CASE w = from
      BY <2>2, <2>3, <3>1
    <3>2. CASE w # from
      <4>1. w \in p .. x - 1 \/ w \in q + 1 .. y - 1
        BY <2>6, <2>8, <3>2
      <4>2. PICK z \in p .. k - 1 : f[z] = w
        BY <2>1, <4>1
      <4>3. QED
        BY <1>4, <2>3, <4>2
    <3>3. QED
      BY <3>1, <3>2
  <2>9. QED
    BY <2>2, <2>5, <2>7, <2>8
<1>11. \A z \in p .. k - 1 : b[z] <= a[from]
  BY <1>2 DEF Merged
<1>12. ASSUME NEW z \in p .. k, NEW w \in p .. k, z <= w PROVE c[z] <= c[w]
  <2>1. CASE w = k /\ z = k
    BY <1>4, <1>5, <1>6, <2>1
  <2>2. CASE w = k /\ z # k
    BY <1>6, <1>8, <1>11, <2>2
  <2>3. CASE w # k
    <3>1. z # k
      BY <1>12, <2>3
    <3>2. z \in p .. k - 1 /\ w \in p .. k - 1 /\ c[z] = b[z] /\ c[w] = b[w]
      BY <1>6, <1>8, <2>3, <3>1
    <3>3. QED
      BY <1>12, <3>2 DEF Merged
  <2>4. QED
    BY <2>1, <2>2, <2>3
<1>13. ASSUME NEW z \in p .. k, NEW w \in p .. r, w \in x2 .. q \/ w \in y2 .. r PROVE c[z] <= a[w]
  <2>1. CASE z = k
    BY <1>6, <1>13, <2>1
  <2>2. CASE z # k
    <3>1. w \in x .. q \/ w \in y .. r
      BY <1>1, <1>13
    <3>2. z \in p .. k - 1 /\ c[z] = b[z]
      BY <1>6, <1>8, <2>2
    <3>3. b[z] <= a[w]
      BY <3>1, <3>2 DEF Merged
    <3>4. QED
      BY <3>2, <3>3
  <2>3. QED
    BY <2>1, <2>2
<1>14. \A z, w \in p .. k : z <= w => c[z] <= c[w]
  BY <1>12
<1>15. \A z \in p .. k : \A w \in p .. r : w \in x2 .. q \/ w \in y2 .. r => c[z] <= a[w]
  BY <1>13
<1>16. Merged(a, c, n, p, q, r, k, x2, y2)
  BY ONLY <1>3, <1>7, <1>9, <1>10, <1>14, <1>15 DEF Merged
<1>17. QED
  BY <1>16 DEF c

InOrder(b, p, r) == \A j, k \in p .. r : j <= k => b[j] <= b[k]

LEMMA MergedAll ==
  ASSUME NEW n \in Nat, NEW a \in Vector(n), NEW p \in 0 .. n - 1, NEW r \in 0 .. n - 1, NEW q \in p .. r - 1,
         NEW b, NEW x, NEW y, Merged(a, b, n, p, q, r, r, x, y)
  PROVE  Rearranged(a, b, n, p, r) /\ InOrder(b, p, r)
<1>1. x = q + 1 /\ y = r + 1 /\ b \in Vector(n)
  BY DEF Merged
<1>2. PICK f \in [p .. r -> Int] :
        /\ \A z, w \in p .. r : f[z] = f[w] => z = w
        /\ \A z \in p .. r : (f[z] \in p .. x - 1 \/ f[z] \in q + 1 .. y - 1) /\ b[z] = a[f[z]]
        /\ \A w \in Int : w \in p .. x - 1 \/ w \in q + 1 .. y - 1 => \E z \in p .. r : f[z] = w
  BY DEF Merged
<1>3. \A w \in Int : w \in p .. x - 1 \/ w \in q + 1 .. y - 1 <=> w \in p .. r
  BY <1>1
<1>4. \A z \in p .. r : f[z] \in p .. r /\ b[z] = a[f[z]]
  BY <1>2, <1>3
<1>5. \A w \in p .. r : \E z \in p .. r : f[z] = w
  BY <1>2, <1>3
<1> DEFINE g == [z \in 0 .. n - 1 |-> IF z \in p .. r THEN f[z] ELSE z]
<1>6. p .. r \subseteq 0 .. n - 1
  OBVIOUS
<1>7. /\ g \in [0 .. n - 1 -> 0 .. n - 1]
      /\ \A z \in p .. r : g[z] = f[z]
      /\ \A z \in 0 .. n - 1 : z \notin p .. r => g[z] = z
  BY <1>4, <1>6
<1> HIDE DEF g
<1>8. ASSUME NEW z \in 0 .. n - 1, NEW w \in 0 .. n - 1, g[z] = g[w] PROVE z = w
  <2>1. CASE z \in p .. r /\ w \in p .. r
    <3>1. f[z] = f[w]
      BY <1>7, <1>8, <2>1
    <3>2. QED
      BY <1>2, <2>1, <3>1
  <2>2. CASE z \in p .. r /\ w \notin p .. r
    <3>1. g[z] \in p .. r
      BY <1>4, <1>7, <2>2
    <3>2. g[w] \notin p .. r
      BY <1>7, <2>2
    <3>3. QED
      BY <1>8, <3>1, <3>2
  <2>3. CASE z \notin p .. r /\ w \in p .. r
    <3>1. g[w] \in p .. r
      BY <1>4, <1>7, <2>3
    <3>2. g[z] \notin p .. r
      BY <1>7, <2>3
    <3>3. QED
      BY <1>8, <3>1, <3>2
  <2>4. CASE z \notin p .. r /\ w \notin p .. r
    BY <1>7, <1>8, <2>4
  <2>5. QED
    BY <2>1, <2>2, <2>3, <2>4
<1>9. \A w \in 0 .. n - 1 : \E z \in 0 .. n - 1 : g[z] = w
  BY <1>5, <1>6, <1>7
<1>10. g \in Shuffles(n, p, r)
  BY <1>7, <1>8, <1>9 DEF Shuffles
<1>11. Moves(a, b, n, g)
  <2>1. \A z \in 0 .. n - 1 : z \notin p .. r => b[z] = a[z]
    BY DEF Merged
  <2>2. QED
    BY <1>4, <1>7, <2>1 DEF Moves
<1>12. Rearranged(a, b, n, p, r)
  BY <1>1, <1>10, <1>11 DEF Rearranged
<1>13. QED
  BY <1>12 DEF Merged, InOrder

(* The elements do not exceed the sentinel, or are below it.                 *)
Fits(a, p, r) == \A k \in p .. r : a[k] <= Sentinel
Strict(a, p, r) == \A k \in p .. r : a[k] < Sentinel

Arrays(n) == Vector(n) \cup {Arr!Undefined}

(* The state of Merge as long as it has only read its halves, and once it has
   taken the sentinel of the first for the last of the second: another turn
   would read beyond.                                                       *)
Merging(m, a, n, p, q, r, k) ==
  \/ m.array = Arr!Undefined /\ ~ Strict(a, p, r)
  \/ \E x \in p .. q + 1, y \in q + 1 .. r + 1 :
       /\ m.array # Arr!Undefined /\ Merged(a, m.array, n, p, q, r, k, x, y)
       /\ \/ m.i = x - p /\ m.j = y - q - 1
          \/ m.i = q - p + 2 /\ ~ Strict(a, p, r)

LEMMA UndefinedIsNone ==
  ASSUME NEW n \in Nat
  PROVE  Arr!Undefined \notin Vector(n)
<1>1. DOMAIN Arr!Undefined = {-1}
  BY DEF Arr!Undefined
<1>2. -1 \notin 0 .. n - 1
  OBVIOUS
<1>3. \A a \in Vector(n) : DOMAIN a = 0 .. n - 1
  BY DEF Vector
<1>4. QED
  BY <1>1, <1>2, <1>3

LEMMA MergedIsArray ==
  ASSUME NEW n \in Nat, NEW a, NEW b, NEW p, NEW q, NEW r, NEW k, NEW x, NEW y,
         Merged(a, b, n, p, q, r, k, x, y)
  PROVE  b # Arr!Undefined
<1>1. b \in Vector(n)
  BY DEF Merged
<1>2. QED
  BY <1>1, UndefinedIsNone

LEMMA HalfIs ==
  ASSUME NEW n \in Nat, NEW a \in Vector(n), NEW first \in 0 .. n, NEW len \in Nat, first + len <= n
  PROVE  /\ DOMAIN Arr!half(a, first, len) = 0 .. len
         /\ \A k \in 0 .. len : Arr!half(a, first, len)[k] \in Int
         /\ \A k \in 0 .. len - 1 : Arr!half(a, first, len)[k] = a[first + k]
         /\ Arr!half(a, first, len)[len] = Sentinel
<1>1. Sentinel \in Int
  BY ArraysAssumption
<1>2. \A k \in 0 .. len - 1 : first + k \in 0 .. n - 1
  OBVIOUS
<1>3. \A k \in 0 .. len - 1 : a[first + k] \in Int
  BY <1>2 DEF Vector
<1>4. \A k \in 0 .. len : k = len \/ (k \in 0 .. len - 1 /\ k < len)
  OBVIOUS
<1>5. len \in 0 .. len /\ ~ (len < len)
  OBVIOUS
<1>6. /\ DOMAIN Arr!half(a, first, len) = 0 .. len
      /\ \A k \in 0 .. len : Arr!half(a, first, len)[k] = IF k < len THEN a[first + k] ELSE Sentinel
  BY DEF Arr!half
<1> DEFINE h == Arr!half(a, first, len)
<1> HIDE DEF h
<1>7. \A k \in 0 .. len : h[k] = IF k < len THEN a[first + k] ELSE Sentinel
  BY <1>6 DEF h
<1>8. \A k \in 0 .. len - 1 : h[k] = a[first + k]
  BY <1>4, <1>7
<1>9. h[len] = Sentinel
  BY <1>5, <1>7
<1>10. \A k \in 0 .. len : h[k] \in Int
  BY <1>1, <1>3, <1>4, <1>8, <1>9
<1>11. QED
  BY <1>6, <1>8, <1>9, <1>10 DEF h

LEMMA TakeFirst ==
  ASSUME NEW n \in Nat, NEW a \in Vector(n), NEW p \in 0 .. n - 1, NEW r \in 0 .. n - 1, NEW q \in p .. r - 1,
         NEW k \in p .. r, NEW b, NEW x, NEW y, Merged(a, b, n, p, q, r, k - 1, x, y), x <= q,
         \A w \in p .. r : w \in x + 1 .. q \/ w \in y .. r => a[x] <= a[w]
  PROVE  Merged(a, [b EXCEPT ![k] = a[x]], n, p, q, r, k, x + 1, y)
<1>1. PICK from, x2, y2 : from = x /\ x2 = x + 1 /\ y2 = y
  OBVIOUS
<1>2. \/ from = x /\ x <= q /\ x2 = x + 1 /\ y2 = y
      \/ from = y /\ y <= r /\ x2 = x /\ y2 = y + 1
  BY <1>1
<1>3. \A w \in p .. r : w \in x2 .. q \/ w \in y2 .. r => a[from] <= a[w]
  BY <1>1
<1>4. Merged(a, [b EXCEPT ![k] = a[from]], n, p, q, r, k, x2, y2)
  BY <1>2, <1>3, MergeTake
<1>5. QED
  BY <1>1, <1>4

LEMMA TakeSecond ==
  ASSUME NEW n \in Nat, NEW a \in Vector(n), NEW p \in 0 .. n - 1, NEW r \in 0 .. n - 1, NEW q \in p .. r - 1,
         NEW k \in p .. r, NEW b, NEW x, NEW y, Merged(a, b, n, p, q, r, k - 1, x, y), y <= r,
         \A w \in p .. r : w \in x .. q \/ w \in y + 1 .. r => a[y] <= a[w]
  PROVE  Merged(a, [b EXCEPT ![k] = a[y]], n, p, q, r, k, x, y + 1)
<1>1. PICK from, x2, y2 : from = y /\ x2 = x /\ y2 = y + 1
  OBVIOUS
<1>2. \/ from = x /\ x <= q /\ x2 = x + 1 /\ y2 = y
      \/ from = y /\ y <= r /\ x2 = x /\ y2 = y + 1
  BY <1>1
<1>3. \A w \in p .. r : w \in x2 .. q \/ w \in y2 .. r => a[from] <= a[w]
  BY <1>1
<1>4. Merged(a, [b EXCEPT ![k] = a[from]], n, p, q, r, k, x2, y2)
  BY <1>2, <1>3, MergeTake
<1>5. QED
  BY <1>1, <1>4

LEMMA MergeTurn ==
  ASSUME NEW n \in Nat, NEW a \in Vector(n), NEW p \in 0 .. n - 1, NEW r \in 0 .. n - 1, NEW q \in p .. r - 1,
         Fits(a, p, r), InOrder(a, p, q), InOrder(a, q + 1, r),
         NEW k \in p .. r, NEW m, Merging(m, a, n, p, q, r, k - 1)
  PROVE  Merging(Arr!mergeNext(m, k, Arr!half(a, p, q - p + 1), Arr!half(a, q + 1, r - q)), a, n, p, q, r, k)
<1> DEFINE L == Arr!half(a, p, q - p + 1)
           R == Arr!half(a, q + 1, r - q)
           next == Arr!mergeNext(m, k, L, R)
<1>1. /\ DOMAIN L = 0 .. q - p + 1 /\ DOMAIN R = 0 .. r - q
      /\ \A z \in 0 .. q - p : L[z] = a[p + z]
      /\ L[q - p + 1] = Sentinel
      /\ \A z \in 0 .. r - q - 1 : R[z] = a[q + 1 + z]
      /\ R[r - q] = Sentinel
  <2>1. /\ p \in 0 .. n /\ q - p + 1 \in Nat /\ p + (q - p + 1) <= n /\ q - p + 1 - 1 = q - p
        /\ q + 1 \in 0 .. n /\ r - q \in Nat /\ q + 1 + (r - q) <= n
    OBVIOUS
  <2>2. QED
    BY <2>1, HalfIs
<1> HIDE DEF L, R
<1>2. Sentinel \in Int /\ \A z \in 0 .. n - 1 : a[z] \in Int
  BY ArraysAssumption DEF Vector
<1>3. CASE m.array = Arr!Undefined
  <2>1. next = m
    BY <1>3 DEF Arr!mergeNext
  <2>2. ~ Strict(a, p, r)
    BY <1>3 DEF Merging
  <2>3. QED
    BY <1>3, <2>1, <2>2 DEF Merging, L, R
<1>4. CASE m.array # Arr!Undefined
  <2>1. PICK x \in p .. q + 1, y \in q + 1 .. r + 1 :
          /\ Merged(a, m.array, n, p, q, r, k - 1, x, y)
          /\ \/ m.i = x - p /\ m.j = y - q - 1
             \/ m.i = q - p + 2 /\ ~ Strict(a, p, r)
    BY <1>4 DEF Merging
  <2> DEFINE b == m.array
  <2>2. b \in Vector(n) /\ (x - p) + (y - q - 1) = k - 1 - p + 1
    BY <2>1 DEF Merged
  <2>3. CASE m.i = q - p + 2 /\ ~ Strict(a, p, r)
    <3>1. m.i \notin DOMAIN L
      BY <1>1, <2>3
    <3>2. next = [array |-> Arr!Undefined, i |-> m.i, j |-> m.j]
      BY <1>4, <3>1 DEF Arr!mergeNext
    <3>3. QED
      BY <2>3, <3>2 DEF Merging, L, R
  <2>4. CASE m.i = x - p /\ m.j = y - q - 1
    <3>1. m.i \in DOMAIN L /\ m.j \in DOMAIN R
      <4>1. x - p \in 0 .. q - p + 1 /\ y - q - 1 \in 0 .. r - q
        OBVIOUS
      <4>2. QED
        BY <1>1, <2>4, <4>1
    <3>2. next = IF L[m.i] <= R[m.j]
                 THEN [array |-> [b EXCEPT ![k] = L[m.i]], i |-> m.i + 1, j |-> m.j]
                 ELSE [array |-> [b EXCEPT ![k] = R[m.j]], i |-> m.i, j |-> m.j + 1]
      BY <1>4, <3>1 DEF Arr!mergeNext
    <3>3. x <= q => L[m.i] = a[x] /\ x \in p .. r /\ a[x] \in Int /\ a[x] <= Sentinel
      <4>1. x <= q => x - p \in 0 .. q - p /\ p + (x - p) = x /\ x \in p .. r /\ x \in 0 .. n - 1
        OBVIOUS
      <4>2. QED
        BY <1>1, <1>2, <2>4, <4>1 DEF Fits
    <3>4. ~ (x <= q) => L[m.i] = Sentinel /\ x = q + 1
      <4>1. ~ (x <= q) => x - p = q - p + 1 /\ x = q + 1
        OBVIOUS
      <4>2. QED
        BY <1>1, <2>4, <4>1
    <3>5. y <= r => R[m.j] = a[y] /\ y \in p .. r /\ a[y] \in Int /\ a[y] <= Sentinel
      <4>1. y <= r => y - q - 1 \in 0 .. r - q - 1 /\ q + 1 + (y - q - 1) = y /\ y \in p .. r /\ y \in 0 .. n - 1
        OBVIOUS
      <4>2. QED
        BY <1>1, <1>2, <2>4, <4>1 DEF Fits
    <3>6. ~ (y <= r) => R[m.j] = Sentinel /\ y = r + 1
      <4>1. ~ (y <= r) => y - q - 1 = r - q /\ y = r + 1
        OBVIOUS
      <4>2. QED
        BY <1>1, <2>4, <4>1
    <3>7. x <= q \/ y <= r
      BY <2>2
    <3>8. \A w \in p .. r : w \in x .. q => a[x] <= a[w]
      <4>1. \A w \in x .. q : x \in p .. q /\ w \in p .. q /\ x <= w
        OBVIOUS
      <4>2. QED
        BY <4>1 DEF InOrder
    <3>9. \A w \in p .. r : w \in y .. r => a[y] <= a[w]
      <4>1. \A w \in y .. r : y \in q + 1 .. r /\ w \in q + 1 .. r /\ y <= w
        OBVIOUS
      <4>2. QED
        BY <4>1 DEF InOrder
    <3>10. \A w \in p .. r : a[w] \in Int
      BY <1>2
    <3>11. CASE x <= q /\ L[m.i] <= R[m.j]
      <4>1. \A w \in p .. r : w \in x + 1 .. q => a[x] <= a[w]
        BY <3>8
      <4>2. ASSUME NEW w \in p .. r, w \in y .. r PROVE a[x] <= a[w]
        <5>1. y <= r
          BY <4>2
        <5>2. a[x] <= a[y]
          BY <3>3, <3>5, <3>11, <5>1
        <5>3. a[y] <= a[w]
          BY <3>9, <4>2
        <5>4. QED
          BY <3>3, <3>5, <3>10, <3>11, <5>1, <5>2, <5>3
      <4>3. Merged(a, [b EXCEPT ![k] = a[x]], n, p, q, r, k, x + 1, y)
        <5>1. \A w \in p .. r : w \in x + 1 .. q \/ w \in y .. r => a[x] <= a[w]
          BY <4>1, <4>2
        <5>2. Merged(a, b, n, p, q, r, k - 1, x, y)
          BY <2>1
        <5> HIDE DEF b
        <5>3. QED
          BY <3>11, <5>1, <5>2, TakeFirst
      <4>4. next = [array |-> [b EXCEPT ![k] = a[x]], i |-> m.i + 1, j |-> m.j]
        BY <3>2, <3>3, <3>11
      <4>5. m.i + 1 = x + 1 - p /\ x + 1 \in p .. q + 1
        BY <2>4, <3>11
      <4>6. next.array # Arr!Undefined
        <5>1. next.array = [b EXCEPT ![k] = a[x]]
          BY <4>4
        <5> HIDE DEF next, b
        <5>2. QED
          BY <4>3, <5>1, MergedIsArray
      <4>7. QED
        BY <2>4, <4>3, <4>4, <4>5, <4>6 DEF Merging, L, R
    <3>12. CASE ~ (x <= q) /\ L[m.i] <= R[m.j]
      <4>1. y <= r
        BY <3>7, <3>12
      <4>2. a[y] = Sentinel /\ R[m.j] = a[y] /\ L[m.i] = a[y]
        BY <1>2, <3>4, <3>5, <3>12, <4>1
      <4>3. ~ Strict(a, p, r)
        <5>1. ~ (a[y] < Sentinel) /\ y \in p .. r
          BY <1>2, <3>5, <4>1, <4>2
        <5>2. QED
          BY <5>1 DEF Strict
      <4>4. Merged(a, [b EXCEPT ![k] = a[y]], n, p, q, r, k, x, y + 1)
        <5>1. \A w \in p .. r : w \in x .. q \/ w \in y + 1 .. r => a[y] <= a[w]
          BY <3>9, <3>12
        <5>2. Merged(a, b, n, p, q, r, k - 1, x, y)
          BY <2>1
        <5> HIDE DEF b
        <5>3. QED
          BY <4>1, <5>1, <5>2, TakeSecond
      <4>5. next = [array |-> [b EXCEPT ![k] = a[y]], i |-> m.i + 1, j |-> m.j]
        BY <3>2, <3>12, <4>2
      <4>6. m.i + 1 = q - p + 2 /\ y + 1 \in q + 1 .. r + 1
        BY <2>4, <3>4, <3>12, <4>1
      <4>7. next.array # Arr!Undefined
        <5>1. next.array = [b EXCEPT ![k] = a[y]]
          BY <4>5
        <5> HIDE DEF next, b
        <5>2. QED
          BY <4>4, <5>1, MergedIsArray
      <4>8. QED
        BY <4>3, <4>4, <4>5, <4>6, <4>7 DEF Merging, L, R
    <3>13. CASE ~ (L[m.i] <= R[m.j])
      <4>1. y <= r
        BY <1>2, <3>3, <3>4, <3>6, <3>13
      <4>2. ASSUME NEW w \in p .. r, w \in x .. q PROVE a[y] <= a[w]
        <5>1. x <= q
          BY <4>2
        <5>2. a[y] <= a[x]
          BY <3>3, <3>5, <3>13, <4>1, <5>1
        <5>3. a[x] <= a[w]
          BY <3>8, <4>2
        <5>4. QED
          BY <3>3, <3>5, <3>10, <4>1, <5>1, <5>2, <5>3
      <4>3. Merged(a, [b EXCEPT ![k] = a[y]], n, p, q, r, k, x, y + 1)
        <5>1. \A w \in p .. r : w \in x .. q \/ w \in y + 1 .. r => a[y] <= a[w]
          BY <3>9, <4>2
        <5>2. Merged(a, b, n, p, q, r, k - 1, x, y)
          BY <2>1
        <5> HIDE DEF b
        <5>3. QED
          BY <4>1, <5>1, <5>2, TakeSecond
      <4>4. next = [array |-> [b EXCEPT ![k] = a[y]], i |-> m.i, j |-> m.j + 1]
        BY <3>2, <3>5, <3>13, <4>1
      <4>5. m.j + 1 = y + 1 - q - 1 /\ y + 1 \in q + 1 .. r + 1
        BY <2>4, <4>1
      <4>6. next.array # Arr!Undefined
        <5>1. next.array = [b EXCEPT ![k] = a[y]]
          BY <4>4
        <5> HIDE DEF next, b
        <5>2. QED
          BY <4>3, <5>1, MergedIsArray
      <4>7. QED
        BY <2>4, <4>3, <4>4, <4>5, <4>6 DEF Merging, L, R
    <3>14. QED
      BY <3>11, <3>12, <3>13
  <2>5. QED
    BY <2>1, <2>3, <2>4
<1>5. QED
  BY <1>3, <1>4

LEMMA MergeNextTyped ==
  ASSUME NEW n \in Nat, NEW L, NEW R, DOMAIN L \subseteq Nat, DOMAIN R \subseteq Nat,
         \A z \in DOMAIN L : L[z] \in Int, \A z \in DOMAIN R : R[z] \in Int,
         NEW k \in 0 .. n - 1, NEW m \in [array : Arrays(n), i : Nat, j : Nat]
  PROVE  Arr!mergeNext(m, k, L, R) \in [array : Arrays(n), i : Nat, j : Nat]
<1>1. m.array \in Arrays(n) /\ m.i \in Nat /\ m.j \in Nat
  OBVIOUS
<1>2. CASE m.array = Arr!Undefined
  BY <1>2 DEF Arr!mergeNext
<1>3. CASE m.array # Arr!Undefined /\ (m.i \notin DOMAIN L \/ m.j \notin DOMAIN R)
  <2>1. Arr!mergeNext(m, k, L, R) = [array |-> Arr!Undefined, i |-> m.i, j |-> m.j]
    BY <1>3 DEF Arr!mergeNext
  <2>2. QED
    BY <1>1, <2>1 DEF Arrays
<1>4. CASE m.array # Arr!Undefined /\ m.i \in DOMAIN L /\ m.j \in DOMAIN R
  <2>1. m.array \in Vector(n)
    BY <1>1, <1>4 DEF Arrays
  <2>2. \A v \in Int : [m.array EXCEPT ![k] = v] \in Vector(n)
    BY <2>1 DEF Vector
  <2>3. L[m.i] \in Int /\ R[m.j] \in Int
    BY <1>4
  <2>4. [m.array EXCEPT ![k] = L[m.i]] \in Arrays(n) /\ [m.array EXCEPT ![k] = R[m.j]] \in Arrays(n)
    BY <2>2, <2>3 DEF Arrays
  <2>5. \/ Arr!mergeNext(m, k, L, R) = [array |-> [m.array EXCEPT ![k] = L[m.i]], i |-> m.i + 1, j |-> m.j]
        \/ Arr!mergeNext(m, k, L, R) = [array |-> [m.array EXCEPT ![k] = R[m.j]], i |-> m.i, j |-> m.j + 1]
    BY <1>4 DEF Arr!mergeNext
  <2>6. m.i + 1 \in Nat /\ m.j + 1 \in Nat
    BY <1>1
  <2> DEFINE b1 == [m.array EXCEPT ![k] = L[m.i]]
             b2 == [m.array EXCEPT ![k] = R[m.j]]
  <2> HIDE DEF b1, b2
  <2>7. b1 \in Arrays(n) /\ b2 \in Arrays(n)
    BY <2>4 DEF b1, b2
  <2>8. \/ Arr!mergeNext(m, k, L, R) = [array |-> b1, i |-> m.i + 1, j |-> m.j]
        \/ Arr!mergeNext(m, k, L, R) = [array |-> b2, i |-> m.i, j |-> m.j + 1]
    BY <2>5 DEF b1, b2
  <2>9. QED
    BY <1>1, <2>6, <2>7, <2>8
<1>5. QED
  BY <1>2, <1>3, <1>4

(* The turns of a call of Merge.                                             *)
LEMMA MergeRun ==
  ASSUME NEW n \in Nat, NEW a \in Vector(n), NEW p \in 0 .. n - 1, NEW r \in 0 .. n - 1, NEW q \in p .. r - 1
  PROVE  \E c : /\ c[p - 1] = [array |-> a, i |-> 0, j |-> 0]
                /\ \A k \in p .. r : c[k] = Arr!mergeNext(c[k - 1], k, Arr!half(a, p, q - p + 1), Arr!half(a, q + 1, r - q))
                /\ c[r].array \in Arrays(n)
                /\ Arr!Merge(a, p, q, r) = c[r].array
<1> DEFINE L == Arr!half(a, p, q - p + 1)
           R == Arr!half(a, q + 1, r - q)
           D == [array : Arrays(n), i : Nat, j : Nat]
           start == [array |-> a, i |-> 0, j |-> 0]
           turn(m, k) == Arr!mergeNext(m, k, L, R)
           F == [k \in p .. r |-> [m \in D |-> turn(m, k)]]
           G == [k \in p - 1 .. r |-> D]
           loop(c) == [k \in p - 1 .. r |-> IF k = p - 1 THEN start ELSE turn(c[k - 1], k)]
           c0 == CHOOSE c : c = loop(c)
<1>1. Arr!Merge(a, p, q, r) = c0[r].array
  BY DEF Arr!Merge, Arr!mergeHalves
<1>2. /\ DOMAIN L \subseteq Nat /\ DOMAIN R \subseteq Nat
      /\ \A z \in DOMAIN L : L[z] \in Int
      /\ \A z \in DOMAIN R : R[z] \in Int
  <2>1. /\ p \in 0 .. n /\ q - p + 1 \in Nat /\ p + (q - p + 1) <= n
        /\ q + 1 \in 0 .. n /\ r - q \in Nat /\ q + 1 + (r - q) <= n
        /\ 0 .. q - p + 1 \subseteq Nat /\ 0 .. r - q \subseteq Nat
    OBVIOUS
  <2>2. QED
    BY <2>1, HalfIs
<1> HIDE DEF L, R
<1>3. /\ p - 1 \in Int /\ r \in Int /\ p - 1 <= r /\ p - 1 \in p - 1 .. r /\ r \in p - 1 .. r /\ p - 1 + 1 = p
      /\ \A k \in p .. r : k \in p - 1 .. r /\ k - 1 \in p - 1 .. r /\ k # p - 1 /\ k \in 0 .. n - 1
  OBVIOUS
<1>4. start \in D
  BY DEF Arrays
<1>5. \A k \in p .. r, m \in D : turn(m, k) \in D
  BY <1>2, <1>3, MergeNextTyped
<1>6. \A k \in p .. r, m \in D : F[k][m] = turn(m, k)
  OBVIOUS
<1>7. \A k \in p - 1 .. r : G[k] = D
  OBVIOUS
<1> HIDE DEF D, start, turn, G
<1>8. PICK u : Upwards(u, p - 1, r, start, F) /\ \A k \in p - 1 .. r : u[k] \in G[k]
  <2>1. \A k \in p - 1 + 1 .. r : \A m \in G[k - 1] : F[k][m] \in G[k]
    <3>1. \A k \in p .. r : \A m \in G[k - 1] : F[k][m] \in G[k]
      <4> HIDE DEF F
      <4>1. QED
        BY <1>3, <1>5, <1>6, <1>7
    <3>2. QED
      BY <1>3, <3>1
  <2>2. start \in G[p - 1]
    BY <1>3, <1>4, <1>7
  <2> HIDE DEF F
  <2>3. QED
    BY ONLY <1>3, <2>1, <2>2, UpwardsRun
<1>9. u = loop(u)
  <2>1. u = [k \in p - 1 .. r |-> IF k = p - 1 THEN start ELSE F[k][u[k - 1]]]
    <3> HIDE DEF F
    <3>1. QED
      BY <1>8 DEF Upwards
  <2>2. \A k \in p .. r : F[k][u[k - 1]] = turn(u[k - 1], k)
    <3> HIDE DEF F
    <3>1. QED
      BY <1>3, <1>6, <1>7, <1>8
  <2>3. \A k \in p - 1 .. r : k = p - 1 \/ k \in p .. r
    OBVIOUS
  <2> HIDE DEF F
  <2>4. QED
    BY <2>1, <2>2, <2>3
<1>10. c0 = loop(c0)
  <2> HIDE DEF loop
  <2>1. QED
    BY <1>9
<1>11. \A k \in p - 1 .. r : c0[k] = IF k = p - 1 THEN start ELSE turn(c0[k - 1], k)
  <2> HIDE DEF c0
  <2>1. QED
    BY <1>10
<1> HIDE DEF c0
<1>12. c0[p - 1] = start /\ \A k \in p .. r : c0[k] = turn(c0[k - 1], k)
  BY <1>3, <1>11
<1>13. c0[r] \in D
  <2>1. c0[p - 1] \in G[p - 1]
    BY <1>3, <1>4, <1>7, <1>12
  <2>2. \A k \in p .. r : c0[k - 1] \in G[k - 1] => c0[k] \in G[k]
    BY <1>3, <1>5, <1>7, <1>12
  <2>3. \A k \in p - 1 + 1 .. r : c0[k - 1] \in G[k - 1] => c0[k] \in G[k]
    BY <1>3, <2>2
  <2>4. \A k \in p - 1 .. r : c0[k] \in G[k]
    BY ONLY <1>3, <2>1, <2>3, StaysUpwards
  <2>5. QED
    BY <1>3, <1>7, <2>4
<1>14. c0[r].array \in Arrays(n)
  BY <1>13 DEF D
<1>15. QED
  BY <1>1, <1>12, <1>14 DEF start, turn, L, R

LEMMA MergeMerges ==
  ASSUME NEW n \in Nat, NEW a \in Vector(n), NEW p \in 0 .. n - 1, NEW r \in 0 .. n - 1, NEW q \in p .. r - 1
  PROVE  LET b == Arr!Merge(a, p, q, r)
         IN /\ b \in Arrays(n)
            /\ Fits(a, p, r) /\ InOrder(a, p, q) /\ InOrder(a, q + 1, r) =>
                 \/ b = Arr!Undefined /\ ~ Strict(a, p, r)
                 \/ Rearranged(a, b, n, p, r) /\ InOrder(b, p, r)
<1> DEFINE b == Arr!Merge(a, p, q, r)
<1>1. PICK c : /\ c[p - 1] = [array |-> a, i |-> 0, j |-> 0]
               /\ \A k \in p .. r : c[k] = Arr!mergeNext(c[k - 1], k, Arr!half(a, p, q - p + 1), Arr!half(a, q + 1, r - q))
               /\ c[r].array \in Arrays(n)
               /\ Arr!Merge(a, p, q, r) = c[r].array
  BY MergeRun
<1>2. ASSUME Fits(a, p, r), InOrder(a, p, q), InOrder(a, q + 1, r)
      PROVE  (b = Arr!Undefined /\ ~ Strict(a, p, r)) \/ (Rearranged(a, b, n, p, r) /\ InOrder(b, p, r))
  <2> DEFINE e == [k \in p - 1 .. r |-> Merging(c[k], a, n, p, q, r, k)]
             G == [k \in p - 1 .. r |-> {TRUE}]
  <2>1. /\ p - 1 \in Int /\ r \in Int /\ p - 1 \in p - 1 .. r /\ r \in p - 1 .. r /\ p - 1 + 1 = p
        /\ \A k \in p .. r : k \in p - 1 .. r /\ k - 1 \in p - 1 .. r
    OBVIOUS
  <2>2. Merging(c[p - 1], a, n, p, q, r, p - 1)
    <3>1. Merged(a, a, n, p, q, r, p - 1, p, q + 1)
      <4>1. p \in p .. q + 1 /\ q + 1 \in q + 1 .. r + 1 /\ (p - p) + (q + 1 - q - 1) = p - 1 - p + 1
        OBVIOUS
      <4>2. p .. p - 1 = {} /\ q + 1 .. q + 1 - 1 = {}
        OBVIOUS
      <4> DEFINE f == [z \in p .. p - 1 |-> 0]
      <4>3. /\ f \in [p .. p - 1 -> Int]
            /\ \A z, w \in p .. p - 1 : f[z] = f[w] => z = w
            /\ \A z \in p .. p - 1 : (f[z] \in p .. p - 1 \/ f[z] \in q + 1 .. q + 1 - 1) /\ a[z] = a[f[z]]
            /\ \A w \in Int : w \in p .. p - 1 \/ w \in q + 1 .. q + 1 - 1 => \E z \in p .. p - 1 : f[z] = w
        BY <4>2
      <4>4. /\ \A z, w \in p .. p - 1 : z <= w => a[z] <= a[w]
            /\ \A z \in p .. p - 1 : \A w \in p .. r : w \in p .. q \/ w \in q + 1 .. r => a[z] <= a[w]
        BY <4>2
      <4> HIDE DEF f
      <4>5. QED
        BY <4>1, <4>3, <4>4 DEF Merged
    <3>2. a # Arr!Undefined
      BY UndefinedIsNone
    <3>3. c[p - 1].array = a /\ c[p - 1].i = p - p /\ c[p - 1].j = q + 1 - q - 1
      BY <1>1
    <3>4. p \in p .. q + 1 /\ q + 1 \in q + 1 .. r + 1
      OBVIOUS
    <3>5. QED
      BY <3>1, <3>2, <3>3, <3>4 DEF Merging
  <2>3. ASSUME NEW k \in p .. r, Merging(c[k - 1], a, n, p, q, r, k - 1) PROVE Merging(c[k], a, n, p, q, r, k)
    <3>1. c[k] = Arr!mergeNext(c[k - 1], k, Arr!half(a, p, q - p + 1), Arr!half(a, q + 1, r - q))
      BY <1>1
    <3>2. PICK m : m = c[k - 1]
      OBVIOUS
    <3>3. Merging(m, a, n, p, q, r, k - 1)
      BY <2>3, <3>2
    <3>4. Merging(Arr!mergeNext(m, k, Arr!half(a, p, q - p + 1), Arr!half(a, q + 1, r - q)), a, n, p, q, r, k)
      BY <1>2, <3>3, MergeTurn
    <3>5. QED
      BY <3>1, <3>2, <3>4
  <2>4. Merging(c[r], a, n, p, q, r, r)
    <3>1. \A k \in p - 1 .. r : e[k] \in G[k] <=> Merging(c[k], a, n, p, q, r, k)
      BY DEF Merging
    <3> HIDE DEF e, G
    <3>2. e[p - 1] \in G[p - 1]
      BY <2>1, <2>2, <3>1
    <3>3. \A k \in p .. r : e[k - 1] \in G[k - 1] => e[k] \in G[k]
      BY <2>1, <2>3, <3>1
    <3>4. \A k \in p - 1 + 1 .. r : e[k - 1] \in G[k - 1] => e[k] \in G[k]
      BY <2>1, <3>3
    <3>5. \A k \in p - 1 .. r : e[k] \in G[k]
      BY ONLY <2>1, <3>2, <3>4, StaysUpwards
    <3>6. QED
      BY <2>1, <3>1, <3>5
  <2>5. CASE c[r].array = Arr!Undefined /\ ~ Strict(a, p, r)
    BY <1>1, <2>5
  <2>6. CASE \E x \in p .. q + 1, y \in q + 1 .. r + 1 : Merged(a, c[r].array, n, p, q, r, r, x, y)
    <3>1. PICK x \in p .. q + 1, y \in q + 1 .. r + 1 : Merged(a, b, n, p, q, r, r, x, y)
      BY <1>1, <2>6
    <3> HIDE DEF b
    <3>2. QED
      BY <3>1, MergedAll
  <2>7. QED
    BY <2>4, <2>5, <2>6 DEF Merging
<1>3. QED
  BY <1>1, <1>2

------------------------------------------------------------------------------
(* Merge_Sort. One call on the others.                                       *)
Calls(n) == Arrays(n) \X (0 .. n) \X (-1 .. n - 1)

SortCall(c, s) ==
  LET q == (s[2] + s[3]) \div 2
      b == c[<<c[<<s[1], s[2], q>>], q + 1, s[3]>>]
  IN IF s[1] = Arr!Undefined \/ s[2] >= s[3] THEN s[1]
     ELSE IF b = Arr!Undefined THEN b ELSE Arr!Merge(b, s[2], q, s[3])

(* The calls on parts of at most m + 1 elements.                             *)
CallsTo(n, m) == {s \in Calls(n) : s[3] - s[2] <= m}

SortsTo(c, n, m) ==
  /\ c = [s \in CallsTo(n, m) |-> SortCall(c, s)]
  /\ \A s \in CallsTo(n, m) : c[s] \in Arrays(n)

LEMMA CallParts ==
  ASSUME NEW n \in Nat, NEW s \in Calls(n), s[1] # Arr!Undefined, ~ (s[2] >= s[3]),
         NEW q, q = (s[2] + s[3]) \div 2
  PROVE  /\ s[1] \in Vector(n) /\ s[2] \in 0 .. n - 1 /\ s[3] \in 0 .. n - 1 /\ q \in s[2] .. s[3] - 1
         /\ \A b \in Arrays(n) : <<b, s[2], q>> \in Calls(n) /\ <<b, q + 1, s[3]>> \in Calls(n)
<1>1. s[1] \in Vector(n) /\ s[2] \in 0 .. n /\ s[3] \in -1 .. n - 1
  BY DEF Calls, Arrays
<1>2. s[2] \in 0 .. n - 1 /\ s[3] \in 0 .. n - 1 /\ s[2] < s[3]
  BY <1>1
<1>3. q \in s[2] .. s[3] - 1
  BY <1>2
<1>4. q \in -1 .. n - 1 /\ q + 1 \in 0 .. n
  BY <1>2, <1>3
<1>5. QED
  BY <1>1, <1>2, <1>3, <1>4 DEF Calls

LEMMA CallReads ==
  ASSUME NEW n \in Nat, NEW m \in Nat, NEW s \in CallsTo(n, m + 1), NEW c, NEW d,
         \A x \in CallsTo(n, m) : c[x] \in Arrays(n) /\ d[x] = c[x]
  PROVE  SortCall(d, s) = SortCall(c, s)
<1>1. s \in Calls(n) /\ s[3] - s[2] <= m + 1
  BY DEF CallsTo
<1>2. CASE s[1] = Arr!Undefined \/ s[2] >= s[3]
  BY <1>2 DEF SortCall
<1>3. CASE s[1] # Arr!Undefined /\ ~ (s[2] >= s[3])
  <2> DEFINE q == (s[2] + s[3]) \div 2
  <2>1. /\ s[1] \in Vector(n) /\ s[2] \in 0 .. n - 1 /\ s[3] \in 0 .. n - 1 /\ q \in s[2] .. s[3] - 1
        /\ \A b \in Arrays(n) : <<b, s[2], q>> \in Calls(n) /\ <<b, q + 1, s[3]>> \in Calls(n)
    BY <1>1, <1>3, CallParts
  <2> HIDE DEF q
  <2>2. q - s[2] <= m /\ s[3] - (q + 1) <= m
    BY <1>1, <2>1
  <2>3. \A b \in Arrays(n) : <<b, s[2], q>> \in CallsTo(n, m) /\ <<b, q + 1, s[3]>> \in CallsTo(n, m)
    BY <2>1, <2>2 DEF CallsTo
  <2>4. d[<<s[1], s[2], q>>] = c[<<s[1], s[2], q>>] /\ c[<<s[1], s[2], q>>] \in Arrays(n)
    BY <2>1, <2>3 DEF Arrays
  <2>5. d[<<c[<<s[1], s[2], q>>], q + 1, s[3]>>] = c[<<c[<<s[1], s[2], q>>], q + 1, s[3]>>]
    BY <2>3, <2>4
  <2>6. QED
    BY <2>4, <2>5 DEF SortCall, q
<1>4. QED
  BY <1>2, <1>3

LEMMA CallTyped ==
  ASSUME NEW n \in Nat, NEW m \in Nat, NEW s \in CallsTo(n, m + 1), NEW c,
         \A x \in CallsTo(n, m) : c[x] \in Arrays(n)
  PROVE  SortCall(c, s) \in Arrays(n)
<1>1. s \in Calls(n) /\ s[3] - s[2] <= m + 1
  BY DEF CallsTo
<1>2. CASE s[1] = Arr!Undefined \/ s[2] >= s[3]
  BY <1>1, <1>2 DEF SortCall, Calls
<1>3. CASE s[1] # Arr!Undefined /\ ~ (s[2] >= s[3])
  <2> DEFINE q == (s[2] + s[3]) \div 2
             b == c[<<c[<<s[1], s[2], q>>], q + 1, s[3]>>]
  <2>1. /\ s[1] \in Vector(n) /\ s[2] \in 0 .. n - 1 /\ s[3] \in 0 .. n - 1 /\ q \in s[2] .. s[3] - 1
        /\ \A v \in Arrays(n) : <<v, s[2], q>> \in Calls(n) /\ <<v, q + 1, s[3]>> \in Calls(n)
    BY <1>1, <1>3, CallParts
  <2>2. SortCall(c, s) = IF b = Arr!Undefined THEN b ELSE Arr!Merge(b, s[2], q, s[3])
    BY <1>3 DEF SortCall
  <2> HIDE DEF q
  <2>3. q - s[2] <= m /\ s[3] - (q + 1) <= m
    BY <1>1, <2>1
  <2>4. \A v \in Arrays(n) : <<v, s[2], q>> \in CallsTo(n, m) /\ <<v, q + 1, s[3]>> \in CallsTo(n, m)
    BY <2>1, <2>3 DEF CallsTo
  <2>5. c[<<s[1], s[2], q>>] \in Arrays(n)
    BY <2>1, <2>4 DEF Arrays
  <2>6. b \in Arrays(n)
    BY <2>4, <2>5
  <2> HIDE DEF b
  <2>7. CASE b = Arr!Undefined
    BY <2>2, <2>6, <2>7
  <2>8. CASE b # Arr!Undefined
    <3>1. b \in Vector(n)
      BY <2>6, <2>8 DEF Arrays
    <3>2. Arr!Merge(b, s[2], q, s[3]) \in Arrays(n)
      BY <2>1, <3>1, MergeMerges
    <3>3. QED
      BY <2>2, <2>8, <3>2
  <2>9. QED
    BY <2>7, <2>8
<1>4. QED
  BY <1>2, <1>3

LEMMA SortsLater ==
  ASSUME NEW n \in Nat, NEW m \in Nat, NEW c, SortsTo(c, n, m)
  PROVE  \E d : SortsTo(d, n, m + 1)
<1> DEFINE S == CallsTo(n, m)
           T == CallsTo(n, m + 1)
           d == [s \in T |-> IF s \in S THEN c[s] ELSE SortCall(c, s)]
           e == [s \in T |-> SortCall(d, s)]
<1>1. S \subseteq T
  <2>1. \A s \in Calls(n) : s[3] - s[2] <= m => s[3] - s[2] <= m + 1
    <3>1. \A s \in Calls(n) : s[3] - s[2] \in Int
      BY DEF Calls
    <3>2. \A v \in Int : v <= m => v <= m + 1
      OBVIOUS
    <3>3. QED
      BY <3>1, <3>2
  <2>2. QED
    BY <2>1 DEF CallsTo
<1>2. \A s \in S : c[s] = SortCall(c, s) /\ c[s] \in Arrays(n)
  <2>1. c = [s \in S |-> SortCall(c, s)] /\ \A s \in S : c[s] \in Arrays(n)
    BY DEF SortsTo
  <2> HIDE DEF S
  <2>2. QED
    BY <2>1
<1> HIDE DEF S, T
<1>3. \A s \in S : d[s] = c[s]
  BY <1>1
<1>4. \A s \in T : SortCall(d, s) = SortCall(c, s)
  <2> HIDE DEF d
  <2>1. QED
    BY <1>2, <1>3, CallReads DEF S, T
<1>5. \A s \in T : SortCall(c, s) \in Arrays(n)
  BY <1>2, CallTyped DEF S, T
<1>6. \A s \in T : d[s] = SortCall(c, s)
  BY <1>2
<1>7. d = e
  <2>1. \A s \in T : d[s] = e[s]
    <3> HIDE DEF d
    <3>1. QED
      BY <1>4, <1>6
  <2>2. d = [s \in T |-> d[s]] /\ e = [s \in T |-> e[s]]
    OBVIOUS
  <2> HIDE DEF d, e
  <2>3. QED
    BY <2>1, <2>2
<1>8. SortsTo(d, n, m + 1)
  <2> HIDE DEF d
  <2>1. \A s \in T : d[s] \in Arrays(n)
    BY <1>5, <1>6
  <2>2. QED
    BY <1>7, <2>1 DEF SortsTo, T
<1>9. QED
  BY <1>8

LEMMA SortsExist ==
  ASSUME NEW n \in Nat, NEW m \in Nat
  PROVE  \E c : SortsTo(c, n, m)
<1> DEFINE e == [k \in 0 .. m |-> \E c : SortsTo(c, n, k)]
           G == [k \in 0 .. m |-> {TRUE}]
<1>1. \E c : SortsTo(c, n, 0)
  <2> DEFINE S == CallsTo(n, 0)
             c == [s \in S |-> s[1]]
  <2>1. ASSUME NEW s \in S, NEW v PROVE SortCall(v, s) = s[1] /\ s[1] \in Arrays(n)
    <3>1. s[1] \in Arrays(n) /\ s[2] \in Int /\ s[3] \in Int /\ s[3] - s[2] <= 0
      BY DEF CallsTo, Calls
    <3>2. s[2] >= s[3]
      BY <3>1
    <3>3. QED
      BY <3>1, <3>2 DEF SortCall
  <2> HIDE DEF S
  <2>2. c = [s \in S |-> SortCall(c, s)]
    BY <2>1
  <2>3. \A s \in S : c[s] \in Arrays(n)
    BY <2>1
  <2>4. SortsTo(c, n, 0)
    BY <2>2, <2>3 DEF SortsTo, S
  <2>5. QED
    BY <2>4
<1>2. \A k \in 1 .. m : (\E c : SortsTo(c, n, k - 1)) => \E c : SortsTo(c, n, k)
  <2>1. \A k \in 1 .. m : k - 1 \in Nat /\ k - 1 + 1 = k
    OBVIOUS
  <2>2. \A k \in 1 .. m : (\E c : SortsTo(c, n, k - 1)) => \E c : SortsTo(c, n, k - 1 + 1)
    BY <2>1, SortsLater
  <2>3. QED
    BY <2>1, <2>2
<1>3. \A k \in 0 .. m : e[k] \in G[k] <=> \E c : SortsTo(c, n, k)
  OBVIOUS
<1>4. \A k \in 1 .. m : k \in 0 .. m /\ k - 1 \in 0 .. m
  OBVIOUS
<1>5. 0 \in Int /\ m \in Int /\ 0 \in 0 .. m /\ m \in 0 .. m
  OBVIOUS
<1> HIDE DEF e, G
<1>6. e[0] \in G[0] /\ \A k \in 0 + 1 .. m : e[k - 1] \in G[k - 1] => e[k] \in G[k]
  BY <1>1, <1>2, <1>3, <1>4, <1>5
<1>7. \A k \in 0 .. m : e[k] \in G[k]
  BY ONLY <1>5, <1>6, StaysUpwards
<1>8. QED
  BY <1>3, <1>5, <1>7

LEMMA MergeSortCalls ==
  ASSUME NEW n \in Nat
  PROVE  \A s \in Calls(n) : Arr!MergeSort(n)[s] = SortCall(Arr!MergeSort(n), s)
<1> DEFINE S == Calls(n)
           c0 == CHOOSE c : c = [s \in S |-> SortCall(c, s)]
<1>1. Arr!MergeSort(n) = c0
  BY DEF Arr!MergeSort, Calls, Arrays, Vector, SortCall
<1>2. CallsTo(n, n) = S
  <2>1. \A s \in Calls(n) : s[3] - s[2] <= n
    BY DEF Calls
  <2>2. QED
    BY <2>1 DEF CallsTo
<1>3. \E c : c = [s \in S |-> SortCall(c, s)]
  <2>1. PICK c : SortsTo(c, n, n)
    BY SortsExist
  <2> HIDE DEF S
  <2>2. c = [s \in S |-> SortCall(c, s)]
    BY <1>2, <2>1 DEF SortsTo
  <2>3. QED
    BY <2>2
<1> HIDE DEF S
<1>4. c0 = [s \in S |-> SortCall(c0, s)]
  BY <1>3
<1> HIDE DEF c0
<1>5. \A s \in S : c0[s] = SortCall(c0, s)
  BY <1>4
<1>6. QED
  BY <1>1, <1>5 DEF S

LEMMA FitsStays ==
  ASSUME NEW n \in Nat, NEW a, NEW b, NEW lo \in Int, NEW hi \in Int, NEW p \in 0 .. n - 1, NEW r \in 0 .. n - 1,
         Rearranged(a, b, n, lo, hi), p <= lo, hi <= r
  PROVE  (Fits(a, p, r) => Fits(b, p, r)) /\ (Strict(a, p, r) => Strict(b, p, r))
<1>1. Rearranged(a, b, n, p, r)
  <2>1. p \in Int /\ r \in Int
    OBVIOUS
  <2>2. QED
    BY <2>1, MovedWithin
<1>2. \A k \in 0 .. n - 1 : k \in p .. r => \E j \in 0 .. n - 1 : j \in p .. r /\ b[k] = a[j]
  <2>1. p \in Int /\ r \in Int
    OBVIOUS
  <2>2. QED
    BY <1>1, <2>1, MovedFrom
<1>3. \A k \in p .. r : k \in 0 .. n - 1
  OBVIOUS
<1>4. \A k \in p .. r : \E j \in p .. r : b[k] = a[j]
  BY <1>2, <1>3
<1>5. QED
  BY <1>4 DEF Fits, Strict

(* What a call returns: without an element above the sentinel, its part in
   order, if it is defined, and it is if all are below.                      *)
CallRight(n, a, p, r, b) ==
  /\ b \in Arrays(n)
  /\ a = Arr!Undefined => b = a
  /\ a # Arr!Undefined /\ Fits(a, p, r) =>
       \/ b = Arr!Undefined /\ ~ Strict(a, p, r)
       \/ Rearranged(a, b, n, p, r) /\ InOrder(b, p, r)

LEMMA CallTurn ==
  ASSUME NEW n \in Nat, NEW c, NEW s \in Calls(n), c[s] = SortCall(c, s),
         \A x \in Calls(n) : x[3] - x[2] < s[3] - s[2] => CallRight(n, x[1], x[2], x[3], c[x])
  PROVE  CallRight(n, s[1], s[2], s[3], c[s])
<1> DEFINE a == s[1]
           p == s[2]
           r == s[3]
           q == (p + r) \div 2
           a1 == c[<<a, p, q>>]
           a2 == c[<<a1, q + 1, r>>]
           b == Arr!Merge(a2, p, q, r)
<1>1. a \in Arrays(n) /\ p \in 0 .. n /\ r \in -1 .. n - 1 /\ p \in Int /\ r \in Int
  BY DEF Calls
<1>2. CASE a = Arr!Undefined
  <2>1. c[s] = a
    BY <1>2 DEF SortCall
  <2>2. QED
    BY <1>1, <1>2, <2>1 DEF CallRight
<1>3. CASE a # Arr!Undefined /\ p >= r
  <2>1. c[s] = a
    BY <1>3 DEF SortCall
  <2>2. a \in Vector(n)
    BY <1>1, <1>3 DEF Arrays
  <2> HIDE DEF a, p, r
  <2>3. Rearranged(a, a, n, p, r)
    BY <1>1, <2>2, Unmoved
  <2>4. InOrder(a, p, r)
    <3>1. \A j, k \in p .. r : j = k /\ (j \in 0 .. n - 1)
      BY <1>1, <1>3
    <3>2. \A j \in 0 .. n - 1 : a[j] <= a[j]
      BY <2>2 DEF Vector
    <3>3. QED
      BY <3>1, <3>2 DEF InOrder
  <2>5. QED
    BY <1>1, <1>3, <2>1, <2>3, <2>4 DEF CallRight, a, p, r
<1>4. CASE a # Arr!Undefined /\ ~ (p >= r)
  <2>1. /\ a \in Vector(n) /\ p \in 0 .. n - 1 /\ r \in 0 .. n - 1 /\ q \in p .. r - 1
        /\ \A v \in Arrays(n) : <<v, p, q>> \in Calls(n) /\ <<v, q + 1, r>> \in Calls(n)
    BY <1>4, CallParts
  <2>2. c[s] = IF a2 = Arr!Undefined THEN a2 ELSE b
    BY <1>4 DEF SortCall
  <2>3. \A x \in Calls(n) : x[3] - x[2] < r - p => CallRight(n, x[1], x[2], x[3], c[x])
    OBVIOUS
  <2> HIDE DEF q, a, p, r
  <2>4. q - p < r - p /\ r - (q + 1) < r - p /\ q \in Int /\ q + 1 \in Int /\ q + 1 \in 0 .. n - 1 /\ q \in 0 .. n - 1
        /\ p \in Int /\ r \in Int /\ q + 1 <= r /\ p <= q + 1 /\ q <= r /\ p <= p /\ r <= r
    BY <2>1
  <2>5. CallRight(n, a, p, q, a1)
    <3> DEFINE x == <<a, p, q>>
    <3>1. x \in Calls(n) /\ x[1] = a /\ x[2] = p /\ x[3] = q
      BY <1>1, <2>1
    <3> HIDE DEF x
    <3>2. CallRight(n, x[1], x[2], x[3], c[x])
      BY <2>3, <2>4, <3>1
    <3>3. CallRight(n, a, p, q, c[x])
      BY <3>1, <3>2
    <3>4. QED
      BY <3>3 DEF x
  <2>6. CallRight(n, a1, q + 1, r, a2)
    <3>1. a1 \in Arrays(n)
      BY <2>5 DEF CallRight
    <3> HIDE DEF a1
    <3> DEFINE x == <<a1, q + 1, r>>
    <3>2. x \in Calls(n) /\ x[1] = a1 /\ x[2] = q + 1 /\ x[3] = r
      BY <2>1, <3>1
    <3> HIDE DEF x
    <3>3. CallRight(n, x[1], x[2], x[3], c[x])
      BY <2>3, <2>4, <3>2
    <3>4. CallRight(n, a1, q + 1, r, c[x])
      BY <3>2, <3>3
    <3>5. QED
      BY <3>4 DEF x, a1
  <2> HIDE DEF a1, a2
  <2>7. c[s] \in Arrays(n)
    <3>1. a2 \in Arrays(n)
      BY <2>6 DEF CallRight
    <3>2. a2 # Arr!Undefined => a2 \in Vector(n)
      BY <3>1 DEF Arrays
    <3>3. a2 # Arr!Undefined => b \in Arrays(n)
      BY <2>1, <3>2, MergeMerges
    <3>4. QED
      BY <2>2, <3>1, <3>3
  <2>8. ASSUME Fits(a, p, r)
        PROVE  \/ c[s] = Arr!Undefined /\ ~ Strict(a, p, r)
               \/ Rearranged(a, c[s], n, p, r) /\ InOrder(c[s], p, r)
    <3>1. Fits(a, p, q) /\ (Strict(a, p, r) => Strict(a, p, q))
      <4>1. \A k \in p .. q : k \in p .. r
        BY <2>4
      <4>2. QED
        BY <2>8, <4>1 DEF Fits, Strict
    <3>2. CASE a1 = Arr!Undefined
      <4>1. a2 = Arr!Undefined
        BY <2>6, <3>2 DEF CallRight
      <4>2. ~ (Rearranged(a, a1, n, p, q))
        BY <3>2, UndefinedIsNone DEF Rearranged
      <4>3. ~ Strict(a, p, q)
        BY <1>4, <2>5, <3>1, <4>2 DEF CallRight
      <4>4. QED
        BY <2>2, <3>1, <4>1, <4>3
    <3>3. CASE a1 # Arr!Undefined
      <4>1. Rearranged(a, a1, n, p, q) /\ InOrder(a1, p, q)
        BY <1>4, <2>5, <3>1, <3>3 DEF CallRight
      <4>2. Fits(a1, p, r) /\ (Strict(a, p, r) => Strict(a1, p, r))
        BY <2>1, <2>4, <2>8, <4>1, FitsStays
      <4>3. Fits(a1, q + 1, r) /\ (Strict(a1, p, r) => Strict(a1, q + 1, r))
        <5>1. \A k \in q + 1 .. r : k \in p .. r
          BY <2>4
        <5>2. QED
          BY <4>2, <5>1 DEF Fits, Strict
      <4>4. CASE a2 = Arr!Undefined
        <5>1. ~ (Rearranged(a1, a2, n, q + 1, r))
          BY <4>4, UndefinedIsNone DEF Rearranged
        <5>2. ~ Strict(a1, q + 1, r)
          BY <2>6, <3>3, <4>3, <5>1 DEF CallRight
        <5>3. QED
          BY <2>2, <4>2, <4>3, <4>4, <5>2
      <4>5. CASE a2 # Arr!Undefined
        <5>1. Rearranged(a1, a2, n, q + 1, r) /\ InOrder(a2, q + 1, r)
          BY <2>6, <3>3, <4>3, <4>5 DEF CallRight
        <5>2. Fits(a2, p, r) /\ (Strict(a1, p, r) => Strict(a2, p, r))
          BY <2>1, <2>4, <4>2, <5>1, FitsStays
        <5>3. InOrder(a2, p, q)
          <6>1. \A k \in p .. q : k \in 0 .. n - 1 /\ k \notin q + 1 .. r
            BY <2>1
          <6>2. \A k \in 0 .. n - 1 : k \notin q + 1 .. r => a2[k] = a1[k]
            BY <2>4, <5>1, MovedFrom
          <6>3. \A k \in p .. q : a2[k] = a1[k]
            BY <6>1, <6>2
          <6>4. QED
            BY <4>1, <6>3 DEF InOrder
        <5>4. a2 \in Vector(n)
          BY <5>1 DEF Rearranged
        <5>5. \/ b = Arr!Undefined /\ ~ Strict(a2, p, r)
              \/ Rearranged(a2, b, n, p, r) /\ InOrder(b, p, r)
          BY <2>1, <5>1, <5>2, <5>3, <5>4, MergeMerges
        <5> HIDE DEF b
        <5>6. c[s] = b
          BY <2>2, <4>5
        <5>7. CASE Rearranged(a2, b, n, p, r) /\ InOrder(b, p, r)
          <6>1. Rearranged(a, a1, n, p, r)
            BY <2>4, <4>1, MovedWithin
          <6>2. Rearranged(a1, a2, n, p, r)
            BY <2>4, <5>1, MovedWithin
          <6>3. Rearranged(a, a2, n, p, r)
            BY <2>4, <6>1, <6>2, MovedTwice
          <6>4. Rearranged(a, b, n, p, r)
            BY <2>4, <5>7, <6>3, MovedTwice
          <6>5. QED
            BY <5>6, <5>7, <6>4
        <5>8. CASE b = Arr!Undefined /\ ~ Strict(a2, p, r)
          BY <4>2, <5>2, <5>6, <5>8
        <5>9. QED
          BY <5>5, <5>7, <5>8
      <4>6. QED
        BY <4>4, <4>5
    <3>4. QED
      BY <3>2, <3>3
  <2>9. CallRight(n, a, p, r, c[s])
    BY <1>4, <2>7, <2>8 DEF CallRight
  <2>10. QED
    BY <2>9 DEF a, p, r
<1>5. QED
  BY <1>2, <1>3, <1>4

LEMMA MergeSortRight ==
  ASSUME NEW n \in Nat, NEW a \in Vector(n)
  PROVE  CallRight(n, a, 0, n - 1, Arr!MergeSort(n)[<<a, 0, n - 1>>])
<1> DEFINE c == Arr!MergeSort(n)
           Right(x) == CallRight(n, x[1], x[2], x[3], c[x])
           wrong == {x \in Calls(n) : ~ Right(x)}
           T == {m \in Nat : \E x \in wrong : m = x[3] - x[2] + n + 1}
<1>1. \A x \in Calls(n) : x[2] \in 0 .. n /\ x[3] \in -1 .. n - 1
  BY DEF Calls
<1>2. \A x \in Calls(n) : x[3] - x[2] + n + 1 \in Nat
  BY <1>1
<1>3. ASSUME wrong # {} PROVE FALSE
  <2>1. T \subseteq Nat /\ T # {}
    BY <1>2, <1>3
  <2>2. PICK m \in T : \A y \in T : m <= y
    <3> HIDE DEF T
    <3>1. QED
      BY <2>1, LeastNumber
  <2>3. PICK s \in wrong : m = s[3] - s[2] + n + 1
    OBVIOUS
  <2>4. s \in Calls(n) /\ ~ Right(s)
    <3> HIDE DEF Right
    <3>1. QED
      OBVIOUS
  <2>5. ASSUME NEW x \in Calls(n), x[3] - x[2] < s[3] - s[2] PROVE Right(x)
    <3>1. ~ (m <= x[3] - x[2] + n + 1)
      BY <1>1, <2>3, <2>4, <2>5
    <3>2. x[3] - x[2] + n + 1 \notin T
      <4> HIDE DEF T
      <4>1. QED
        BY <2>2, <3>1
    <3>3. x \notin wrong
      BY <1>2, <3>2
    <3> HIDE DEF Right
    <3>4. QED
      BY <3>3
  <2>6. c[s] = SortCall(c, s)
    BY <2>4, MergeSortCalls
  <2> HIDE DEF c
  <2>7. Right(s)
    BY <2>4, <2>5, <2>6, CallTurn
  <2>8. QED
    BY <2>4, <2>7
<1> DEFINE x == <<a, 0, n - 1>>
<1>4. x \in Calls(n) /\ x[1] = a /\ x[2] = 0 /\ x[3] = n - 1
  BY DEF Calls, Arrays
<1> HIDE DEF x, c
<1>5. Right(x)
  <2> HIDE DEF Right
  <2>1. QED
    BY <1>3, <1>4
<1>6. QED
  BY <1>4, <1>5 DEF x, c

------------------------------------------------------------------------------
(* Files. One is no likelier to be found than another after as much reading. *)
FileSet == [l : Nat \ {0}, h : Nat]

LEMMA ProductLess ==
  ASSUME NEW x \in Nat, NEW y \in Nat, NEW z \in Nat, x <= y
  PROVE  x * z <= y * z
<1>1. PICK d \in Nat : y = x + d
  <2>1. y - x \in Nat /\ y = x + (y - x)
    OBVIOUS
  <2>2. QED
    BY <2>1
<1>2. (x + d) * z = x * z + d * z
  OBVIOUS
<1>3. x * z \in Nat /\ d * z \in Nat
  OBVIOUS
<1>4. QED
  BY <1>1, <1>2, <1>3

LEMMA ProductCancels ==
  ASSUME NEW x \in Nat, NEW y \in Nat, NEW z \in Nat \ {0}, x * z <= y * z
  PROVE  x <= y
<1>1. SUFFICES ASSUME y + 1 <= x PROVE FALSE
  OBVIOUS
<1>2. (y + 1) * z <= x * z
  BY <1>1, ProductLess
<1>3. (y + 1) * z = y * z + z
  OBVIOUS
<1>4. x * z \in Nat /\ y * z \in Nat
  OBVIOUS
<1>5. QED
  BY <1>2, <1>3, <1>4

LEMMA LikelierOrders ==
  /\ \A x, y \in FileSet : ~ Arr!likelier(x, y) \/ ~ Arr!likelier(y, x)
  /\ \A x, y, z \in FileSet :
       ~ Arr!likelier(y, x) /\ ~ Arr!likelier(z, y) => ~ Arr!likelier(z, x)
<1>1. ASSUME NEW x \in FileSet, NEW y \in FileSet PROVE ~ Arr!likelier(x, y) \/ ~ Arr!likelier(y, x)
  <2>1. x.h \in Nat /\ x.l \in Nat /\ y.h \in Nat /\ y.l \in Nat
    BY DEF FileSet
  <2>2. x.h * y.l \in Nat /\ y.h * x.l \in Nat
    BY <2>1
  <2>3. QED
    BY <2>2 DEF Arr!likelier
<1>2. ASSUME NEW x \in FileSet, NEW y \in FileSet, NEW z \in FileSet,
             ~ Arr!likelier(y, x), ~ Arr!likelier(z, y)
      PROVE  ~ Arr!likelier(z, x)
  <2>1. /\ x.h \in Nat /\ x.l \in Nat \ {0} /\ y.h \in Nat /\ y.l \in Nat \ {0}
        /\ z.h \in Nat /\ z.l \in Nat \ {0}
    BY DEF FileSet
  <2>2. /\ y.h * x.l \in Nat /\ x.h * y.l \in Nat /\ z.h * y.l \in Nat
        /\ y.h * z.l \in Nat /\ z.h * x.l \in Nat /\ x.h * z.l \in Nat
    BY <2>1
  <2>3. y.h * x.l <= x.h * y.l /\ z.h * y.l <= y.h * z.l
    BY <1>2, <2>2 DEF Arr!likelier
  <2>4. (z.h * y.l) * x.l <= (y.h * z.l) * x.l
    BY <2>1, <2>2, <2>3, ProductLess
  <2>5. (y.h * x.l) * z.l <= (x.h * y.l) * z.l
    BY <2>1, <2>2, <2>3, ProductLess
  <2>6. /\ (z.h * y.l) * x.l = (z.h * x.l) * y.l
        /\ (y.h * z.l) * x.l = (y.h * x.l) * z.l
        /\ (x.h * y.l) * z.l = (x.h * z.l) * y.l
    BY <2>1
  <2>7. (z.h * x.l) * y.l \in Nat /\ (y.h * x.l) * z.l \in Nat /\ (x.h * z.l) * y.l \in Nat
    BY <2>1, <2>2
  <2>8. (z.h * x.l) * y.l <= (x.h * z.l) * y.l
    BY <2>4, <2>5, <2>6, <2>7
  <2>9. z.h * x.l <= x.h * z.l
    BY <2>1, <2>2, <2>8, ProductCancels
  <2>10. QED
    BY <2>2, <2>9 DEF Arr!likelier
<1>3. QED
  BY <1>1, <1>2

Orders(n) ==
  {f \in [0 .. n - 1 -> 0 .. n - 1] :
     /\ \A j, k \in 0 .. n - 1 : f[j] = f[k] => j = k
     /\ \A j \in 0 .. n - 1 : \E k \in 0 .. n - 1 : f[k] = j}

LEMMA BestIs ==
  ASSUME NEW n \in Nat, input \in [0 .. n - 1 -> FileSet], NEW s \in [0 .. n - 1 -> 0 .. n - 1], NEW t \in 0 .. n - 1
  PROVE  /\ Arr!best(s, t) \in t .. n - 1
         /\ \A j \in t .. n - 1 : ~ Arr!likelier(input[s[j]], input[s[Arr!best(s, t)]])
<1> DEFINE R == {x \in (0 .. n - 1) \X (0 .. n - 1) : ~ Arr!likelier(input[s[x[2]]], input[s[x[1]]])}
<1>1. \A j \in t .. n - 1 : j \in 0 .. n - 1 /\ input[s[j]] \in FileSet
  OBVIOUS
<1>2. \A j, k \in t .. n - 1 : <<j, k>> \in R <=> ~ Arr!likelier(input[s[k]], input[s[j]])
  OBVIOUS
<1> HIDE DEF R
<1>3. PICK p \in t .. n - 1 : /\ \A j \in t .. n - 1 : <<p, j>> \in R
                              /\ \A j \in t .. p - 1 : <<j, p>> \notin R
  <2>1. t \in Nat /\ n - 1 \in Nat /\ t <= n - 1
    OBVIOUS
  <2>2. \A j, k \in t .. n - 1 : <<j, k>> \in R \/ <<k, j>> \in R
    BY <1>1, <1>2, LikelierOrders
  <2>3. \A j, k, m \in t .. n - 1 : <<j, k>> \in R /\ <<k, m>> \in R => <<j, m>> \in R
    BY <1>1, <1>2, LikelierOrders
  <2>4. QED
    BY <2>1, <2>2, <2>3, FirstBest
<1>4. \A j \in t .. n - 1 : ~ Arr!likelier(input[s[j]], input[s[p]])
  BY <1>2, <1>3
<1>5. \A j \in t .. p - 1 : Arr!likelier(input[s[p]], input[s[j]])
  <2>1. \A j \in t .. p - 1 : j \in t .. n - 1
    OBVIOUS
  <2>2. QED
    BY <1>2, <1>3, <2>1
<1>6. Arr!size(s) = n
  <2>1. DOMAIN s = 0 .. n - 1
    OBVIOUS
  <2>2. QED
    BY <2>1, SizeOf
<1>7. QED
  BY <1>4, <1>5, <1>6 DEF Arr!best

(* After t turns no file is likelier than one of the first t before it.      *)
Chosen(s, n, t) == \A j \in 0 .. t - 1 : \A k \in j .. n - 1 : ~ Arr!likelier(input[s[k]], input[s[j]])

LEMMA OrderSwaps ==
  ASSUME NEW n \in Nat, NEW s \in Orders(n), NEW j \in 0 .. n - 1, NEW k \in 0 .. n - 1
  PROVE  /\ Arr!Exchange(s, j, k) \in Orders(n)
         /\ Arr!Exchange(s, j, k)[j] = s[k] /\ Arr!Exchange(s, j, k)[k] = s[j]
         /\ \A x \in 0 .. n - 1 : x \notin {j, k} => Arr!Exchange(s, j, k)[x] = s[x]
<1> DEFINE f == Arr!Exchange(s, j, k)
<1>1. s \in [0 .. n - 1 -> 0 .. n - 1]
  BY DEF Orders
<1>2. /\ f \in [0 .. n - 1 -> 0 .. n - 1]
      /\ f[j] = s[k] /\ f[k] = s[j]
      /\ \A x \in 0 .. n - 1 : x \notin {j, k} => f[x] = s[x]
  BY <1>1 DEF Arr!Exchange
<1> HIDE DEF f
<1>3. ASSUME NEW x \in 0 .. n - 1, NEW y \in 0 .. n - 1, f[x] = f[y] PROVE x = y
  <2>1. \A v, w \in 0 .. n - 1 : s[v] = s[w] => v = w
    BY DEF Orders
  <2>2. \A v \in 0 .. n - 1 : v = j \/ v = k \/ v \notin {j, k}
    OBVIOUS
  <2>3. CASE x = j
    BY <1>2, <1>3, <2>1, <2>2, <2>3
  <2>4. CASE x = k
    BY <1>2, <1>3, <2>1, <2>2, <2>4
  <2>5. CASE x \notin {j, k}
    BY <1>2, <1>3, <2>1, <2>2, <2>5
  <2>6. QED
    BY <2>3, <2>4, <2>5
<1>4. ASSUME NEW x \in 0 .. n - 1 PROVE \E y \in 0 .. n - 1 : f[y] = x
  <2>1. PICK z \in 0 .. n - 1 : s[z] = x
    BY DEF Orders
  <2>2. CASE z = j
    BY <1>2, <2>1, <2>2
  <2>3. CASE z = k
    BY <1>2, <2>1, <2>3
  <2>4. CASE z \notin {j, k}
    BY <1>2, <2>1, <2>4
  <2>5. QED
    BY <2>2, <2>3, <2>4
<1>5. f \in Orders(n)
  BY <1>2, <1>3, <1>4 DEF Orders
<1>6. QED
  BY <1>2, <1>5 DEF f

LEMMA ChoosingTurn ==
  ASSUME NEW n \in Nat, input \in [0 .. n - 1 -> FileSet], NEW t \in 1 .. n, NEW b \in Orders(n), Chosen(b, n, t - 1)
  PROVE  LET c == Arr!Exchange(b, t - 1, Arr!best(b, t - 1))
         IN c \in Orders(n) /\ Chosen(c, n, t)
<1> DEFINE p == Arr!best(b, t - 1)
           c == Arr!Exchange(b, t - 1, p)
<1>1. b \in [0 .. n - 1 -> 0 .. n - 1] /\ t - 1 \in 0 .. n - 1
  BY DEF Orders
<1>2. p \in t - 1 .. n - 1 /\ \A j \in t - 1 .. n - 1 : ~ Arr!likelier(input[b[j]], input[b[p]])
  BY <1>1, BestIs
<1>3. p \in 0 .. n - 1
  BY <1>1, <1>2
<1> HIDE DEF p
<1>4. /\ c \in Orders(n) /\ c[t - 1] = b[p] /\ c[p] = b[t - 1]
      /\ \A k \in 0 .. n - 1 : k \notin {t - 1, p} => c[k] = b[k]
  <2>1. PICK j \in 0 .. n - 1 : j = t - 1
    BY <1>1
  <2>2. /\ Arr!Exchange(b, j, p) \in Orders(n)
        /\ Arr!Exchange(b, j, p)[j] = b[p] /\ Arr!Exchange(b, j, p)[p] = b[j]
        /\ \A x \in 0 .. n - 1 : x \notin {j, p} => Arr!Exchange(b, j, p)[x] = b[x]
    BY ONLY n \in Nat, b \in Orders(n), <1>3, <2>1, OrderSwaps
  <2>3. QED
    BY <2>1, <2>2
<1> HIDE DEF c
<1>5. ASSUME NEW j \in 0 .. t - 1, NEW k \in j .. n - 1 PROVE ~ Arr!likelier(input[c[k]], input[c[j]])
  <2>1. k \in 0 .. n - 1 /\ j \in 0 .. n - 1
    BY <1>1
  <2>2. PICK m \in j .. n - 1 : c[k] = b[m] /\ (j = t - 1 => m \in t - 1 .. n - 1)
    <3>1. CASE k = t - 1
      BY <1>2, <1>4, <3>1
    <3>2. CASE k = p /\ k # t - 1
      <4>1. t - 1 \in j .. n - 1 /\ t - 1 \in t - 1 .. n - 1
        BY <1>1
      <4>2. QED
        BY <1>4, <3>2, <4>1
    <3>3. CASE k # p /\ k # t - 1
      <4>1. c[k] = b[k]
        BY <1>4, <2>1, <3>3
      <4>2. QED
        BY <4>1
    <3>4. QED
      BY <3>1, <3>2, <3>3
  <2>3. CASE j = t - 1
    BY <1>2, <1>4, <2>2, <2>3
  <2>4. CASE j # t - 1
    <3>1. j \in 0 .. t - 1 - 1 /\ j \notin {t - 1, p}
      BY <1>2, <2>4
    <3>2. c[j] = b[j]
      BY <1>4, <2>1, <3>1
    <3>3. ~ Arr!likelier(input[b[m]], input[b[j]])
      BY <2>2, <3>1 DEF Chosen
    <3>4. QED
      BY <2>2, <3>2, <3>3
  <2>5. QED
    BY <2>3, <2>4
<1>6. Chosen(c, n, t)
  BY <1>5 DEF Chosen
<1>7. QED
  BY <1>4, <1>6 DEF c, p

LEMMA SoonestChosen ==
  ASSUME NEW n \in Nat, input \in [0 .. n - 1 -> FileSet]
  PROVE  Arr!soonest \in Orders(n) /\ Chosen(Arr!soonest, n, n)
<1> DEFINE turn(b, t) == Arr!Exchange(b, t - 1, Arr!best(b, t - 1))
           start == [k \in 0 .. n - 1 |-> k]
           F == [t \in 1 .. n |-> [b \in Orders(n) |-> turn(b, t)]]
           G == [t \in 0 .. n |-> {b \in Orders(n) : Chosen(b, n, t)}]
           loop(c) == [t \in 0 .. n |-> IF t = 0 THEN start ELSE turn(c[t - 1], t)]
           c0 == CHOOSE c : c = loop(c)
<1>1. Arr!size(input) = n /\ n \in 0 .. n /\ 0 \in 0 .. n /\ 0 \in Int /\ n \in Int /\ 0 <= n
  <2>1. DOMAIN input = 0 .. n - 1
    OBVIOUS
  <2>2. Arr!size(input) = n
    BY <2>1, SizeOf
  <2>3. QED
    BY <2>2
<1>2. Arr!soonest = c0[n]
  BY <1>1 DEF Arr!soonest
<1>3. \A t \in 1 .. n : t \in 0 .. n /\ t - 1 \in 0 .. n /\ t # 0
  OBVIOUS
<1>4. start \in G[0]
  <2>1. start \in Orders(n)
    BY DEF Orders
  <2>2. Chosen(start, n, 0)
    BY DEF Chosen
  <2> HIDE DEF start
  <2>3. QED
    BY <1>1, <2>1, <2>2
<1> HIDE DEF start
<1>5. ASSUME NEW t \in 1 .. n, NEW b \in G[t - 1] PROVE b \in Orders(n) /\ turn(b, t) \in G[t]
  <2>1. b \in Orders(n) /\ Chosen(b, n, t - 1)
    BY <1>3
  <2>2. turn(b, t) \in Orders(n) /\ Chosen(turn(b, t), n, t)
    BY <2>1, ChoosingTurn
  <2> HIDE DEF turn
  <2>3. QED
    BY <1>3, <2>1, <2>2
<1>6. \A t \in 1 .. n, b \in Orders(n) : F[t][b] = turn(b, t)
  OBVIOUS
<1>7. PICK u : Upwards(u, 0, n, start, F) /\ \A t \in 0 .. n : u[t] \in G[t]
  <2>1. \A t \in 0 + 1 .. n : \A b \in G[t - 1] : F[t][b] \in G[t]
    <3> HIDE DEF F, G, turn
    <3>1. QED
      BY <1>5, <1>6
  <2> HIDE DEF F, G
  <2>2. QED
    BY ONLY <1>1, <1>4, <2>1, UpwardsRun
<1>8. u = loop(u)
  <2>1. u = [t \in 0 .. n |-> IF t = 0 THEN start ELSE F[t][u[t - 1]]]
    <3> HIDE DEF F
    <3>1. QED
      BY <1>7 DEF Upwards
  <2>2. \A t \in 1 .. n : F[t][u[t - 1]] = turn(u[t - 1], t)
    <3> HIDE DEF F, G, turn
    <3>1. QED
      BY <1>3, <1>5, <1>6, <1>7
  <2>3. \A t \in 0 .. n : t = 0 \/ t \in 1 .. n
    OBVIOUS
  <2> HIDE DEF F, turn
  <2>4. QED
    BY <2>1, <2>2, <2>3
<1>9. c0 = loop(c0)
  <2> HIDE DEF loop
  <2>1. QED
    BY <1>8
<1>10. \A t \in 0 .. n : c0[t] = IF t = 0 THEN start ELSE turn(c0[t - 1], t)
  <2> HIDE DEF c0, turn
  <2>1. QED
    BY <1>9
<1>11. \A t \in 0 .. n : c0[t] \in G[t]
  <2> HIDE DEF c0, G, turn
  <2>1. c0[0] \in G[0]
    BY <1>1, <1>4, <1>10
  <2>2. \A t \in 0 + 1 .. n : c0[t - 1] \in G[t - 1] => c0[t] \in G[t]
    BY <1>3, <1>5, <1>10
  <2>3. QED
    BY ONLY <1>1, <2>1, <2>2, StaysUpwards
<1>12. c0[n] \in G[n]
  BY <1>1, <1>11
<1>13. QED
  <2> HIDE DEF c0
  <2>1. QED
    BY <1>1, <1>2, <1>12

(* What reading the files in the order s costs, file by file.                *)
Sum == [length : Nat, time : Nat]

Costs(c, s, n) ==
  /\ c[0] = [length |-> 0, time |-> 0]
  /\ \A k \in 0 .. n : c[k] \in Sum
  /\ \A k \in 1 .. n : c[k] = Arr!passed(c[k - 1], input[s[k - 1]])

LEMMA PassedSum ==
  ASSUME NEW c \in Sum, NEW x \in FileSet
  PROVE  /\ Arr!passed(c, x) \in Sum
         /\ Arr!passed(c, x).length = c.length + x.l
         /\ Arr!passed(c, x).time = c.time + x.h * (c.length + x.l)
<1>1. c.length \in Nat /\ c.time \in Nat /\ x.l \in Nat /\ x.h \in Nat
  BY DEF Sum, FileSet
<1>2. c.length + x.l \in Nat
  BY <1>1
<1>3. x.h * (c.length + x.l) \in Nat
  BY <1>1, <1>2
<1>4. c.time + x.h * (c.length + x.l) \in Nat
  BY <1>1, <1>3
<1>5. QED
  BY <1>2, <1>4 DEF Arr!passed, Sum

LEMMA CostRun ==
  ASSUME NEW n \in Nat, input \in [0 .. n - 1 -> FileSet], NEW s \in [0 .. n - 1 -> 0 .. n - 1]
  PROVE  \E c : Costs(c, s, n) /\ Arr!cost(s) = c[n].time
<1> DEFINE turn(b, t) == Arr!passed(b, input[s[t - 1]])
           start == [length |-> 0, time |-> 0]
           F == [t \in 1 .. n |-> [b \in Sum |-> turn(b, t)]]
           G == [t \in 0 .. n |-> Sum]
           loop(c) == [t \in 0 .. n |-> IF t = 0 THEN start ELSE turn(c[t - 1], t)]
           c0 == CHOOSE c : c = loop(c)
<1>1. Arr!size(s) = n /\ n \in 0 .. n /\ 0 \in 0 .. n /\ 0 \in Int /\ n \in Int /\ 0 <= n
  <2>1. DOMAIN s = 0 .. n - 1
    OBVIOUS
  <2>2. Arr!size(s) = n
    BY <2>1, SizeOf
  <2>3. QED
    BY <2>2
<1>2. Arr!cost(s) = c0[n].time
  BY <1>1 DEF Arr!cost
<1>3. \A t \in 1 .. n : t \in 0 .. n /\ t - 1 \in 0 .. n /\ t # 0 /\ t - 1 \in 0 .. n - 1
  OBVIOUS
<1>4. start \in Sum
  BY DEF Sum
<1> HIDE DEF start
<1>5. ASSUME NEW t \in 1 .. n, NEW b \in Sum PROVE turn(b, t) \in Sum
  <2>1. input[s[t - 1]] \in FileSet
    BY <1>3
  <2>2. QED
    BY <2>1, PassedSum
<1>6. \A t \in 1 .. n, b \in Sum : F[t][b] = turn(b, t)
  OBVIOUS
<1>7. \A t \in 0 .. n : G[t] = Sum
  OBVIOUS
<1>8. PICK u : Upwards(u, 0, n, start, F) /\ \A t \in 0 .. n : u[t] \in G[t]
  <2>1. \A t \in 0 + 1 .. n : \A b \in G[t - 1] : F[t][b] \in G[t]
    <3> HIDE DEF F, G, turn
    <3>1. QED
      BY <1>3, <1>5, <1>6, <1>7
  <2>2. start \in G[0]
    <3> HIDE DEF G
    <3>1. QED
      BY <1>1, <1>4, <1>7
  <2> HIDE DEF F, G
  <2>3. QED
    BY ONLY <1>1, <2>1, <2>2, UpwardsRun
<1>9. u = loop(u)
  <2>1. u = [t \in 0 .. n |-> IF t = 0 THEN start ELSE F[t][u[t - 1]]]
    <3> HIDE DEF F
    <3>1. QED
      BY <1>8 DEF Upwards
  <2>2. \A t \in 1 .. n : F[t][u[t - 1]] = turn(u[t - 1], t)
    <3> HIDE DEF F, G, turn
    <3>1. QED
      BY <1>3, <1>6, <1>7, <1>8
  <2>3. \A t \in 0 .. n : t = 0 \/ t \in 1 .. n
    OBVIOUS
  <2> HIDE DEF F, turn
  <2>4. QED
    BY <2>1, <2>2, <2>3
<1>10. c0 = loop(c0)
  <2> HIDE DEF loop
  <2>1. QED
    BY <1>9
<1>11. \A t \in 0 .. n : c0[t] = IF t = 0 THEN start ELSE turn(c0[t - 1], t)
  <2> HIDE DEF c0, turn
  <2>1. QED
    BY <1>10
<1>12. \A t \in 0 .. n : c0[t] \in G[t]
  <2> HIDE DEF c0, G, turn
  <2>1. c0[0] \in G[0]
    <3>1. c0[0] = start /\ G[0] = Sum
      BY ONLY <1>1, <1>7, <1>11
    <3>2. QED
      BY ONLY <1>4, <3>1
  <2>2. \A t \in 0 + 1 .. n : c0[t - 1] \in G[t - 1] => c0[t] \in G[t]
    <3>1. ASSUME NEW t \in 1 .. n, c0[t - 1] \in G[t - 1] PROVE c0[t] \in G[t]
      <4>1. c0[t - 1] \in Sum
        BY <1>3, <1>7, <3>1
      <4>2. c0[t] = turn(c0[t - 1], t)
        BY <1>3, <1>11
      <4>3. turn(c0[t - 1], t) \in Sum
        BY <1>5, <4>1
      <4>4. G[t] = Sum
        BY <1>3, <1>7
      <4>5. QED
        BY ONLY <4>2, <4>3, <4>4
    <3>2. QED
      BY <3>1
  <2>3. QED
    BY ONLY <1>1, <2>1, <2>2, StaysUpwards
<1>13. Costs(c0, s, n)
  <2> HIDE DEF c0, G
  <2>1. c0[0] = start
    BY <1>1, <1>11
  <2>2. \A k \in 0 .. n : c0[k] \in Sum
    BY <1>7, <1>12
  <2>3. \A k \in 1 .. n : c0[k] = turn(c0[k - 1], k)
    <3> HIDE DEF turn
    <3>1. QED
      BY <1>3, <1>11
  <2>4. QED
    BY <2>1, <2>2, <2>3 DEF Costs, start
<1>14. QED
  <2> HIDE DEF c0
  <2>1. QED
    BY <1>2, <1>13

LEMMA CostGrows ==
  ASSUME NEW n \in Nat, input \in [0 .. n - 1 -> FileSet], NEW s \in [0 .. n - 1 -> 0 .. n - 1],
         NEW c, Costs(c, s, n), NEW k \in 1 .. n
  PROVE  /\ k - 1 \in 0 .. n - 1 /\ input[s[k - 1]] \in FileSet
         /\ c[k - 1].length \in Nat /\ c[k - 1].time \in Nat
         /\ c[k].length = c[k - 1].length + input[s[k - 1]].l
         /\ c[k].time = c[k - 1].time + input[s[k - 1]].h * (c[k - 1].length + input[s[k - 1]].l)
<1>1. k - 1 \in 0 .. n - 1 /\ k - 1 \in 0 .. n
  OBVIOUS
<1>2. input[s[k - 1]] \in FileSet
  BY <1>1
<1>3. c[k - 1] \in Sum /\ c[k] = Arr!passed(c[k - 1], input[s[k - 1]])
  BY <1>1 DEF Costs
<1>4. c[k - 1].length \in Nat /\ c[k - 1].time \in Nat
  BY <1>3 DEF Sum
<1>5. /\ c[k].length = c[k - 1].length + input[s[k - 1]].l
      /\ c[k].time = c[k - 1].time + input[s[k - 1]].h * (c[k - 1].length + input[s[k - 1]].l)
  BY ONLY <1>2, <1>3, PassedSum
<1>6. QED
  BY <1>1, <1>2, <1>4, <1>5

LEMMA ProductNat ==
  ASSUME NEW x \in Nat, NEW y \in Nat
  PROVE  x * y \in Nat
OBVIOUS

LEMMA SwapSums ==
  ASSUME NEW T \in Nat, NEW L \in Nat, NEW u \in Nat, NEW f \in Nat, NEW v \in Nat, NEW g \in Nat, g * u <= f * v
  PROVE  T + f * (L + u) + g * (L + u + v) <= T + g * (L + v) + f * (L + v + u)
<1>1. /\ g * (L + v) = g * L + g * v
      /\ f * (L + v + u) = f * L + f * v + f * u
      /\ f * (L + u) = f * L + f * u
      /\ g * (L + u + v) = g * L + g * u + g * v
  OBVIOUS
<1>2. /\ g * L \in Nat /\ g * v \in Nat /\ f * L \in Nat /\ f * v \in Nat
      /\ f * u \in Nat /\ g * u \in Nat
  OBVIOUS
<1>3. QED
  BY <1>1, <1>2

(* Two files that follow each other, changed over because the first is not
   likelier than the second, cost no more.                                   *)
LEMMA SwapIsNoDearer ==
  ASSUME NEW n \in Nat, input \in [0 .. n - 1 -> FileSet], NEW s \in Orders(n), NEW t \in 1 .. n - 1,
         ~ Arr!likelier(input[s[t - 1]], input[s[t]])
  PROVE  Arr!cost(Arr!Exchange(s, t - 1, t)) <= Arr!cost(s)
<1> DEFINE e == Arr!Exchange(s, t - 1, t)
<1>1. PICK j \in 0 .. n - 1 : j = t - 1
  OBVIOUS
<1>2. t \in 0 .. n - 1
  OBVIOUS
<1>3. /\ e \in Orders(n) /\ e[t - 1] = s[t] /\ e[t] = s[t - 1]
      /\ \A k \in 0 .. n - 1 : k \notin {t - 1, t} => e[k] = s[k]
  <2>1. /\ Arr!Exchange(s, j, t) \in Orders(n)
        /\ Arr!Exchange(s, j, t)[j] = s[t] /\ Arr!Exchange(s, j, t)[t] = s[j]
        /\ \A x \in 0 .. n - 1 : x \notin {j, t} => Arr!Exchange(s, j, t)[x] = s[x]
    BY ONLY n \in Nat, s \in Orders(n), <1>1, <1>2, OrderSwaps
  <2>2. QED
    BY <1>1, <2>1
<1> HIDE DEF e
<1>4. s \in [0 .. n - 1 -> 0 .. n - 1] /\ e \in [0 .. n - 1 -> 0 .. n - 1]
  BY <1>3 DEF Orders
<1>5. PICK c : Costs(c, s, n) /\ Arr!cost(s) = c[n].time
  BY <1>4, CostRun
<1>6. PICK d : Costs(d, e, n) /\ Arr!cost(e) = d[n].time
  BY <1>4, CostRun
<1>7. d[t - 1] = c[t - 1]
  <2> DEFINE G == [k \in 0 .. t - 1 |-> {c[k]}]
  <2>1. \A k \in 0 .. t - 1 : G[k] = {c[k]}
    OBVIOUS
  <2>2. d[0] \in G[0]
    <3>1. 0 \in 0 .. t - 1
      OBVIOUS
    <3>2. QED
      BY <1>5, <1>6, <2>1, <3>1 DEF Costs
  <2> HIDE DEF G
  <2>3. ASSUME NEW k \in 0 + 1 .. t - 1, d[k - 1] \in G[k - 1] PROVE d[k] \in G[k]
    <3>1. k \in 1 .. n /\ k - 1 \in 0 .. t - 1 /\ k \in 0 .. t - 1 /\ k - 1 \in 0 .. n - 1 /\ k - 1 \notin {t - 1, t}
      OBVIOUS
    <3>2. e[k - 1] = s[k - 1]
      BY <1>3, <3>1
    <3>3. d[k - 1] = c[k - 1]
      BY <2>1, <2>3, <3>1
    <3>4. d[k] = Arr!passed(d[k - 1], input[e[k - 1]]) /\ c[k] = Arr!passed(c[k - 1], input[s[k - 1]])
      BY <1>5, <1>6, <3>1 DEF Costs
    <3>5. QED
      BY <2>1, <3>1, <3>2, <3>3, <3>4
  <2>4. 0 \in Int /\ t - 1 \in Int /\ t - 1 \in 0 .. t - 1
    OBVIOUS
  <2>5. \A k \in 0 .. t - 1 : d[k] \in G[k]
    BY ONLY <2>2, <2>3, <2>4, StaysUpwards
  <2>6. QED
    BY <2>1, <2>4, <2>5
<1> DEFINE x == input[s[t]]
           y == input[s[t - 1]]
           now == c[t - 1]
<1>8. /\ now.length \in Nat /\ now.time \in Nat
      /\ y.l \in Nat /\ y.h \in Nat /\ x.l \in Nat /\ x.h \in Nat
      /\ c[t].length = now.length + y.l
      /\ c[t].time = now.time + y.h * (now.length + y.l)
      /\ c[t + 1].length = c[t].length + x.l
      /\ c[t + 1].time = c[t].time + x.h * (c[t].length + x.l)
      /\ d[t].length = now.length + x.l
      /\ d[t].time = now.time + x.h * (now.length + x.l)
      /\ d[t + 1].length = d[t].length + y.l
      /\ d[t + 1].time = d[t].time + y.h * (d[t].length + y.l)
  <2>1. t \in 1 .. n
    OBVIOUS
  <2>2. PICK m \in 1 .. n : m = t + 1 /\ m - 1 = t
    OBVIOUS
  <2>3. /\ y \in FileSet /\ now.length \in Nat /\ now.time \in Nat
        /\ c[t].length = now.length + y.l /\ c[t].time = now.time + y.h * (now.length + y.l)
    BY <1>4, <1>5, <2>1, CostGrows
  <2>4. /\ x \in FileSet /\ c[t + 1].length = c[t].length + x.l
        /\ c[t + 1].time = c[t].time + x.h * (c[t].length + x.l)
    <3>1. /\ input[s[m - 1]] \in FileSet /\ c[m].length = c[m - 1].length + input[s[m - 1]].l
          /\ c[m].time = c[m - 1].time + input[s[m - 1]].h * (c[m - 1].length + input[s[m - 1]].l)
      BY <1>4, <1>5, CostGrows
    <3>2. QED
      BY <2>2, <3>1
  <2>5. /\ d[t].length = d[t - 1].length + input[e[t - 1]].l
        /\ d[t].time = d[t - 1].time + input[e[t - 1]].h * (d[t - 1].length + input[e[t - 1]].l)
    BY <1>4, <1>6, <2>1, CostGrows
  <2>6. /\ d[t + 1].length = d[t].length + input[e[t]].l
        /\ d[t + 1].time = d[t].time + input[e[t]].h * (d[t].length + input[e[t]].l)
    <3>1. /\ d[m].length = d[m - 1].length + input[e[m - 1]].l
          /\ d[m].time = d[m - 1].time + input[e[m - 1]].h * (d[m - 1].length + input[e[m - 1]].l)
      BY <1>4, <1>6, CostGrows
    <3>2. QED
      BY <2>2, <3>1
  <2> HIDE DEF x, y, now
  <2>7. y.l \in Nat /\ y.h \in Nat /\ x.l \in Nat /\ x.h \in Nat
    BY <2>3, <2>4 DEF FileSet
  <2>8. d[t - 1] = now /\ input[e[t - 1]] = x /\ input[e[t]] = y
    BY <1>3, <1>7 DEF x, y, now
  <2>9. QED
    BY <2>3, <2>4, <2>5, <2>6, <2>7, <2>8
<1>9. y.h * x.l <= x.h * y.l
  <2>1. ~ Arr!likelier(y, x)
    OBVIOUS
  <2> HIDE DEF x, y
  <2>2. y.h * x.l \in Nat /\ x.h * y.l \in Nat
    BY <1>8, ProductNat
  <2>3. QED
    BY <2>1, <2>2 DEF Arr!likelier
<1> HIDE DEF x, y, now
<1>10. d[t + 1].length = c[t + 1].length /\ d[t + 1].time <= c[t + 1].time
  <2>1. now.time + x.h * (now.length + x.l) + y.h * (now.length + x.l + y.l)
          <= now.time + y.h * (now.length + y.l) + x.h * (now.length + y.l + x.l)
    BY <1>8, <1>9, SwapSums
  <2>2. /\ c[t + 1].time = now.time + y.h * (now.length + y.l) + x.h * (now.length + y.l + x.l)
        /\ d[t + 1].time = now.time + x.h * (now.length + x.l) + y.h * (now.length + x.l + y.l)
    BY <1>8
  <2>3. /\ c[t + 1].length = now.length + y.l + x.l
        /\ d[t + 1].length = now.length + x.l + y.l
    BY <1>8
  <2>4. now.length + y.l + x.l = now.length + x.l + y.l
    BY <1>8
  <2>5. QED
    BY <2>1, <2>2, <2>3, <2>4
<1>11. d[n].time <= c[n].time
  <2> DEFINE G == [k \in t + 1 .. n |-> {z \in Sum : z.length = c[k].length /\ z.time <= c[k].time}]
  <2>1. \A k \in t + 1 .. n : \A z \in Sum : z \in G[k] <=> z.length = c[k].length /\ z.time <= c[k].time
    OBVIOUS
  <2>2. \A k \in t + 1 .. n : G[k] \subseteq Sum
    OBVIOUS
  <2> HIDE DEF G
  <2>3. \A k \in t + 1 .. n : k \in 0 .. n /\ k \in 1 .. n
    OBVIOUS
  <2>4. t + 1 \in t + 1 .. n /\ n \in t + 1 .. n /\ t + 1 \in Int /\ n \in Int
    OBVIOUS
  <2>5. \A k \in t + 1 .. n : d[k] \in Sum /\ c[k] \in Sum
    BY <1>5, <1>6, <2>3 DEF Costs
  <2>6. d[t + 1] \in G[t + 1]
    BY <1>10, <2>1, <2>4, <2>5
  <2>7. ASSUME NEW k \in t + 1 + 1 .. n, d[k - 1] \in G[k - 1] PROVE d[k] \in G[k]
    <3>1. k \in t + 1 .. n /\ k - 1 \in t + 1 .. n /\ k \in 1 .. n /\ k - 1 \in 0 .. n - 1 /\ k - 1 \notin {t - 1, t}
      OBVIOUS
    <3>2. e[k - 1] = s[k - 1]
      BY <1>3, <3>1
    <3> DEFINE z == input[s[k - 1]]
    <3>3. /\ z \in FileSet /\ c[k - 1].length \in Nat /\ c[k - 1].time \in Nat
          /\ c[k].length = c[k - 1].length + z.l
          /\ c[k].time = c[k - 1].time + z.h * (c[k - 1].length + z.l)
      BY <1>4, <1>5, <3>1, CostGrows
    <3>4. /\ d[k - 1].length \in Nat /\ d[k - 1].time \in Nat
          /\ d[k].length = d[k - 1].length + input[e[k - 1]].l
          /\ d[k].time = d[k - 1].time + input[e[k - 1]].h * (d[k - 1].length + input[e[k - 1]].l)
      BY <1>4, <1>6, <3>1, CostGrows
    <3>5. input[e[k - 1]] = z
      BY <3>2
    <3> HIDE DEF z
    <3>6. d[k - 1].length = c[k - 1].length /\ d[k - 1].time <= c[k - 1].time
      BY <2>1, <2>5, <2>7, <3>1
    <3>7. z.l \in Nat /\ z.h * (c[k - 1].length + z.l) \in Nat
      <4>1. z.l \in Nat /\ z.h \in Nat
        BY <3>3 DEF FileSet
      <4>2. c[k - 1].length + z.l \in Nat
        BY <3>3, <4>1
      <4>3. QED
        BY <4>1, <4>2, ProductNat
    <3>8. d[k].length = c[k].length /\ d[k].time <= c[k].time
      BY <3>3, <3>4, <3>5, <3>6, <3>7
    <3>9. QED
      BY <2>1, <2>5, <3>1, <3>8
  <2>8. PICK lo \in Int : lo = t + 1
    OBVIOUS
  <2>9. d[lo] \in G[lo] /\ \A k \in lo + 1 .. n : d[k - 1] \in G[k - 1] => d[k] \in G[k]
    BY <2>6, <2>7, <2>8
  <2>10. \A k \in lo .. n : d[k] \in G[k]
    BY ONLY <2>4, <2>8, <2>9, StaysUpwards
  <2>11. d[n] \in G[n]
    BY <2>4, <2>8, <2>10
  <2>12. QED
    BY <2>1, <2>4, <2>5, <2>11
<1>12. QED
  BY <1>5, <1>6, <1>11 DEF e

LEMMA CostNat ==
  ASSUME NEW n \in Nat, input \in [0 .. n - 1 -> FileSet], NEW s \in Orders(n)
  PROVE  Arr!cost(s) \in Nat
<1>1. s \in [0 .. n - 1 -> 0 .. n - 1]
  BY DEF Orders
<1>2. PICK c : Costs(c, s, n) /\ Arr!cost(s) = c[n].time
  BY <1>1, CostRun
<1>3. n \in 0 .. n
  OBVIOUS
<1>4. c[n] \in Sum
  BY <1>2, <1>3 DEF Costs
<1>5. QED
  BY <1>2, <1>4 DEF Sum

(* The orders that cost no more than c and start with the first m of f.      *)
Near(n, f, c, m) ==
  {e \in Orders(n) : Arr!cost(e) <= c /\ \A k \in 0 .. m - 1 : e[k] = f[k]}

(* One exchange brings the next file of the chosen order a place forward.    *)
LEMMA NextComesForward ==
  ASSUME NEW n \in Nat, input \in [0 .. n - 1 -> FileSet], NEW f \in Orders(n), Chosen(f, n, n),
         NEW c \in Nat, NEW m \in 0 .. n - 1, NEW s \in Near(n, f, c, m),
         NEW t \in 0 .. n - 1, s[t] = f[m], t # m
  PROVE  t - 1 \in 0 .. n - 1 /\ \E e \in Near(n, f, c, m) : e[t - 1] = f[m]
<1>1. s \in Orders(n) /\ Arr!cost(s) <= c /\ \A k \in 0 .. m - 1 : s[k] = f[k]
  BY DEF Near
<1>2. /\ f \in [0 .. n - 1 -> 0 .. n - 1]
      /\ \A j, k \in 0 .. n - 1 : f[j] = f[k] => j = k
      /\ \A j \in 0 .. n - 1 : \E k \in 0 .. n - 1 : f[k] = j
  BY DEF Orders
<1>3. /\ s \in [0 .. n - 1 -> 0 .. n - 1]
      /\ \A j, k \in 0 .. n - 1 : s[j] = s[k] => j = k
  BY <1>1 DEF Orders
<1>4. m < t
  <2>1. SUFFICES ASSUME t < m PROVE FALSE
    OBVIOUS
  <2>2. t \in 0 .. m - 1
    BY <2>1
  <2>3. f[t] = f[m]
    BY <1>1, <2>2
  <2>4. QED
    BY <1>2, <2>3
<1>5. t \in 1 .. n - 1 /\ t - 1 \in 0 .. n - 1
  BY <1>4
<1>6. PICK k \in 0 .. n - 1 : f[k] = s[t - 1]
  BY <1>2, <1>3, <1>5
<1>7. m <= k
  <2>1. SUFFICES ASSUME k < m PROVE FALSE
    OBVIOUS
  <2>2. k \in 0 .. m - 1
    BY <2>1
  <2>3. s[k] = s[t - 1]
    BY <1>1, <1>6, <2>2
  <2>4. k = t - 1
    BY <1>3, <1>5, <2>3
  <2>5. QED
    BY <1>4, <2>1, <2>4
<1>8. ~ Arr!likelier(input[s[t - 1]], input[s[t]])
  <2>1. k \in m .. n - 1
    BY <1>7
  <2>2. ~ Arr!likelier(input[f[k]], input[f[m]])
    BY <2>1 DEF Chosen
  <2>3. QED
    BY <1>6, <2>2
<1> DEFINE e == Arr!Exchange(s, t - 1, t)
<1>9. Arr!cost(e) <= Arr!cost(s)
  BY <1>1, <1>5, <1>8, SwapIsNoDearer
<1>10. PICK j \in 0 .. n - 1 : j = t - 1
  BY <1>5
<1>11. /\ e \in Orders(n) /\ e[t - 1] = s[t]
       /\ \A x \in 0 .. n - 1 : x \notin {t - 1, t} => e[x] = s[x]
  <2>1. /\ Arr!Exchange(s, j, t) \in Orders(n)
        /\ Arr!Exchange(s, j, t)[j] = s[t] /\ Arr!Exchange(s, j, t)[t] = s[j]
        /\ \A x \in 0 .. n - 1 : x \notin {j, t} => Arr!Exchange(s, j, t)[x] = s[x]
    BY ONLY n \in Nat, t \in 0 .. n - 1, <1>1, <1>10, OrderSwaps
  <2>2. QED
    BY <1>10, <2>1
<1> HIDE DEF e
<1>12. Arr!cost(e) <= c
  <2>1. Arr!cost(e) \in Nat /\ Arr!cost(s) \in Nat
    BY <1>1, <1>11, CostNat
  <2>2. QED
    BY <1>1, <1>9, <2>1
<1>13. \A x \in 0 .. m - 1 : e[x] = f[x]
  <2>1. \A x \in 0 .. m - 1 : x \in 0 .. n - 1 /\ x \notin {t - 1, t}
    BY <1>4
  <2>2. QED
    BY <1>1, <1>11, <2>1
<1>14. e \in Near(n, f, c, m)
  BY <1>11, <1>12, <1>13 DEF Near
<1>15. QED
  BY <1>5, <1>11, <1>14

LEMMA OneMoreAgrees ==
  ASSUME NEW n \in Nat, input \in [0 .. n - 1 -> FileSet], NEW f \in Orders(n), Chosen(f, n, n),
         NEW c \in Nat, NEW m \in 0 .. n - 1, Near(n, f, c, m) # {}
  PROVE  Near(n, f, c, m + 1) # {}
<1> DEFINE T == {t \in 0 .. n - 1 : \E e \in Near(n, f, c, m) : e[t] = f[m]}
<1>1. f \in [0 .. n - 1 -> 0 .. n - 1]
  BY DEF Orders
<1>2. T # {} /\ T \subseteq Nat
  <2>1. PICK s \in Near(n, f, c, m) : TRUE
    OBVIOUS
  <2>2. \A j \in 0 .. n - 1 : \E k \in 0 .. n - 1 : s[k] = j
    BY DEF Near, Orders
  <2>3. PICK k \in 0 .. n - 1 : s[k] = f[m]
    BY <1>1, <2>2
  <2>4. k \in T
    BY <2>3
  <2>5. QED
    BY <2>4
<1>3. PICK t \in T : \A y \in T : t <= y
  <2> HIDE DEF T
  <2>1. QED
    BY <1>2, LeastNumber
<1>4. t \in 0 .. n - 1
  OBVIOUS
<1>5. PICK s \in Near(n, f, c, m) : s[t] = f[m]
  OBVIOUS
<1>6. t = m
  <2>1. SUFFICES ASSUME t # m PROVE FALSE
    OBVIOUS
  <2>2. t - 1 \in 0 .. n - 1 /\ \E e \in Near(n, f, c, m) : e[t - 1] = f[m]
    BY <1>4, <1>5, <2>1, NextComesForward
  <2>3. t - 1 \in T
    BY <2>2
  <2> HIDE DEF T
  <2>4. QED
    BY <1>3, <1>4, <2>3
<1>7. \A k \in 0 .. m + 1 - 1 : s[k] = f[k]
  <2>1. \A k \in 0 .. m + 1 - 1 : k = m \/ k \in 0 .. m - 1
    OBVIOUS
  <2>2. \A k \in 0 .. m - 1 : s[k] = f[k]
    BY DEF Near
  <2>3. QED
    BY <1>5, <1>6, <2>1, <2>2
<1>8. s \in Orders(n) /\ Arr!cost(s) <= c
  BY DEF Near
<1>9. s \in Near(n, f, c, m + 1)
  BY <1>7, <1>8 DEF Near
<1>10. QED
  BY <1>9

LEMMA ChosenCostsLeast ==
  ASSUME NEW n \in Nat, input \in [0 .. n - 1 -> FileSet], NEW f \in Orders(n), Chosen(f, n, n),
         NEW s \in Orders(n)
  PROVE  Arr!cost(f) <= Arr!cost(s)
<1> DEFINE c == Arr!cost(s)
           some == [m \in 0 .. n |-> Near(n, f, c, m) # {}]
           G == [m \in 0 .. n |-> {TRUE}]
<1>1. c \in Nat
  BY CostNat
<1> HIDE DEF c
<1>2. \A m \in 0 .. n : some[m] = (Near(n, f, c, m) # {}) /\ G[m] = {TRUE}
  OBVIOUS
<1> HIDE DEF some, G
<1>3. 0 \in 0 .. n /\ n \in 0 .. n /\ 0 \in Int /\ n \in Int
  OBVIOUS
<1>4. some[0] \in G[0]
  <2>1. s \in Near(n, f, c, 0)
    BY <1>1 DEF Near, c
  <2>2. QED
    BY <1>2, <1>3, <2>1
<1>5. ASSUME NEW m \in 0 + 1 .. n, some[m - 1] \in G[m - 1] PROVE some[m] \in G[m]
  <2>1. m \in 0 .. n /\ m - 1 \in 0 .. n
    OBVIOUS
  <2>2. PICK j \in 0 .. n - 1 : j = m - 1 /\ j + 1 = m
    OBVIOUS
  <2>3. Near(n, f, c, j) # {}
    BY <1>2, <1>5, <2>1, <2>2
  <2>4. Near(n, f, c, j + 1) # {}
    BY <1>1, <2>3, OneMoreAgrees
  <2>5. QED
    BY <1>2, <2>1, <2>2, <2>4
<1>6. some[n] \in G[n]
  <2>1. \A m \in 0 .. n : some[m] \in G[m]
    BY ONLY <1>3, <1>4, <1>5, StaysUpwards
  <2>2. QED
    BY <1>3, <2>1
<1>7. PICK e \in Near(n, f, c, n) : TRUE
  BY <1>2, <1>3, <1>6
<1>8. e \in Orders(n) /\ Arr!cost(e) <= c /\ \A k \in 0 .. n - 1 : e[k] = f[k]
  BY <1>7 DEF Near
<1>9. e = f
  <2>1. e \in [0 .. n - 1 -> 0 .. n - 1] /\ f \in [0 .. n - 1 -> 0 .. n - 1]
    BY <1>8 DEF Orders
  <2>2. QED
    BY <1>8, <2>1
<1>10. QED
  BY <1>8, <1>9 DEF c

------------------------------------------------------------------------------
(* Numbers are arrays of integers, files have a length above 0, and the orders
   of files are those Average_Minimum_Query_Time returns one of.             *)
LEMMA NumbersAre ==
  ASSUME NEW a \in Arr!Array(Item, MaxLength)
  PROVE  \E n \in Nat : a \in Vector(n)
<1>1. PICK n \in 0 .. MaxLength : a \in [0 .. n - 1 -> Item]
  BY DEF Arr!Array
<1>2. Item \subseteq Int /\ n \in Nat
  BY ArraysAssumption
<1>3. a \in Vector(n)
  BY <1>1, <1>2 DEF Vector
<1>4. QED
  BY <1>2, <1>3

LEMMA FilesAre ==
  ASSUME NEW a \in Arr!Files
  PROVE  \E n \in Nat : a \in [0 .. n - 1 -> FileSet]
<1>1. PICK n \in 0 .. MaxFiles : a \in [0 .. n - 1 -> [l : FileSize, h : FileHits]]
  BY DEF Arr!Files, Arr!Array
<1>2. [l : FileSize, h : FileHits] \subseteq FileSet
  BY ArraysAssumption DEF FileSet
<1>3. n \in Nat
  BY ArraysAssumption
<1>4. a \in [0 .. n - 1 -> FileSet]
  BY <1>1, <1>2
<1>5. QED
  BY <1>3, <1>4

LEMMA OrdersAre ==
  ASSUME NEW n \in Nat, DOMAIN input = 0 .. n - 1, NEW s \in Arr!Bijection(DOMAIN input, DOMAIN input)
  PROVE  s \in Orders(n)
BY DEF Arr!Bijection, Arr!Injection, Arr!Surjection, Arr!IsInjective, Orders

(* A call of a function on arrays, before and after: the sorts by exchange put
   the elements in order, Merge_Sort does what is right for its whole array,
   and of the files none is likelier than one before it.                     *)
Called(f, a, b) ==
  \/ f = "numbers" /\ a \in Arr!Array(Item, MaxLength)
  \/ /\ f \in {"insert_sort", "Bubble_Sort", "Heap_Sort"}
     /\ \E n \in Nat : Rearranged(a, b, n, 0, n - 1) /\ Arr!sorted(b)
  \/ /\ f = "Merge_Sort"
     /\ \E n \in Nat : a \in Vector(n) /\ CallRight(n, a, 0, n - 1, b)

Ordered ==
  /\ sorter = "Average_Minimum_Query_Time"
  /\ \E n \in Nat : input \in [0 .. n - 1 -> FileSet] /\ output \in Orders(n) /\ Chosen(output, n, n)

ArraysInv ==
  \/ Called(sorter, input, output)
  \/ sorter = "files" /\ input \in Arr!Files
  \/ Ordered

LEMMA ExchangeSorts ==
  ASSUME NEW a \in Arr!Array(Item, MaxLength), NEW b \in {Arr!insertion(a), Arr!bubbled(a), Arr!heaped(a)}
  PROVE  \E n \in Nat : Rearranged(a, b, n, 0, n - 1) /\ Arr!sorted(b)
<1>1. PICK n \in Nat : a \in Vector(n)
  BY NumbersAre
<1>2. Rearranged(a, b, n, 0, n - 1) /\ (Placed(b, n, n - 1) \/ Placed(b, n, n) \/ Back(b, n, 1))
  BY <1>1, InsertionSorts, BubbleSorts, HeapSorts
<1>3. b \in Vector(n)
  BY <1>2 DEF Rearranged
<1>4. Arr!sorted(b)
  BY <1>2, <1>3, FrontSorted
<1>5. QED
  BY <1>2, <1>4

LEMMA MergeSorts ==
  ASSUME NEW a \in Arr!Array(Item, MaxLength)
  PROVE  \E n \in Nat : a \in Vector(n)
           /\ CallRight(n, a, 0, n - 1, Arr!MergeSort(Arr!size(a))[<<a, 0, Arr!size(a) - 1>>])
<1>1. PICK n \in Nat : a \in Vector(n)
  BY NumbersAre
<1>2. Arr!size(a) = n
  BY <1>1, SizeOfVector
<1>3. CallRight(n, a, 0, n - 1, Arr!MergeSort(n)[<<a, 0, n - 1>>])
  BY <1>1, MergeSortRight
<1>4. QED
  BY <1>1, <1>2, <1>3

LEMMA ArraysStep ==
  ASSUME ArraysInv, [Arr!Next]_<<sorter, input, output>>
  PROVE  ArraysInv'
<1>1. CASE UNCHANGED <<sorter, input, output>>
  BY <1>1 DEF ArraysInv, Called, Ordered, Chosen
<1>2. ASSUME Arr!numbers PROVE input \in Arr!Array(Item, MaxLength)
  BY <1>2 DEF Arr!numbers, ArraysInv, Called, Ordered
<1>3. CASE Arr!insert_sort
  <2>1. sorter' = "insert_sort" /\ output' = Arr!insertion(input) /\ input' = input
    BY <1>3 DEF Arr!insert_sort, Arr!returns
  <2>2. \E n \in Nat : Rearranged(input, output', n, 0, n - 1) /\ Arr!sorted(output')
    BY <1>2, <1>3, <2>1, ExchangeSorts DEF Arr!insert_sort
  <2>3. Called(sorter', input', output')
    BY <2>1, <2>2 DEF Called
  <2>4. QED
    BY <2>3 DEF ArraysInv
<1>4. CASE Arr!Bubble_Sort
  <2>1. sorter' = "Bubble_Sort" /\ output' = Arr!bubbled(input) /\ input' = input
    BY <1>4 DEF Arr!Bubble_Sort, Arr!returns
  <2>2. \E n \in Nat : Rearranged(input, output', n, 0, n - 1) /\ Arr!sorted(output')
    BY <1>2, <1>4, <2>1, ExchangeSorts DEF Arr!Bubble_Sort
  <2>3. Called(sorter', input', output')
    BY <2>1, <2>2 DEF Called
  <2>4. QED
    BY <2>3 DEF ArraysInv
<1>5. CASE Arr!Heap_Sort
  <2>1. sorter' = "Heap_Sort" /\ output' = Arr!heaped(input) /\ input' = input
    BY <1>5 DEF Arr!Heap_Sort, Arr!returns
  <2>2. \E n \in Nat : Rearranged(input, output', n, 0, n - 1) /\ Arr!sorted(output')
    BY <1>2, <1>5, <2>1, ExchangeSorts DEF Arr!Heap_Sort
  <2>3. Called(sorter', input', output')
    BY <2>1, <2>2 DEF Called
  <2>4. QED
    BY <2>3 DEF ArraysInv
<1>6. CASE Arr!Merge_Sort
  <2>1. /\ sorter' = "Merge_Sort" /\ input' = input
        /\ output' = Arr!MergeSort(Arr!size(input))[<<input, 0, Arr!size(input) - 1>>]
    BY <1>6 DEF Arr!Merge_Sort, Arr!returns
  <2>2. \E n \in Nat : input \in Vector(n) /\ CallRight(n, input, 0, n - 1, output')
    <3>1. input \in Arr!Array(Item, MaxLength)
      BY <1>2, <1>6 DEF Arr!Merge_Sort
    <3>2. QED
      BY <2>1, <3>1, MergeSorts
  <2>3. Called(sorter', input', output')
    BY <2>1, <2>2 DEF Called
  <2>4. QED
    BY <2>3 DEF ArraysInv
<1>7. CASE Arr!Average_Minimum_Query_Time
  <2>1. /\ sorter = "files" /\ sorter' = "Average_Minimum_Query_Time"
        /\ output' = Arr!soonest /\ input' = input
    BY <1>7 DEF Arr!Average_Minimum_Query_Time, Arr!returns
  <2>2. input \in Arr!Files
    BY <2>1 DEF ArraysInv, Called, Ordered
  <2>3. PICK n \in Nat : input \in [0 .. n - 1 -> FileSet]
    BY <2>2, FilesAre
  <2>4. output' \in Orders(n) /\ Chosen(output', n, n)
    BY <2>1, <2>3, SoonestChosen
  <2>5. Ordered'
    BY <2>1, <2>3, <2>4 DEF Ordered, Chosen
  <2>6. QED
    BY <2>5 DEF ArraysInv
<1>8. QED
  BY <1>1, <1>3, <1>4, <1>5, <1>6, <1>7 DEF Arr!Next

LEMMA ArraysRight ==
  ASSUME ArraysInv
  PROVE  SortsRight
<1>1. ASSUME NEW n \in Nat, Rearranged(input, output, n, 0, n - 1), InOrder(output, 0, n - 1)
      PROVE  Arr!sorted(output) /\ Arr!sameElements(input, output)
  <2>1. DOMAIN output = 0 .. n - 1
    BY <1>1 DEF Rearranged, Vector
  <2>2. QED
    BY <1>1, <2>1, MovedSame DEF InOrder, Arr!sorted
<1>2. ASSUME sorter = "Merge_Sort"
      PROVE  \E n \in Nat : /\ DOMAIN input = 0 .. n - 1
                            /\ \A k \in 0 .. n - 1 : input[k] \in Int
                            /\ Fits(input, 0, n - 1) =>
                                 \/ output = Arr!Undefined /\ ~ Strict(input, 0, n - 1)
                                 \/ Arr!sorted(output) /\ Arr!sameElements(input, output)
  <2>1. PICK n \in Nat : input \in Vector(n) /\ CallRight(n, input, 0, n - 1, output)
    BY <1>2 DEF ArraysInv, Called, Ordered
  <2>2. input # Arr!Undefined
    BY <2>1, UndefinedIsNone
  <2>3. QED
    BY <1>1, <2>1, <2>2 DEF CallRight, Vector
<1>3. Arr!Sorts
  <2>1. CASE sorter \in {"insert_sort", "Bubble_Sort", "Heap_Sort"}
    <3>1. PICK n \in Nat : Rearranged(input, output, n, 0, n - 1) /\ Arr!sorted(output)
      BY <2>1 DEF ArraysInv, Called, Ordered
    <3>2. Arr!sameElements(input, output)
      BY <3>1, MovedSame
    <3>3. QED
      BY <3>1, <3>2 DEF Arr!Sorts
  <2>2. CASE sorter = "Merge_Sort" /\ \A k \in DOMAIN input : input[k] < Sentinel
    <3>1. PICK n \in Nat :
             /\ DOMAIN input = 0 .. n - 1
             /\ \A k \in 0 .. n - 1 : input[k] \in Int
             /\ Fits(input, 0, n - 1) =>
                  \/ output = Arr!Undefined /\ ~ Strict(input, 0, n - 1)
                  \/ Arr!sorted(output) /\ Arr!sameElements(input, output)
      BY <1>2, <2>2
    <3>2. Strict(input, 0, n - 1) /\ Fits(input, 0, n - 1)
      BY <2>2, <3>1, ArraysAssumption DEF Strict, Fits
    <3>3. QED
      BY <3>1, <3>2 DEF Arr!Sorts
  <2>3. QED
    BY <2>1, <2>2 DEF Arr!Sorts
<1>4. Arr!LosesOnlyToSentinel
  <2>1. SUFFICES ASSUME sorter = "Merge_Sort", output # Arr!Undefined,
                        \A k \in DOMAIN input : ~ (input[k] > Sentinel)
                 PROVE  Arr!sorted(output) /\ Arr!sameElements(input, output)
    BY DEF Arr!LosesOnlyToSentinel
  <2>2. PICK n \in Nat :
           /\ DOMAIN input = 0 .. n - 1
           /\ \A k \in 0 .. n - 1 : input[k] \in Int
           /\ Fits(input, 0, n - 1) =>
                \/ output = Arr!Undefined /\ ~ Strict(input, 0, n - 1)
                \/ Arr!sorted(output) /\ Arr!sameElements(input, output)
    BY <1>2, <2>1
  <2>3. Fits(input, 0, n - 1)
    BY <2>1, <2>2, ArraysAssumption DEF Fits
  <2>4. QED
    BY <2>1, <2>2, <2>3
<1>5. Arr!QueriesSoonest
  <2>1. SUFFICES ASSUME sorter = "Average_Minimum_Query_Time",
                        NEW s \in Arr!Bijection(DOMAIN input, DOMAIN input)
                 PROVE  Arr!cost(output) <= Arr!cost(s)
    BY DEF Arr!QueriesSoonest
  <2>2. PICK n \in Nat : input \in [0 .. n - 1 -> FileSet] /\ output \in Orders(n) /\ Chosen(output, n, n)
    BY <2>1 DEF ArraysInv, Called, Ordered
  <2>3. s \in Orders(n)
    BY <2>2, OrdersAre
  <2>4. QED
    BY <2>2, <2>3, ChosenCostsLeast
<1>6. QED
  BY <1>3, <1>4, <1>5 DEF SortsRight

(* The functions on arrays of Algorythms.h, for arrays of every length and
   elements of every value: insert_sort, Bubble_Sort and Heap_Sort return the
   elements they were given, in order, and Merge_Sort does so as long as all
   are below its sentinel; with any elements it either reads past a half, or
   sorts, or was given one above the sentinel; and no order of files lets one
   looked for at random be found sooner than Average_Minimum_Query_Time's.   *)
THEOREM SortsStayRight == Arr!Spec => []SortsRight
<1>1. Arr!Init => ArraysInv
  BY DEF Arr!Init, ArraysInv, Called
<1>2. ArraysInv /\ [Arr!Next]_<<sorter, input, output>> => ArraysInv'
  BY ArraysStep
<1>3. ArraysInv => SortsRight
  BY ArraysRight
<1>4. QED
  BY <1>1, <1>2, <1>3, PTL DEF Arr!Spec, Arr!vars

------------------------------------------------------------------------------
(* base64. Three bytes are the four characters' of them.                     *)
Byte == 0 .. 255

Digit == 0 .. 63

Three == Byte \X Byte \X Byte

LEMMA Carried ==
  ASSUME NEW u \in Nat, NEW v \in Nat, NEW c \in {4, 16, 64}, v < c
  PROVE  (u * c + v) \div c = u /\ (u * c + v) % c = v
<1>1. CASE c = 4
  BY <1>1
<1>2. CASE c = 16
  BY <1>2
<1>3. CASE c = 64
  BY <1>3
<1>4. QED
  BY <1>1, <1>2, <1>3

LEMMA Sixteenths ==
  ASSUME NEW y \in 0 .. 255
  PROVE  (y \div 16) * 16 + (y % 16) = y
OBVIOUS

LEMMA FirstByte ==
  ASSUME NEW x \in 0 .. 255, NEW y \in 0 .. 255
  PROVE  (x \div 4) * 4 + ((x % 4) * 16 + (y \div 16)) \div 16 = x
OBVIOUS

LEMMA ThirdByte ==
  ASSUME NEW y \in 0 .. 255, NEW z \in 0 .. 255
  PROVE  (((y % 16) * 4 + z \div 64) % 4) * 64 + (z % 64) = z
OBVIOUS

LEMMA Digits ==
  ASSUME NEW x \in 0 .. 255, NEW y \in 0 .. 255, NEW z \in 0 .. 255
  PROVE  /\ x \div 4 \in Digit /\ (x % 4) * 16 + (y \div 16) \in Digit
         /\ (y % 16) * 4 + z \div 64 \in Digit /\ z % 64 \in Digit
BY DEF Digit

LEMMA ThreeParts ==
  ASSUME NEW d \in Three
  PROVE  \E x, y, z \in 0 .. 255 : d = <<x, y, z>>
<1>1. d[1] \in 0 .. 255 /\ d[2] \in 0 .. 255 /\ d[3] \in 0 .. 255 /\ d = <<d[1], d[2], d[3]>>
  BY DEF Three, Byte
<1>2. QED
  BY <1>1

LEMMA FourDigits ==
  ASSUME NEW d \in Three
  PROVE  b64(d) \in Digit \X Digit \X Digit \X Digit
<1>1. PICK x \in 0 .. 255, y \in 0 .. 255, z \in 0 .. 255 : d = <<x, y, z>>
  BY ThreeParts
<1>2. /\ x \div 4 \in Digit /\ (x % 4) * 16 + (y \div 16) \in Digit
      /\ (y % 16) * 4 + z \div 64 \in Digit /\ z % 64 \in Digit
  BY ONLY x \in 0 .. 255, y \in 0 .. 255, z \in 0 .. 255, Digits
<1>3. d[1] = x /\ d[2] = y /\ d[3] = z
  BY <1>1
<1> HIDE DEF Digit
<1>4. QED
  BY <1>2, <1>3 DEF b64

LEMMA ThreeBytes ==
  ASSUME NEW d \in Three
  PROVE  bytes(b64(d)) = d
<1>1. PICK x \in 0 .. 255, y \in 0 .. 255, z \in 0 .. 255 : d = <<x, y, z>>
  BY ThreeParts
<1>2. (((x % 4) * 16 + (y \div 16)) % 16) * 16 + ((y % 16) * 4 + z \div 64) \div 4 = y
  <2>1. x % 4 \in Nat /\ y \div 16 \in Nat /\ y \div 16 < 16
    OBVIOUS
  <2>2. ((x % 4) * 16 + (y \div 16)) % 16 = y \div 16
    BY ONLY <2>1, Carried
  <2>3. y % 16 \in Nat /\ z \div 64 \in Nat /\ z \div 64 < 4
    OBVIOUS
  <2>4. ((y % 16) * 4 + z \div 64) \div 4 = y % 16
    BY ONLY <2>3, Carried
  <2>5. (y \div 16) * 16 + (y % 16) = y
    BY Sixteenths
  <2>6. QED
    BY ONLY <2>2, <2>4, <2>5
<1>3. /\ (x \div 4) * 4 + ((x % 4) * 16 + (y \div 16)) \div 16 = x
      /\ (((y % 16) * 4 + z \div 64) % 4) * 64 + (z % 64) = z
  BY FirstByte, ThirdByte
<1> DEFINE c == b64(d)
<1>4. d[1] = x /\ d[2] = y /\ d[3] = z
  BY <1>1
<1>5. /\ c[1] = x \div 4 /\ c[2] = (x % 4) * 16 + (y \div 16)
      /\ c[3] = (y % 16) * 4 + z \div 64 /\ c[4] = z % 64
  BY <1>4 DEF b64
<1> HIDE DEF c
<1>6. /\ c[1] * 4 + c[2] \div 16 = x
      /\ (c[2] % 16) * 16 + c[3] \div 4 = y
      /\ (c[3] % 4) * 64 + c[4] = z
  BY ONLY <1>2, <1>3, <1>5
<1>7. QED
  BY <1>1, <1>6 DEF bytes, c

(* What is put in the places of the g-th group: zeros for bytes that are
   lacking, and Equal for characters that hold nothing else.                 *)
at3(data, k) == IF k <= Len(data) THEN data[k] ELSE 0

three(data, g) == <<at3(data, 3 * g - 2), at3(data, 3 * g - 1), at3(data, 3 * g)>>

four(data, g) ==
  [c \in 1 .. 4 |->
     IF c > Len(data) - 3 * g + 4 THEN Equal ELSE b64(three(data, g))[c]]

Groups(data) == (Len(data) + 2) \div 3

LEMMA ThreeAre ==
  ASSUME NEW data \in Seq(Byte), NEW g \in 1 .. Groups(data)
  PROVE  /\ three(data, g) \in Three
         /\ 3 * g - 2 \in 1 .. Len(data)
<1>1. Len(data) \in Nat /\ \A k \in 1 .. Len(data) : data[k] \in Byte
  OBVIOUS
<1>2. 3 * g - 2 \in 1 .. Len(data) /\ 3 * g - 1 \in Nat \ {0} /\ 3 * g \in Nat \ {0}
  BY <1>1 DEF Groups
<1>3. \A k \in Nat \ {0} : at3(data, k) \in Byte
  BY <1>1 DEF at3, Byte
<1>4. QED
  BY <1>2, <1>3 DEF three, Three

LEMMA FourAre ==
  ASSUME NEW data \in Seq(Byte), NEW g \in 1 .. Groups(data)
  PROVE  /\ \A c \in 1 .. 4 : four(data, g)[c] \in Digit \cup {Equal}
         /\ four(data, g)[1] \in Digit /\ four(data, g)[2] \in Digit
         /\ four(data, g)[3] = Equal <=> Len(data) = 3 * g - 2
         /\ four(data, g)[4] = Equal <=> Len(data) < 3 * g
         /\ \A c \in 1 .. 4 : four(data, g)[c] # Equal => four(data, g)[c] = b64(three(data, g))[c]
<1>1. b64(three(data, g)) \in Digit \X Digit \X Digit \X Digit
  BY ThreeAre, FourDigits
<1> DEFINE b == b64(three(data, g))
<1>2. b[1] \in Digit /\ b[2] \in Digit /\ b[3] \in Digit /\ b[4] \in Digit
  BY <1>1
<1> HIDE DEF b
<1>3. Len(data) \in Nat /\ 3 * g - 2 <= Len(data) /\ g \in Nat
  BY ThreeAre
<1>4. \A c \in 1 .. 4 : four(data, g)[c] = IF c > Len(data) - 3 * g + 4 THEN Equal ELSE b[c]
  BY DEF four, b
<1>5. Equal \notin Digit
  BY DEF Equal, Digit
<1>6. \A c \in 1 .. 4 : b[c] \in Digit
  <2>1. \A c \in 1 .. 4 : c = 1 \/ c = 2 \/ c = 3 \/ c = 4
    OBVIOUS
  <2>2. QED
    BY <1>2, <2>1
<1>7. /\ four(data, g)[1] = b[1] /\ four(data, g)[2] = b[2]
      /\ four(data, g)[3] = IF Len(data) = 3 * g - 2 THEN Equal ELSE b[3]
      /\ four(data, g)[4] = IF Len(data) < 3 * g THEN Equal ELSE b[4]
  BY <1>3, <1>4
<1>8. QED
  BY <1>2, <1>4, <1>5, <1>6, <1>7 DEF b

Characters4(s) ==
  /\ s \in Seq(Int) /\ Len(s) \in 4 .. 5
  /\ Len(s) = 5 => s[5] = Unknown

LEMMA SomeOf ==
  ASSUME NEW b \in Seq(Int), Len(b) = 4, NEW m \in 1 .. 2
  PROVE  LET s == SubSeq(b, 1, m + 1) \o (IF m = 1 THEN <<Equal, Equal>> ELSE <<Equal>>)
         IN /\ s \in Seq(Int) /\ Len(s) = 4
            /\ \A c \in 1 .. 4 : s[c] = IF c > m + 1 THEN Equal ELSE b[c]
<1> DEFINE f == SubSeq(b, 1, m + 1)
           e == IF m = 1 THEN <<Equal, Equal>> ELSE <<Equal>>
<1>1. f \in Seq(Int) /\ Len(f) = m + 1 /\ \A c \in 1 .. m + 1 : f[c] = b[c]
  <2>1. PICK x \in Int, y \in Int : x = 1 /\ y = m + 1
    OBVIOUS
  <2>2. \A k \in x .. y : b[k] \in Int
    <3>1. \A k \in 1 .. 4 : b[k] \in Int
      <4>1. \A k \in 1 .. Len(b) : b[k] \in Int
        BY ElementOfSeq
      <4>2. QED
        BY <4>1
    <3>2. \A k \in x .. y : k \in 1 .. 4
      BY <2>1
    <3>3. QED
      BY <3>1, <3>2
  <2>3. /\ SubSeq(b, x, y) \in Seq(Int) /\ Len(SubSeq(b, x, y)) = IF x <= y THEN y - x + 1 ELSE 0
        /\ \A k \in 1 .. y - x + 1 : SubSeq(b, x, y)[k] = b[x + k - 1]
    BY ONLY <2>2, SubSeqProperties
  <2>4. f = SubSeq(b, x, y)
    BY <2>1
  <2> HIDE DEF f
  <2>5. QED
    BY <2>1, <2>3, <2>4
<1>2. e \in Seq(Int) /\ Len(e) = 3 - m /\ \A c \in 1 .. 3 - m : e[c] = Equal
  BY DEF Equal
<1> HIDE DEF f, e
<1>3. /\ f \o e \in Seq(Int) /\ Len(f \o e) = 4
      /\ \A c \in 1 .. 4 : (f \o e)[c] = IF c <= m + 1 THEN f[c] ELSE e[c - (m + 1)]
  <2>1. /\ f \o e \in Seq(Int) /\ Len(f \o e) = Len(f) + Len(e)
        /\ \A c \in 1 .. Len(f) + Len(e) : (f \o e)[c] = IF c <= Len(f) THEN f[c] ELSE e[c - Len(f)]
    BY <1>1, <1>2, ConcatProperties
  <2>2. Len(f) = m + 1 /\ Len(f) + Len(e) = 4
    BY <1>1, <1>2
  <2>3. QED
    BY <2>1, <2>2
<1>4. PICK s : s = f \o e
  OBVIOUS
<1>5. \A c \in 1 .. 4 : s[c] = IF c <= m + 1 THEN f[c] ELSE e[c - (m + 1)]
  BY <1>3, <1>4
<1>6. \A c \in 1 .. 4 : IF c <= m + 1 THEN c \in 1 .. m + 1 ELSE c - (m + 1) \in 1 .. 3 - m
  OBVIOUS
<1>7. \A c \in 1 .. 4 : s[c] = IF c > m + 1 THEN Equal ELSE b[c]
  BY <1>1, <1>2, <1>5, <1>6
<1>8. QED
  BY <1>3, <1>4, <1>7 DEF f, e

LEMMA SameThree ==
  ASSUME NEW v, NEW w, v[1] = w[1], v[2] = w[2], v[3] = w[3]
  PROVE  b64(v) = b64(w)
BY DEF b64

LEMMA GroupIs ==
  ASSUME NEW data \in Seq(Byte), NEW g \in 1 .. Groups(data)
  PROVE  /\ Characters4(group(data, g))
         /\ \A c \in 1 .. 4 : group(data, g)[c] = four(data, g)[c]
<1> DEFINE d == SubSeq(data, 3 * g - 2, Len(data))
           m == Len(data) - 3 * g + 3
           b == b64(three(data, g))
<1>1. Len(data) \in Nat /\ m \in Nat \ {0} /\ g \in Nat \ {0} /\ 3 * g - 2 \in 1 .. Len(data)
  BY ThreeAre
<1>2. /\ Len(d) = m /\ d \in Seq(Byte)
      /\ \A k \in 1 .. m : d[k] = data[3 * g - 3 + k]
  <2>1. PICK x \in Int, y \in Int : x = 3 * g - 2 /\ y = Len(data)
    BY <1>1
  <2>2. \A k \in x .. y : data[k] \in Byte
    BY <1>1, <2>1
  <2>3. /\ SubSeq(data, x, y) \in Seq(Byte) /\ Len(SubSeq(data, x, y)) = IF x <= y THEN y - x + 1 ELSE 0
        /\ \A k \in 1 .. y - x + 1 : SubSeq(data, x, y)[k] = data[x + k - 1]
    BY ONLY <2>2, SubSeqProperties
  <2>4. d = SubSeq(data, x, y)
    BY <2>1
  <2> HIDE DEF d
  <2>5. x <= y /\ y - x + 1 = m /\ \A k \in 1 .. m : x + k - 1 = 3 * g - 3 + k
    BY <1>1, <2>1
  <2>6. QED
    BY <2>3, <2>4, <2>5
<1>3. b \in Digit \X Digit \X Digit \X Digit
  BY ThreeAre, FourDigits
<1>4. b \in Seq(Int) /\ Len(b) = 4
  <2>1. \A x, y, z, w \in Int : <<x, y, z, w>> \in Seq(Int) /\ Len(<<x, y, z, w>>) = 4
    OBVIOUS
  <2>2. b[1] \in Int /\ b[2] \in Int /\ b[3] \in Int /\ b[4] \in Int /\ b = <<b[1], b[2], b[3], b[4]>>
    <3>1. b[1] \in Digit /\ b[2] \in Digit /\ b[3] \in Digit /\ b[4] \in Digit /\ b = <<b[1], b[2], b[3], b[4]>>
      BY <1>3
    <3>2. Digit \subseteq Int
      BY DEF Digit
    <3> HIDE DEF b
    <3>3. b[1] \in Int /\ b[2] \in Int /\ b[3] \in Int /\ b[4] \in Int
      BY <3>1, <3>2
    <3>4. QED
      BY ONLY <3>1, <3>3
  <2> HIDE DEF b
  <2>3. QED
    BY <2>1, <2>2
<1>5. /\ three(data, g)[1] = data[3 * g - 2]
      /\ three(data, g)[2] = IF m > 1 THEN data[3 * g - 1] ELSE 0
      /\ three(data, g)[3] = IF m > 2 THEN data[3 * g] ELSE 0
  BY <1>1 DEF three, at3
<1>6. \A c \in 1 .. 4 : four(data, g)[c] = IF c > m + 1 THEN Equal ELSE b[c]
  BY <1>1 DEF four
<1> HIDE DEF d, b
<1>7. CASE m = 1
  <2>1. (d \o <<0, 0>>)[1] = data[3 * g - 2] /\ (d \o <<0, 0>>)[2] = 0 /\ (d \o <<0, 0>>)[3] = 0
    BY <1>1, <1>2, <1>7
  <2>2. b64(d \o <<0, 0>>) = b
    <3>1. PICK w : w = d \o <<0, 0>>
      OBVIOUS
    <3>2. w[1] = three(data, g)[1] /\ w[2] = three(data, g)[2] /\ w[3] = three(data, g)[3]
      <4>1. w[1] = data[3 * g - 2] /\ w[2] = (IF m > 1 THEN data[3 * g - 1] ELSE 0) /\ w[3] = (IF m > 2 THEN data[3 * g] ELSE 0)
        <5>1. ~ (m > 1) /\ ~ (m > 2)
          BY <1>1, <1>7
        <5>2. QED
          BY ONLY <2>1, <3>1, <5>1
      <4>2. QED
        BY ONLY <1>5, <4>1
    <3>3. QED
      BY ONLY <3>1, <3>2, SameThree DEF b
  <2>3. group(data, g) = SubSeq(b, 1, 2) \o <<Equal, Equal>>
    BY <1>2, <1>7, <2>2 DEF group, d
  <2>4. PICK t \in 1 .. 2 : t = 1
    OBVIOUS
  <2>5. LET s == SubSeq(b, 1, t + 1) \o (IF t = 1 THEN <<Equal, Equal>> ELSE <<Equal>>)
        IN /\ s \in Seq(Int) /\ Len(s) = 4
           /\ \A c \in 1 .. 4 : s[c] = IF c > t + 1 THEN Equal ELSE b[c]
    BY <1>4, SomeOf
  <2>6. t + 1 = 2 /\ m = t
    BY <1>7, <2>4
  <2>7. QED
    BY <1>6, <2>3, <2>4, <2>5, <2>6 DEF Characters4
<1>8. CASE m = 2
  <2>1. (d \o <<0>>)[1] = data[3 * g - 2] /\ (d \o <<0>>)[2] = data[3 * g - 1] /\ (d \o <<0>>)[3] = 0
    BY <1>1, <1>2, <1>8
  <2>2. b64(d \o <<0>>) = b
    <3>1. PICK w : w = d \o <<0>>
      OBVIOUS
    <3>2. w[1] = three(data, g)[1] /\ w[2] = three(data, g)[2] /\ w[3] = three(data, g)[3]
      <4>1. w[1] = data[3 * g - 2] /\ w[2] = (IF m > 1 THEN data[3 * g - 1] ELSE 0) /\ w[3] = (IF m > 2 THEN data[3 * g] ELSE 0)
        <5>1. m > 1 /\ ~ (m > 2)
          BY <1>1, <1>8
        <5>2. QED
          BY ONLY <2>1, <3>1, <5>1
      <4>2. QED
        BY ONLY <1>5, <4>1
    <3>3. QED
      BY ONLY <3>1, <3>2, SameThree DEF b
  <2>3. group(data, g) = SubSeq(b, 1, 3) \o <<Equal>>
    <3>1. Len(d) = 2 /\ Len(d) # 1
      BY <1>2, <1>8
    <3>2. QED
      BY <2>2, <3>1 DEF group, d
  <2>4. PICK t \in 1 .. 2 : t = 2
    OBVIOUS
  <2>5. LET s == SubSeq(b, 1, t + 1) \o (IF t = 1 THEN <<Equal, Equal>> ELSE <<Equal>>)
        IN /\ s \in Seq(Int) /\ Len(s) = 4
           /\ \A c \in 1 .. 4 : s[c] = IF c > t + 1 THEN Equal ELSE b[c]
    BY <1>4, SomeOf
  <2>6. t + 1 = 3 /\ m = t
    BY <1>8, <2>4
  <2>7. QED
    BY <1>6, <2>3, <2>4, <2>5, <2>6 DEF Characters4
<1>9. CASE m > 2
  <2>1. d[1] = data[3 * g - 2] /\ d[2] = data[3 * g - 1] /\ d[3] = data[3 * g]
    BY <1>1, <1>2, <1>9
  <2>2. b64(d) = b
    <3>1. d[1] = three(data, g)[1] /\ d[2] = three(data, g)[2] /\ d[3] = three(data, g)[3]
      <4>1. PICK w : w = d
        OBVIOUS
      <4>2. m > 1 /\ m > 2
        BY <1>1, <1>9
      <4>3. w[1] = data[3 * g - 2] /\ w[2] = (IF m > 1 THEN data[3 * g - 1] ELSE 0) /\ w[3] = (IF m > 2 THEN data[3 * g] ELSE 0)
        BY <2>1, <4>1, <4>2
      <4>4. QED
        BY ONLY <1>5, <4>1, <4>3
    <3>2. QED
      BY ONLY <3>1, SameThree DEF b
  <2> DEFINE line == IF g % LineGroups = 0 THEN <<Unknown>> ELSE <<>>
  <2>3. group(data, g) = b \o line
    <3>1. Len(d) # 1 /\ Len(d) # 2
      BY <1>1, <1>2, <1>9
    <3>2. QED
      BY <2>2, <3>1 DEF group, d
  <2>4. line \in Seq(Int) /\ Len(line) \in 0 .. 1 /\ (Len(line) = 1 => line[1] = Unknown)
    BY DEF Unknown
  <2> HIDE DEF line
  <2>5. /\ b \o line \in Seq(Int) /\ Len(b \o line) = 4 + Len(line)
        /\ \A c \in 1 .. 4 : (b \o line)[c] = b[c]
        /\ Len(line) = 1 => (b \o line)[5] = line[1]
    <3>1. /\ b \o line \in Seq(Int) /\ Len(b \o line) = Len(b) + Len(line)
          /\ \A c \in 1 .. Len(b) + Len(line) : (b \o line)[c] = IF c <= Len(b) THEN b[c] ELSE line[c - Len(b)]
      BY <1>4, <2>4, ConcatProperties
    <3>2. QED
      BY <1>4, <2>4, <3>1
  <2>6. \A c \in 1 .. 4 : four(data, g)[c] = b[c]
    BY <1>1, <1>6, <1>9
  <2>7. Characters4(b \o line)
    <3>1. PICK s : s = b \o line
      OBVIOUS
    <3>2. /\ s \in Seq(Int) /\ Len(s) = 4 + Len(line)
          /\ Len(line) = 1 => s[5] = line[1]
      BY <2>5, <3>1
    <3>3. Len(s) \in 4 .. 5 /\ (Len(s) = 5 => Len(line) = 1)
      <4>1. PICK k \in 0 .. 1 : k = Len(line)
        BY <2>4
      <4>2. Len(s) = 4 + k
        BY <3>2, <4>1
      <4>3. 4 + k \in 4 .. 5 /\ (4 + k = 5 => k = 1)
        OBVIOUS
      <4>4. QED
        BY ONLY <4>1, <4>2, <4>3
    <3>4. Characters4(s)
      BY <2>4, <3>2, <3>3 DEF Characters4
    <3>5. QED
      BY <3>1, <3>4
  <2>8. QED
    BY <2>3, <2>5, <2>6, <2>7
<1>10. QED
  BY <1>1, <1>7, <1>8, <1>9

(* The characters of the first n groups stand in the text, in their order, and
   whatever else does is unknown.                                            *)
Laid(text, data, f, n) ==
  /\ text \in Seq(Int)
  /\ f \in [0 .. 4 * n -> 0 .. Len(text)] /\ f[0] = 0
  /\ \A j, k \in 0 .. 4 * n : j < k => f[j] < f[k]
  /\ \A j \in 1 .. Len(text) : (\A k \in 1 .. 4 * n : f[k] # j) => text[j] = Unknown
  /\ \A g \in 1 .. n, c \in 1 .. 4 : text[f[4 * g - 4 + c]] = four(data, g)[c]

LEMMA NothingLaid ==
  ASSUME NEW data
  PROVE  \E f : Laid(<<>>, data, f, 0)
<1> DEFINE f == [k \in 0 .. 4 * 0 |-> 0]
           text == <<>>
<1>1. text \in Seq(Int) /\ Len(text) = 0
  OBVIOUS
<1>2. f \in [0 .. 4 * 0 -> 0 .. 0] /\ f[0] = 0
  OBVIOUS
<1>3. \A j, k \in 0 .. 4 * 0 : ~ (j < k)
  OBVIOUS
<1> HIDE DEF f, text
<1>4. Laid(text, data, f, 0)
  BY <1>1, <1>2, <1>3 DEF Laid
<1>5. QED
  BY <1>4 DEF text

LEMMA GroupLaid ==
  ASSUME NEW data, NEW n \in Nat, NEW text, NEW f, Laid(text, data, f, n),
         NEW q, Characters4(q), \A c \in 1 .. 4 : q[c] = four(data, n + 1)[c]
  PROVE  text \o q \in Seq(Int) /\ \E e : Laid(text \o q, data, e, n + 1)
<1>0. PICK L \in Nat : L = Len(text)
  BY LenProperties DEF Laid
<1> DEFINE e == [k \in 0 .. 4 * (n + 1) |-> IF k <= 4 * n THEN f[k] ELSE L + k - 4 * n]
<1>1. PICK s : s = text \o q
  OBVIOUS
<1>2. text \in Seq(Int) /\ L \in Nat /\ q \in Seq(Int)
  BY <1>0 DEF Laid, Characters4
<1>3. PICK m \in 4 .. 5 : Len(q) = m /\ (m = 5 => q[5] = Unknown)
  BY DEF Characters4
<1>4. /\ s \in Seq(Int) /\ Len(s) = L + m
      /\ \A j \in 1 .. L + m : s[j] = IF j <= L THEN text[j] ELSE q[j - L]
  <2>1. /\ text \o q \in Seq(Int) /\ Len(text \o q) = Len(text) + Len(q)
        /\ \A j \in 1 .. Len(text) + Len(q) : (text \o q)[j] = IF j <= Len(text) THEN text[j] ELSE q[j - Len(text)]
    BY <1>2, ConcatProperties
  <2>2. QED
    BY ONLY <1>0, <1>1, <1>3, <2>1
<1>5. /\ \A k \in 0 .. 4 * n : f[k] \in 0 .. L
      /\ f[0] = 0
      /\ \A j, k \in 0 .. 4 * n : j < k => f[j] < f[k]
      /\ \A j \in 1 .. L : (\A k \in 1 .. 4 * n : f[k] # j) => text[j] = Unknown
      /\ \A g \in 1 .. n, c \in 1 .. 4 : text[f[4 * g - 4 + c]] = four(data, g)[c]
  BY <1>0 DEF Laid
<1>6. /\ \A k \in 0 .. 4 * n : k \in 0 .. 4 * (n + 1) /\ e[k] = f[k]
      /\ \A k \in 4 * n + 1 .. 4 * n + 4 : k \in 0 .. 4 * (n + 1) /\ e[k] = L + k - 4 * n
      /\ \A k \in 0 .. 4 * (n + 1) : k \in 0 .. 4 * n \/ k \in 4 * n + 1 .. 4 * n + 4
      /\ DOMAIN e = 0 .. 4 * (n + 1) /\ e = [k \in 0 .. 4 * (n + 1) |-> e[k]]
  OBVIOUS
<1> HIDE DEF e
<1>7. \A k \in 0 .. 4 * (n + 1) : e[k] \in 0 .. L + m
  <2>1. ASSUME NEW k \in 0 .. 4 * n PROVE e[k] \in 0 .. L + m
    <3>1. PICK v \in 0 .. L : v = f[k]
      BY <1>5
    <3>2. v \in 0 .. L + m
      OBVIOUS
    <3>3. e[k] = v
      BY <1>6, <3>1
    <3>4. QED
      BY ONLY <3>2, <3>3
  <2>2. ASSUME NEW k \in 4 * n + 1 .. 4 * n + 4 PROVE e[k] \in 0 .. L + m
    <3>1. L + k - 4 * n \in 0 .. L + m
      OBVIOUS
    <3>2. e[k] = L + k - 4 * n
      BY <1>6
    <3>3. QED
      BY ONLY <3>1, <3>2
  <2>3. QED
    BY <1>6, <2>1, <2>2
<1>8. e \in [0 .. 4 * (n + 1) -> 0 .. L + m]
  <2>1. e = [k \in 0 .. 4 * (n + 1) |-> e[k]]
    BY <1>6
  <2>2. QED
    BY <1>7, <2>1
<1>9. e[0] = 0
  <2>1. 0 \in 0 .. 4 * n
    OBVIOUS
  <2>2. QED
    BY <1>5, <1>6, <2>1
<1>10. ASSUME NEW j \in 0 .. 4 * (n + 1), NEW k \in 0 .. 4 * (n + 1), j < k PROVE e[j] < e[k]
  <2>1. CASE k \in 0 .. 4 * n
    <3>1. j \in 0 .. 4 * n
      BY <1>10, <2>1
    <3>2. QED
      BY <1>5, <1>6, <1>10, <2>1, <3>1
  <2>2. CASE k \in 4 * n + 1 .. 4 * n + 4 /\ j \in 0 .. 4 * n
    <3>1. f[j] \in 0 .. L /\ e[j] = f[j] /\ e[k] = L + k - 4 * n
      BY <1>5, <1>6, <2>2
    <3>2. L < L + k - 4 * n
      BY <1>2, <2>2
    <3>3. QED
      BY <1>2, <3>1, <3>2
  <2>3. CASE k \in 4 * n + 1 .. 4 * n + 4 /\ j \in 4 * n + 1 .. 4 * n + 4
    <3>1. e[j] = L + j - 4 * n /\ e[k] = L + k - 4 * n
      BY <1>6, <2>3
    <3>2. QED
      BY <1>2, <1>10, <3>1
  <2>4. QED
    BY <1>6, <2>1, <2>2, <2>3
<1>11. ASSUME NEW j \in 1 .. L + m, \A k \in 1 .. 4 * (n + 1) : e[k] # j PROVE s[j] = Unknown
  <2>1. CASE j <= L
    <3>1. ASSUME NEW k \in 1 .. 4 * n PROVE f[k] # j
      <4>1. k \in 0 .. 4 * n /\ k \in 1 .. 4 * (n + 1)
        OBVIOUS
      <4>2. QED
        BY <1>6, <1>11, <4>1
    <3>2. j \in 1 .. L
      BY <1>2, <2>1
    <3>3. QED
      BY <1>4, <1>5, <2>1, <3>1, <3>2
  <2>2. CASE ~ (j <= L)
    <3>1. PICK c \in 1 .. 5 : c = j - L /\ c <= m
      BY <1>2, <2>2
    <3>2. c = 5
      <4>1. SUFFICES ASSUME c \in 1 .. 4 PROVE FALSE
        OBVIOUS
      <4>2. PICK k \in 4 * n + 1 .. 4 * n + 4 : k = 4 * n + c
        BY <4>1
      <4>3. k \in 1 .. 4 * (n + 1) /\ L + k - 4 * n = j
        BY <1>2, <3>1, <4>1, <4>2
      <4>4. e[k] = j
        BY <1>6, <4>3
      <4>5. QED
        BY <1>11, <4>3, <4>4
    <3>3. m = 5
      BY <3>1, <3>2
    <3>4. s[j] = q[c]
      BY <1>4, <2>2, <3>1
    <3>5. QED
      BY <1>3, <3>2, <3>3, <3>4
  <2>3. QED
    BY <2>1, <2>2
<1>12. ASSUME NEW g \in 1 .. n + 1, NEW c \in 1 .. 4 PROVE s[e[4 * g - 4 + c]] = four(data, g)[c]
  <2>1. CASE g \in 1 .. n
    <3>1. PICK k \in 1 .. 4 * n : k = 4 * g - 4 + c
      BY <2>1
    <3>2. k \in 0 .. 4 * n /\ 0 \in 0 .. 4 * n /\ 0 < k
      OBVIOUS
    <3>3. e[k] = f[k] /\ f[k] \in 0 .. L /\ f[0] < f[k]
      BY <1>5, <1>6, <3>2
    <3>4. PICK v \in 1 .. L : v = f[k]
      BY <1>5, <3>3
    <3>5. v \in 1 .. L + m /\ v <= L
      OBVIOUS
    <3>8. s[v] = text[v]
      BY <1>4, <3>5
    <3>6. text[f[k]] = four(data, g)[c]
      BY <1>5, <2>1, <3>1
    <3>7. QED
      BY <3>1, <3>3, <3>4, <3>6, <3>8
  <2>2. CASE g = n + 1
    <3>1. PICK k \in 4 * n + 1 .. 4 * n + 4 : k = 4 * g - 4 + c /\ k - 4 * n = c
      BY <2>2
    <3>2. e[k] = L + c
      <4>1. L + k - 4 * n = L + c
        BY <1>2, <3>1
      <4>2. QED
        BY <1>6, <4>1
    <3>3. PICK w \in 1 .. L + m : w = L + c /\ ~ (w <= L) /\ w - L = c
      <4>1. L \in Nat /\ m \in 4 .. 5 /\ c \in 1 .. 4
        OBVIOUS
      <4>2. L + c \in 1 .. L + m /\ ~ (L + c <= L) /\ L + c - L = c
        BY ONLY <4>1
      <4>3. QED
        BY <4>2
    <3>4. s[w] = q[c]
      BY <1>4, <3>3
    <3>5. QED
      BY <1>12, <2>2, <3>1, <3>2, <3>3, <3>4
  <2>3. QED
    BY <2>1, <2>2
<1>13. Laid(s, data, e, n + 1)
  <2>1. PICK w \in Nat : w = L + m
    BY <1>2
  <2>2. Len(s) = w
    BY <1>4, <2>1
  <2>3. QED
    BY <1>4, <1>8, <1>9, <1>10, <1>11, <1>12, <2>1, <2>2 DEF Laid
<1>14. QED
  BY <1>1, <1>4, <1>13

(* What put writes: the groups, one after the other.                         *)
LEMMA PutIsLaid ==
  ASSUME NEW data \in Seq(Byte)
  PROVE  \E f : Laid(put(data), data, f, Groups(data))
<1> DEFINE n == Groups(data)
           s == [g \in 1 .. (Len(data) + 2) \div 3 |-> group(data, g)]
           F == [t \in 1 .. n |-> [b \in Seq(Int) |-> b \o s[t]]]
           G == [t \in 1 .. n |-> {b \in Seq(Int) : \E f : Laid(b, data, f, t)}]
           loop(c) == [t \in 1 .. n |-> IF t = 1 THEN s[t] ELSE c[t - 1] \o s[t]]
           c0 == CHOOSE c : c = loop(c)
<1>1. n \in Nat /\ (Len(data) + 2) \div 3 = n
  <2>1. Len(data) \in Nat
    OBVIOUS
  <2>2. QED
    BY <2>1 DEF Groups
<1>2. s = [g \in 1 .. n |-> group(data, g)]
  BY <1>1
<1>3. \A g \in 1 .. n : Characters4(s[g]) /\ \A c \in 1 .. 4 : s[g][c] = four(data, g)[c]
  <2>1. \A g \in 1 .. n : s[g] = group(data, g)
    BY <1>2
  <2> HIDE DEF s
  <2>2. QED
    BY <2>1, GroupIs
<1>4. put(data) = FlattenSeq(s)
  BY DEF put
<1> HIDE DEF n
<1>5. Len(s) = n
  <2>1. \A g \in 1 .. n : s[g] \in Seq(Int)
    <3> HIDE DEF s
    <3>1. QED
      BY <1>3 DEF Characters4
  <2>2. s = [g \in 1 .. n |-> s[g]]
    BY <1>2
  <2> HIDE DEF s
  <2>3. s \in [1 .. n -> Seq(Int)]
    BY <2>1, <2>2
  <2>4. QED
    BY <1>1, <2>3, LenProperties
<1>6. CASE n = 0
  <2>1. put(data) = <<>>
    <3>1. s = <<>>
      BY <1>2, <1>6
    <3> HIDE DEF s
    <3>2. FlattenSeq(s) = s
      BY <1>5, <1>6 DEF FlattenSeq
    <3>3. QED
      BY <1>4, <3>1, <3>2
  <2>2. QED
    BY <1>6, <2>1, NothingLaid DEF n
<1>7. CASE n # 0
  <2>1. 1 \in 1 .. n /\ n \in 1 .. n /\ 1 \in Int /\ n \in Int /\ 1 <= n
    BY <1>1, <1>7
  <2>2. \A t \in 1 + 1 .. n : t \in 1 .. n /\ t - 1 \in 1 .. n /\ t # 1
    BY <1>1
  <2>3. FlattenSeq(s) = c0[n]
    <3> HIDE DEF s
    <3>1. QED
      BY <1>5, <1>7 DEF FlattenSeq
  <2>4. s[1] \in G[1]
    <3> HIDE DEF s
    <3>1. Characters4(s[1]) /\ \A c \in 1 .. 4 : s[1][c] = four(data, 0 + 1)[c]
      <4>1. 0 + 1 = 1
        OBVIOUS
      <4>2. QED
        BY <1>3, <2>1, <4>1
    <3>2. PICK q, f : q = s[1] /\ Laid(<<>>, data, f, 0)
      BY NothingLaid
    <3>3. <<>> \o q \in Seq(Int) /\ \E e : Laid(<<>> \o q, data, e, 0 + 1)
      <4>1. 0 \in Nat /\ Characters4(q) /\ \A c \in 1 .. 4 : q[c] = four(data, 0 + 1)[c]
        BY <3>1, <3>2
      <4>2. QED
        BY ONLY <3>2, <4>1, GroupLaid
    <3>4. q \in Seq(Int)
      BY <3>1, <3>2 DEF Characters4
    <3>5. <<>> \o q = q
      BY ONLY <3>4, ConcatEmptySeq
    <3>6. q \in Seq(Int) /\ \E e : Laid(q, data, e, 1)
      <4>1. 0 + 1 = 1
        OBVIOUS
      <4>2. QED
        BY ONLY <3>3, <3>5, <4>1
    <3>7. QED
      BY <2>1, <3>2, <3>6
  <2>5. ASSUME NEW t \in 1 + 1 .. n, NEW b \in G[t - 1]
        PROVE  b \in Seq(Int) /\ b \o s[t] \in G[t]
    <3>1. b \in Seq(Int) /\ \E f : Laid(b, data, f, t - 1)
      BY <2>2
    <3>2. PICK f : Laid(b, data, f, t - 1)
      BY <3>1
    <3>12. PICK m \in Nat : m = t - 1
      BY <1>1
    <3>3. PICK q : q = s[t] /\ m = t - 1 /\ m \in Nat
      BY <3>12
    <3> HIDE DEF s, G
    <3>4. m + 1 = t
      BY <3>3
    <3>5. Characters4(q) /\ \A c \in 1 .. 4 : q[c] = four(data, m + 1)[c]
      BY <1>3, <2>2, <3>3, <3>4
    <3>6. Laid(b, data, f, m)
      BY <3>2, <3>3
    <3>7. b \o q \in Seq(Int) /\ \E e : Laid(b \o q, data, e, m + 1)
      BY ONLY <3>3, <3>5, <3>6, GroupLaid
    <3>8. PICK r : r = b \o q
      OBVIOUS
    <3>9. r \in Seq(Int) /\ \E e : Laid(r, data, e, t)
      BY ONLY <3>4, <3>7, <3>8
    <3>10. r \in G[t]
      BY <2>2, <3>9 DEF G
    <3>11. QED
      BY <3>1, <3>3, <3>8, <3>10
  <2>6. \A t \in 1 + 1 .. n, b \in Seq(Int) : F[t][b] = b \o s[t]
    <3> HIDE DEF s
    <3>1. QED
      BY <2>2
  <2>7. PICK u : Upwards(u, 1, n, s[1], F) /\ \A t \in 1 .. n : u[t] \in G[t]
    <3>1. \A t \in 1 + 1 .. n : \A b \in G[t - 1] : F[t][b] \in G[t]
      <4> HIDE DEF F, G, s
      <4>1. QED
        BY <2>5, <2>6
    <3> HIDE DEF F, G, s
    <3>2. QED
      BY ONLY <2>1, <2>4, <3>1, UpwardsRun
  <2>8. u = loop(u)
    <3>1. u = [t \in 1 .. n |-> IF t = 1 THEN s[1] ELSE F[t][u[t - 1]]]
      <4> HIDE DEF F, s
      <4>1. QED
        BY <2>7 DEF Upwards
    <3>2. \A t \in 1 + 1 .. n : F[t][u[t - 1]] = u[t - 1] \o s[t]
      <4> HIDE DEF F, G, s
      <4>1. QED
        BY <2>2, <2>5, <2>6, <2>7
    <3>3. \A t \in 1 .. n : t = 1 \/ t \in 1 + 1 .. n
      BY <1>1
    <3> HIDE DEF F, s
    <3>4. QED
      BY <3>1, <3>2, <3>3
  <2>9. c0 = loop(c0)
    <3> HIDE DEF loop
    <3>1. QED
      BY <2>8
  <2>10. \A t \in 1 .. n : c0[t] = IF t = 1 THEN s[t] ELSE c0[t - 1] \o s[t]
    <3> HIDE DEF c0, s
    <3>1. QED
      BY <2>9
  <2>11. \A t \in 1 .. n : c0[t] \in G[t]
    <3> HIDE DEF c0, G, s
    <3>1. c0[1] \in G[1]
      BY <2>1, <2>4, <2>10
    <3>2. \A t \in 1 + 1 .. n : c0[t - 1] \in G[t - 1] => c0[t] \in G[t]
      BY <2>2, <2>5, <2>10
    <3>3. QED
      BY ONLY <2>1, <3>1, <3>2, StaysUpwards
  <2>12. c0[n] \in G[n]
    BY <2>1, <2>11
  <2> HIDE DEF c0, s
  <2>13. \E f : Laid(c0[n], data, f, n)
    BY <2>1, <2>12
  <2>14. QED
    BY <1>4, <2>3, <2>13 DEF n
<1>8. QED
  BY <1>6, <1>7

(* A text that has all of s's characters in their order, and what is not known
   anywhere between them: s broken into lines in some other way.             *)
Broken(s, text) ==
  \E h \in [1 .. Len(s) -> 1 .. Len(text)] :
    /\ \A j, k \in 1 .. Len(s) : j < k => h[j] < h[k]
    /\ \A k \in 1 .. Len(s) : text[h[k]] = s[k]
    /\ \A j \in 1 .. Len(text) : (\A k \in 1 .. Len(s) : h[k] # j) => text[j] = Unknown

LEMMA NotBroken ==
  ASSUME NEW s \in Seq(Int)
  PROVE  Broken(s, s)
<1> DEFINE h == [k \in 1 .. Len(s) |-> k]
<1>1. h \in [1 .. Len(s) -> 1 .. Len(s)] /\ \A k \in 1 .. Len(s) : h[k] = k
  OBVIOUS
<1> HIDE DEF h
<1>2. QED
  BY <1>1 DEF Broken

LEMMA LaidWherever ==
  ASSUME NEW data, NEW n \in Nat, NEW s, NEW f, Laid(s, data, f, n),
         NEW text \in Seq(Int), Broken(s, text)
  PROVE  \E e : Laid(text, data, e, n)
<1>1. PICK h \in [1 .. Len(s) -> 1 .. Len(text)] :
        /\ \A j, k \in 1 .. Len(s) : j < k => h[j] < h[k]
        /\ \A k \in 1 .. Len(s) : text[h[k]] = s[k]
        /\ \A j \in 1 .. Len(text) : (\A k \in 1 .. Len(s) : h[k] # j) => text[j] = Unknown
  BY DEF Broken
<1>2. PICK L \in Nat, m \in Nat : L = Len(s) /\ m = Len(text)
  BY LenProperties DEF Laid
<1>3. /\ \A k \in 0 .. 4 * n : f[k] \in 0 .. L
      /\ f[0] = 0
      /\ \A j, k \in 0 .. 4 * n : j < k => f[j] < f[k]
      /\ \A j \in 1 .. L : (\A k \in 1 .. 4 * n : f[k] # j) => s[j] = Unknown
      /\ \A g \in 1 .. n, c \in 1 .. 4 : s[f[4 * g - 4 + c]] = four(data, g)[c]
  BY <1>2 DEF Laid
<1>4. /\ \A k \in 1 .. L : h[k] \in 1 .. m
      /\ \A j, k \in 1 .. L : j < k => h[j] < h[k]
      /\ \A k \in 1 .. L : text[h[k]] = s[k]
      /\ \A j \in 1 .. m : (\A k \in 1 .. L : h[k] # j) => text[j] = Unknown
  BY <1>1, <1>2
<1> DEFINE e == [k \in 0 .. 4 * n |-> IF k = 0 THEN 0 ELSE h[f[k]]]
<1>5. 0 \in 0 .. 4 * n /\ \A k \in 1 .. 4 * n : k \in 0 .. 4 * n /\ k # 0
  OBVIOUS
<1>6. /\ e[0] = 0 /\ \A k \in 1 .. 4 * n : e[k] = h[f[k]]
      /\ e = [k \in 0 .. 4 * n |-> e[k]]
  BY <1>5
<1> HIDE DEF e
<1>7. ASSUME NEW k \in 1 .. 4 * n PROVE f[k] \in 1 .. L
  <2>1. f[0] < f[k]
    BY <1>3, <1>5
  <2>2. f[k] \in 0 .. L
    BY <1>3, <1>5
  <2>3. QED
    BY <1>3, <2>1, <2>2
<1>8. ASSUME NEW k \in 0 .. 4 * n PROVE e[k] \in 0 .. m
  <2>1. CASE k = 0
    BY <1>6, <2>1
  <2>2. CASE k \in 1 .. 4 * n
    <3>1. e[k] \in 1 .. m
      BY <1>4, <1>6, <1>7, <2>2
    <3>2. QED
      BY <3>1
  <2>3. QED
    BY <2>1, <2>2
<1>9. e \in [0 .. 4 * n -> 0 .. m]
  BY <1>6, <1>8
<1>10. ASSUME NEW j \in 0 .. 4 * n, NEW k \in 0 .. 4 * n, j < k PROVE e[j] < e[k]
  <2>1. k \in 1 .. 4 * n
    BY <1>10
  <2>2. CASE j = 0
    <3>1. e[k] \in 1 .. m
      BY <1>4, <1>6, <1>7, <2>1
    <3>2. QED
      BY <1>6, <2>2, <3>1
  <2>3. CASE j \in 1 .. 4 * n
    <3>1. f[j] < f[k] /\ f[j] \in 1 .. L /\ f[k] \in 1 .. L
      BY <1>3, <1>7, <1>10, <2>1, <2>3
    <3>2. h[f[j]] < h[f[k]]
      BY <1>4, <3>1
    <3>3. QED
      BY <1>6, <2>1, <2>3, <3>2
  <2>4. QED
    BY <2>2, <2>3
<1>11. ASSUME NEW j \in 1 .. m, \A k \in 1 .. 4 * n : e[k] # j PROVE text[j] = Unknown
  <2>1. CASE \A k \in 1 .. L : h[k] # j
    BY <1>4, <2>1
  <2>2. CASE ~ \A k \in 1 .. L : h[k] # j
    <3>1. PICK w \in 1 .. L : h[w] = j
      BY <2>2
    <3>2. \A k \in 1 .. 4 * n : f[k] # w
      BY <1>6, <1>11, <3>1
    <3>3. s[w] = Unknown
      BY <1>3, <3>2
    <3>4. QED
      BY <1>4, <3>1, <3>3
  <2>3. QED
    BY <2>1, <2>2
<1>12. ASSUME NEW g \in 1 .. n, NEW c \in 1 .. 4 PROVE text[e[4 * g - 4 + c]] = four(data, g)[c]
  <2>1. PICK k \in 1 .. 4 * n : k = 4 * g - 4 + c
    OBVIOUS
  <2>2. e[k] = h[f[k]] /\ f[k] \in 1 .. L
    BY <1>6, <1>7
  <2>3. text[h[f[k]]] = s[f[k]]
    BY <1>4, <2>2
  <2>4. s[f[k]] = four(data, g)[c]
    BY <1>3, <2>1
  <2>5. QED
    BY <2>1, <2>2, <2>3, <2>4
<1>13. Laid(text, data, e, n)
  BY <1>2, <1>6, <1>9, <1>10, <1>11, <1>12 DEF Laid
<1>14. QED
  BY <1>13

(* The next place that is known.                                             *)
LEMMA KnownNext ==
  ASSUME NEW text \in Seq(Int), NEW lo \in Nat \ {0}, NEW j \in lo .. Len(text), text[j] # Unknown,
         \A k \in lo .. j - 1 : text[k] = Unknown
  PROVE  known(text, lo) = j
<1>1. PICK L \in Nat : L = Len(text)
  BY LenProperties
<1> DEFINE S == {k \in lo .. Len(text) : text[k] # Unknown}
           least == CHOOSE x \in S : \A y \in S : x =< y
<1>2. j \in S /\ S # {} /\ S \subseteq Nat
  BY <1>1
<1>3. \A y \in S : j <= y
  <2>1. ASSUME NEW y \in S PROVE j <= y
    <3>1. y \in lo .. L /\ text[y] # Unknown /\ j \in lo .. L
      BY <1>1
    <3>2. y \notin lo .. j - 1
      BY <3>1
    <3>3. QED
      BY <3>1, <3>2
  <2>2. QED
    BY <2>1
<1>4. known(text, lo) = IF least = 0 THEN Len(text) + 1 ELSE least
  BY <1>2 DEF known, SelectInSubSeq, Min
<1> HIDE DEF S
<1>5. least \in S /\ \A y \in S : least <= y
  BY <1>2, <1>3
<1> HIDE DEF least
<1>6. least <= j /\ j <= least /\ least \in Nat /\ j \in Nat
  BY <1>2, <1>3, <1>5
<1>7. least = j /\ j # 0
  BY <1>1, <1>6
<1>8. QED
  BY <1>4, <1>7

LEMMA NoneKnown ==
  ASSUME NEW text \in Seq(Int), NEW lo \in Nat \ {0}, \A k \in lo .. Len(text) : text[k] = Unknown
  PROVE  known(text, lo) = Len(text) + 1
<1>1. {k \in lo .. Len(text) : text[k] # Unknown} = {}
  OBVIOUS
<1>2. QED
  BY <1>1 DEF known, SelectInSubSeq

LEMMA InFours ==
  ASSUME NEW k \in Nat
  PROVE  \E u \in Nat, b \in 0 .. 3 : k = 4 * u + b
<1>1. k \div 4 \in Nat /\ k % 4 \in 0 .. 3 /\ k = 4 * (k \div 4) + (k % 4)
  OBVIOUS
<1>2. QED
  BY <1>1

LEMMA LaidKnown ==
  ASSUME NEW data \in Seq(Byte), NEW text, NEW f, Laid(text, data, f, Groups(data)),
         NEW k \in 0 .. 4 * Groups(data)
  PROVE  known(text, f[k] + 1) = IF k < 4 * Groups(data) THEN f[k + 1] ELSE Len(text) + 1
<1>1. PICK L \in Nat : L = Len(text)
  BY LenProperties DEF Laid
<1>2. PICK n \in Nat : n = Groups(data)
  <2>1. Len(data) \in Nat
    OBVIOUS
  <2>2. QED
    BY <2>1 DEF Groups
<1>3. /\ \A j \in 0 .. 4 * n : f[j] \in 0 .. L
      /\ f[0] = 0 /\ text \in Seq(Int)
      /\ \A j, m \in 0 .. 4 * n : j < m => f[j] < f[m]
      /\ \A j \in 1 .. L : (\A m \in 1 .. 4 * n : f[m] # j) => text[j] = Unknown
      /\ \A g \in 1 .. n, c \in 1 .. 4 : text[f[4 * g - 4 + c]] = four(data, g)[c]
  BY <1>1, <1>2 DEF Laid
<1>4. k \in 0 .. 4 * n
  BY <1>2
<1>5. PICK v \in 0 .. L : v = f[k]
  BY <1>3, <1>4
<1>6. CASE k < 4 * n
  <2>1. k + 1 \in 0 .. 4 * n /\ k < k + 1
    BY <1>4, <1>6
  <2>2. PICK w \in 0 .. L : w = f[k + 1]
    BY <1>3, <2>1
  <2>3. v < w
    BY <1>3, <1>4, <1>5, <2>1, <2>2
  <2>4. text[w] # Unknown
    <3>1. PICK g \in 1 .. n, c \in 1 .. 4 : k + 1 = 4 * g - 4 + c
      <4>1. k \in Nat
        BY <1>4
      <4>2. PICK u \in Nat, b \in 0 .. 3 : k = 4 * u + b
        BY ONLY <4>1, InFours
      <4>3. u + 1 \in 1 .. n /\ b + 1 \in 1 .. 4 /\ k + 1 = 4 * (u + 1) - 4 + (b + 1)
        BY <1>6, <4>2
      <4>4. QED
        BY ONLY <4>3
    <3>2. text[w] = four(data, g)[c]
      BY <1>3, <2>2, <3>1
    <3>3. four(data, g)[c] \in Digit \cup {Equal}
      BY <1>2, FourAre
    <3>4. Unknown \notin Digit \cup {Equal}
      BY DEF Digit, Equal, Unknown
    <3>5. QED
      BY ONLY <3>2, <3>3, <3>4
  <2>5. ASSUME NEW j \in v + 1 .. w - 1 PROVE text[j] = Unknown
    <3>1. ASSUME NEW m \in 1 .. 4 * n PROVE f[m] # j
      <4>1. CASE m <= k
        <5>1. m \in 0 .. 4 * n /\ (m = k \/ m < k)
          BY <4>1, <1>4
        <5>2. f[m] <= v /\ f[m] \in Int
          BY <1>3, <1>4, <1>5, <5>1
        <5>3. QED
          BY <5>2
      <4>2. CASE ~ (m <= k)
        <5>1. m \in 0 .. 4 * n /\ (m = k + 1 \/ k + 1 < m)
          BY <4>2, <1>4
        <5>2. w <= f[m] /\ f[m] \in Int
          BY <1>3, <2>1, <2>2, <5>1
        <5>3. QED
          BY <5>2
      <4>3. QED
        BY <4>1, <4>2
    <3>2. j \in 1 .. L
      OBVIOUS
    <3>3. QED
      BY <1>3, <3>1, <3>2
  <2>6. known(text, v + 1) = w
    <3>1. v + 1 \in Nat \ {0} /\ w \in v + 1 .. Len(text)
      BY <1>1, <2>3
    <3>2. \A j \in v + 1 .. w - 1 : text[j] = Unknown
      BY <2>5
    <3>3. PICK lo : lo = v + 1
      OBVIOUS
    <3>4. lo \in Nat \ {0} /\ w \in lo .. Len(text) /\ \A j \in lo .. w - 1 : text[j] = Unknown
      BY ONLY <3>1, <3>2, <3>3
    <3>5. known(text, lo) = w
      BY ONLY <1>3, <2>4, <3>4, KnownNext
    <3>6. QED
      BY <3>3, <3>5
  <2>7. QED
    BY <1>2, <1>5, <1>6, <2>2, <2>6
<1>7. CASE ~ (k < 4 * n)
  <2>1. k = 4 * n
    BY <1>4, <1>7
  <2>2. ASSUME NEW j \in v + 1 .. L PROVE text[j] = Unknown
    <3>1. ASSUME NEW m \in 1 .. 4 * n PROVE f[m] # j
      <4>1. m \in 0 .. 4 * n /\ (m = k \/ m < k)
        BY <2>1
      <4>2. f[m] <= v /\ f[m] \in Int
        BY <1>3, <1>4, <1>5, <4>1
      <4>3. QED
        BY <4>2
    <3>2. j \in 1 .. L
      OBVIOUS
    <3>3. QED
      BY <1>3, <3>1, <3>2
  <2>3. known(text, v + 1) = Len(text) + 1
    <3>1. PICK lo : lo = v + 1
      OBVIOUS
    <3>2. lo \in Nat \ {0} /\ \A j \in lo .. Len(text) : text[j] = Unknown
      BY <1>1, <2>2, <3>1
    <3>3. known(text, lo) = Len(text) + 1
      BY ONLY <1>3, <3>2, NoneKnown
    <3>4. QED
      BY <3>1, <3>3
  <2>4. QED
    BY <1>2, <1>5, <1>7, <2>3
<1>8. QED
  BY <1>6, <1>7

(* A turn of get's loop.                                                     *)
Read == [data : Seq(Byte), i : Int]

turn(text, q) ==
  LET ended(r) == [r EXCEPT !.i = 0]
      p1 == known(text, q.i)
      p2 == known(text, p1 + 1)
      p3 == known(text, p2 + 1)
      p4 == known(text, p3 + 1)
  IN IF q.i = 0 THEN q
     ELSE IF p3 > Len(text) \/ text[p1] = Equal \/ text[p2] = Equal THEN ended(q)
     ELSE IF text[p3] = Equal THEN
       [data |-> q.data \o SubSeq(bytes(<<text[p1], text[p2], 0, 0>>), 1, 1), i |-> 0]
     ELSE IF p4 > Len(text) THEN ended(q)
     ELSE IF text[p4] = Equal THEN
       [data |-> q.data \o SubSeq(bytes(<<text[p1], text[p2], text[p3], 0>>), 1, 2), i |-> 0]
     ELSE [data |-> q.data \o bytes(<<text[p1], text[p2], text[p3], text[p4]>>), i |-> p4 + 1]

(* What is read of the data after m turns: the first m groups, or all.       *)
Got(data, f, m, q) ==
  LET n == Groups(data)
  IN /\ q \in Read
     /\ \/ m < n /\ q.data = SubSeq(data, 1, 3 * m) /\ q.i = f[4 * m] + 1
        \/ m >= n /\ q.data = data /\ q.i \in {0, f[4 * n] + 1}

(* The bytes of the next group are added to those that were read.            *)
LEMMA Longer ==
  ASSUME NEW data \in Seq(Byte), NEW m \in Nat, NEW w \in Nat, m <= w, w <= Len(data),
         NEW d \in Seq(Byte), Len(d) = w - m, \A k \in 1 .. w - m : d[k] = data[m + k]
  PROVE  SubSeq(data, 1, m) \o d = SubSeq(data, 1, w)
<1>1. PICK L \in Nat : L = Len(data)
  BY LenProperties
<1>2. \A k \in 1 .. L : data[k] \in Byte
  BY <1>1, ElementOfSeq
<1>3. ASSUME NEW v \in Nat, v <= L
      PROVE  /\ SubSeq(data, 1, v) \in Seq(Byte) /\ Len(SubSeq(data, 1, v)) = v
             /\ \A k \in 1 .. v : SubSeq(data, 1, v)[k] = data[k]
  <2>1. PICK x \in Int, y \in Int : x = 1 /\ y = v
    OBVIOUS
  <2>2. \A k \in x .. y : data[k] \in Byte
    BY <1>2, <1>3, <2>1
  <2>3. /\ SubSeq(data, x, y) \in Seq(Byte) /\ Len(SubSeq(data, x, y)) = IF x <= y THEN y - x + 1 ELSE 0
        /\ \A k \in 1 .. y - x + 1 : SubSeq(data, x, y)[k] = data[x + k - 1]
    BY ONLY <2>2, SubSeqProperties
  <2>4. PICK s : s = SubSeq(data, x, y)
    OBVIOUS
  <2>5. y - x + 1 = v /\ (x <= y \/ v = 0) /\ \A k \in 1 .. v : x + k - 1 = k
    BY <2>1
  <2>6. Len(s) = v /\ s \in Seq(Byte) /\ \A k \in 1 .. v : s[k] = data[k]
    <3>1. (IF x <= y THEN y - x + 1 ELSE 0) = v
      BY <2>1, <2>5
    <3>2. \A k \in 1 .. v : s[k] = data[x + k - 1]
      BY <2>3, <2>4, <2>5
    <3>3. QED
      BY <2>3, <2>4, <2>5, <3>1, <3>2
  <2>7. SubSeq(data, 1, v) = s
    BY ONLY <2>1, <2>4
  <2>8. QED
    BY ONLY <2>6, <2>7
<1>4. PICK a, b : a = SubSeq(data, 1, m) /\ b = SubSeq(data, 1, w)
  OBVIOUS
<1>5. /\ a \in Seq(Byte) /\ Len(a) = m /\ \A k \in 1 .. m : a[k] = data[k]
      /\ b \in Seq(Byte) /\ Len(b) = w /\ \A k \in 1 .. w : b[k] = data[k]
  <2>1. m <= L /\ w <= L
    BY <1>1
  <2>2. QED
    BY ONLY <1>3, <1>4, <2>1, m \in Nat, w \in Nat
<1>6. /\ a \o d \in Seq(Byte) /\ Len(a \o d) = Len(a) + Len(d)
      /\ \A k \in 1 .. Len(a) + Len(d) : (a \o d)[k] = IF k <= Len(a) THEN a[k] ELSE d[k - Len(a)]
  BY <1>5, ConcatProperties
<1>7. PICK s : s = a \o d
  OBVIOUS
<1>8. /\ s \in Seq(Byte) /\ Len(s) = w
      /\ \A k \in 1 .. w : s[k] = IF k <= m THEN a[k] ELSE d[k - m]
  <2>1. Len(a) + Len(d) = w
    BY <1>5
  <2>2. QED
    BY ONLY <1>5, <1>6, <1>7, <2>1
<1>9. ASSUME NEW k \in 1 .. w PROVE s[k] = b[k]
  <2>1. CASE k <= m
    <3>1. k \in 1 .. m
      BY <2>1
    <3>2. s[k] = a[k]
      BY <1>8, <2>1
    <3>3. QED
      BY <1>5, <3>1, <3>2
  <2>2. CASE ~ (k <= m)
    <3>1. k - m \in 1 .. w - m /\ m + (k - m) = k
      BY <2>2
    <3>2. d[k - m] = data[k]
      BY <3>1
    <3>3. QED
      BY <1>5, <1>8, <2>2, <3>2
  <2>3. QED
    BY <2>1, <2>2
<1>10. s = b
  BY ONLY <1>5, <1>8, <1>9, SeqEqual
<1>11. QED
  BY <1>4, <1>7, <1>10

LEMMA WholeSubSeq ==
  ASSUME NEW data \in Seq(Byte)
  PROVE  SubSeq(data, 1, Len(data)) = data
OBVIOUS

LEMMA Apart == Equal \notin Digit
BY DEF Equal, Digit

(* The bytes of a group.                                                     *)
LEMMA GroupBytes ==
  ASSUME NEW data \in Seq(Byte), NEW g \in 1 .. Groups(data)
  PROVE  LET b == four(data, g)
             m == 3 * g - 3
             w == Len(data) - m
         IN /\ w = 1 => bytes(<<b[1], b[2], 0, 0>>)[1] = data[m + 1]
            /\ w = 2 => LET e == bytes(<<b[1], b[2], b[3], 0>>)
                        IN e[1] = data[m + 1] /\ e[2] = data[m + 2]
            /\ w >= 3 => bytes(<<b[1], b[2], b[3], b[4]>>) = <<data[m + 1], data[m + 2], data[m + 3]>>
<1> DEFINE t == three(data, g)
           d == b64(t)
<1>1. PICK m \in Nat, w \in Nat \ {0} : m = 3 * g - 3 /\ w = Len(data) - m /\ Len(data) = m + w
  <2>1. Len(data) \in Nat /\ g \in Nat \ {0} /\ 3 * g - 2 \in 1 .. Len(data)
    BY ThreeAre
  <2>2. 3 * g - 3 \in Nat /\ Len(data) - (3 * g - 3) \in Nat \ {0}
        /\ Len(data) = (3 * g - 3) + (Len(data) - (3 * g - 3))
    BY <2>1
  <2>3. QED
    BY ONLY <2>2
<1>2. PICK b : b = four(data, g)
  OBVIOUS
<1>3. /\ b[1] \in Digit /\ b[2] \in Digit
      /\ b[3] = Equal <=> w = 1
      /\ b[4] = Equal <=> w < 3
      /\ \A c \in 1 .. 4 : b[c] # Equal => b[c] = d[c]
  <2>1. /\ Len(data) = 3 * g - 2 <=> w = 1
        /\ Len(data) < 3 * g <=> w < 3
    BY <1>1
  <2>2. QED
    BY <1>2, <2>1, FourAre
<1>4. t \in Three /\ bytes(d) = t
  BY ThreeAre, ThreeBytes
<1>5. t[1] = data[m + 1] /\ (w >= 2 => t[2] = data[m + 2]) /\ (w >= 3 => t[3] = data[m + 3])
  <2>1. /\ 3 * g - 2 = m + 1 /\ 3 * g - 1 = m + 2 /\ 3 * g = m + 3
        /\ m + 1 <= Len(data) /\ (w >= 2 => m + 2 <= Len(data)) /\ (w >= 3 => m + 3 <= Len(data))
    BY <1>1
  <2>2. QED
    BY <2>1 DEF three, at3
<1>6. t = <<t[1], t[2], t[3]>>
  BY <1>4 DEF Three
<1> HIDE DEF t, d
<1>7. /\ t[1] = d[1] * 4 + d[2] \div 16
      /\ t[2] = (d[2] % 16) * 16 + d[3] \div 4
      /\ t[3] = (d[3] % 4) * 64 + d[4]
  BY <1>4 DEF bytes
<1>8. b[1] = d[1] /\ b[2] = d[2] /\ (w >= 2 => b[3] = d[3]) /\ (w >= 3 => b[4] = d[4])
  BY <1>3, Apart
<1>9. w = 1 => bytes(<<b[1], b[2], 0, 0>>)[1] = data[m + 1]
  BY <1>5, <1>7, <1>8 DEF bytes
<1>10. w = 2 => /\ bytes(<<b[1], b[2], b[3], 0>>)[1] = data[m + 1]
                /\ bytes(<<b[1], b[2], b[3], 0>>)[2] = data[m + 2]
  BY <1>5, <1>7, <1>8 DEF bytes
<1>11. w >= 3 => bytes(<<b[1], b[2], b[3], b[4]>>) = <<data[m + 1], data[m + 2], data[m + 3]>>
  <2>1. bytes(<<b[1], b[2], b[3], b[4]>>)
          = <<b[1] * 4 + b[2] \div 16, (b[2] % 16) * 16 + b[3] \div 4, (b[3] % 4) * 64 + b[4]>>
    BY DEF bytes
  <2>2. QED
    BY <1>5, <1>7, <1>8, <2>1
<1>12. QED
  BY <1>1, <1>2, <1>9, <1>10, <1>11

(* Where the characters of the next group stand.                             *)
StandAt(text, data, f, m, u) ==
  LET b == four(data, m + 1)
  IN /\ \A c \in 0 .. 4 : u[c] = f[4 * m + c] /\ u[c] \in 0 .. Len(text)
     /\ u[0] < u[1] /\ u[1] < u[2] /\ u[2] < u[3] /\ u[3] < u[4]
     /\ known(text, u[0] + 1) = u[1] /\ known(text, u[1] + 1) = u[2]
     /\ known(text, u[2] + 1) = u[3] /\ known(text, u[3] + 1) = u[4]
     /\ text[u[1]] = b[1] /\ text[u[2]] = b[2] /\ text[u[3]] = b[3] /\ text[u[4]] = b[4]
     /\ b[1] # Equal /\ b[2] # Equal
     /\ b[3] = Equal <=> Len(data) = 3 * m + 1
     /\ b[4] = Equal <=> Len(data) < 3 * m + 3

LEMMA GroupPlaces ==
  ASSUME NEW data \in Seq(Byte), NEW text, NEW f, Laid(text, data, f, Groups(data)),
         NEW m \in Nat, m < Groups(data)
  PROVE  \E u : StandAt(text, data, f, m, u)
<1>1. PICK L \in Nat : L = Len(text)
  BY LenProperties DEF Laid
<1>2. PICK n \in Nat, D \in Nat : n = Groups(data) /\ D = Len(data) /\ n = (D + 2) \div 3
  <2>1. Len(data) \in Nat
    OBVIOUS
  <2>2. QED
    BY <2>1 DEF Groups
<1>3. /\ \A j \in 0 .. 4 * n : f[j] \in 0 .. L
      /\ f[0] = 0
      /\ \A j, k \in 0 .. 4 * n : j < k => f[j] < f[k]
      /\ \A g \in 1 .. n, c \in 1 .. 4 : text[f[4 * g - 4 + c]] = four(data, g)[c]
  BY <1>1, <1>2 DEF Laid
<1>4. m < n /\ m + 1 \in 1 .. n
  BY <1>2
<1>5. \A c \in 0 .. 4 : 4 * m + c \in 0 .. 4 * n /\ 4 * m + c + 1 = 4 * m + (c + 1) /\ (c # 4 => 4 * m + c < 4 * n)
  BY <1>4
<1>6. PICK b : b = four(data, m + 1)
  OBVIOUS
<1> DEFINE u == [c \in 0 .. 4 |-> f[4 * m + c]]
<1>7. \A c \in 0 .. 4 : u[c] = f[4 * m + c] /\ u[c] \in 0 .. L
  BY <1>3, <1>5
<1> HIDE DEF u
<1>8. \A c \in 0 .. 3 : known(text, u[c] + 1) = u[c + 1]
  <2>1. ASSUME NEW c \in 0 .. 3 PROVE known(text, u[c] + 1) = u[c + 1]
    <3>1. c \in 0 .. 4 /\ c + 1 \in 0 .. 4 /\ c # 4
      OBVIOUS
    <3>2. PICK k \in 0 .. 4 * n : k = 4 * m + c /\ k < 4 * n /\ k + 1 = 4 * m + (c + 1)
      BY <1>5, <3>1
    <3>3. known(text, f[k] + 1) = IF k < 4 * n THEN f[k + 1] ELSE Len(text) + 1
      BY <1>2, <3>2, LaidKnown
    <3>4. QED
      BY <1>7, <3>1, <3>2, <3>3
  <2>2. QED
    BY <2>1
<1>9. /\ known(text, u[0] + 1) = u[1] /\ known(text, u[1] + 1) = u[2]
      /\ known(text, u[2] + 1) = u[3] /\ known(text, u[3] + 1) = u[4]
  <2>1. 0 \in 0 .. 3 /\ 1 \in 0 .. 3 /\ 2 \in 0 .. 3 /\ 3 \in 0 .. 3 /\ 0 + 1 = 1 /\ 1 + 1 = 2 /\ 2 + 1 = 3 /\ 3 + 1 = 4
    OBVIOUS
  <2>2. QED
    BY <1>8, <2>1
<1>10. \A c \in 1 .. 4 : text[u[c]] = b[c]
  <2>1. ASSUME NEW c \in 1 .. 4 PROVE text[u[c]] = b[c]
    <3>1. c \in 0 .. 4 /\ 4 * (m + 1) - 4 + c = 4 * m + c
      OBVIOUS
    <3>2. text[f[4 * (m + 1) - 4 + c]] = b[c]
      BY <1>3, <1>4, <1>6
    <3>3. QED
      BY <1>7, <3>1, <3>2
  <2>2. QED
    BY <2>1
<1>11. text[u[1]] = b[1] /\ text[u[2]] = b[2] /\ text[u[3]] = b[3] /\ text[u[4]] = b[4]
  BY <1>10
<1>12. u[0] < u[1] /\ u[1] < u[2] /\ u[2] < u[3] /\ u[3] < u[4]
  <2>1. ASSUME NEW c \in 0 .. 3 PROVE u[c] < u[c + 1]
    <3>1. c \in 0 .. 4 /\ c + 1 \in 0 .. 4 /\ 4 * m + c < 4 * m + (c + 1)
      OBVIOUS
    <3>2. PICK k \in 0 .. 4 * n, l \in 0 .. 4 * n : k = 4 * m + c /\ l = 4 * m + (c + 1) /\ k < l
      BY <1>5, <3>1
    <3>3. QED
      BY <1>3, <1>7, <3>1, <3>2
  <2>2. 0 \in 0 .. 3 /\ 1 \in 0 .. 3 /\ 2 \in 0 .. 3 /\ 3 \in 0 .. 3 /\ 0 + 1 = 1 /\ 1 + 1 = 2 /\ 2 + 1 = 3 /\ 3 + 1 = 4
    OBVIOUS
  <2>3. QED
    BY <2>1, <2>2
<1>13. /\ b[1] # Equal /\ b[2] # Equal
       /\ b[3] = Equal <=> D = 3 * m + 1
       /\ b[4] = Equal <=> D < 3 * m + 3
  <2>1. /\ Len(data) = 3 * (m + 1) - 2 <=> D = 3 * m + 1
        /\ Len(data) < 3 * (m + 1) <=> D < 3 * m + 3
    BY <1>2
  <2>2. /\ b[1] \in Digit /\ b[2] \in Digit
        /\ b[3] = Equal <=> Len(data) = 3 * (m + 1) - 2
        /\ b[4] = Equal <=> Len(data) < 3 * (m + 1)
    BY <1>2, <1>4, <1>6, FourAre
  <2>3. QED
    BY ONLY <2>1, <2>2, Apart
<1>14. StandAt(text, data, f, m, u)
  BY ONLY <1>1, <1>2, <1>6, <1>7, <1>9, <1>11, <1>12, <1>13 DEF StandAt
<1>15. QED
  BY <1>14

LEMMA TurnReadsGroup ==
  ASSUME NEW data \in Seq(Byte), NEW text, NEW f, Laid(text, data, f, Groups(data)),
         NEW m \in Nat, NEW q \in Read, m < Groups(data),
         q.data = SubSeq(data, 1, 3 * m), q.i = f[4 * m] + 1
  PROVE  Got(data, f, m + 1, turn(text, q))
<1>1. PICK L \in Nat : L = Len(text)
  BY LenProperties DEF Laid
<1>2. PICK n \in Nat, D \in Nat : n = Groups(data) /\ D = Len(data) /\ n = (D + 2) \div 3
  <2>1. Len(data) \in Nat
    OBVIOUS
  <2>2. QED
    BY <2>1 DEF Groups
<1>4. m < n /\ m + 1 \in 1 .. n
  BY <1>2
<1>6. PICK b : b = four(data, m + 1)
  OBVIOUS
<1>5. PICK u : StandAt(text, data, f, m, u)
  BY GroupPlaces
<1>7. /\ \A c \in 0 .. 4 : u[c] = f[4 * m + c] /\ u[c] \in 0 .. L
      /\ known(text, u[0] + 1) = u[1] /\ known(text, u[1] + 1) = u[2]
      /\ known(text, u[2] + 1) = u[3] /\ known(text, u[3] + 1) = u[4]
      /\ text[u[1]] = b[1] /\ text[u[2]] = b[2] /\ text[u[3]] = b[3] /\ text[u[4]] = b[4]
      /\ b[1] # Equal /\ b[2] # Equal
      /\ b[3] = Equal <=> D = 3 * m + 1
      /\ b[4] = Equal <=> D < 3 * m + 3
  BY ONLY <1>1, <1>2, <1>5, <1>6 DEF StandAt
<1>12. q.i = u[0] + 1 /\ u[0] \in Nat /\ u[3] <= L /\ u[4] <= L /\ u[4] \in Nat /\ u[3] \in Nat
       /\ u[4] = f[4 * (m + 1)]
  <2>1. 4 * m + 0 = 4 * m /\ 4 * m + 4 = 4 * (m + 1) /\ 0 \in 0 .. 4 /\ 3 \in 0 .. 4 /\ 4 \in 0 .. 4
    OBVIOUS
  <2>2. u[0] \in 0 .. L /\ u[3] \in 0 .. L /\ u[4] \in 0 .. L
    BY ONLY <1>7, <2>1
  <2>3. \A v \in 0 .. L : v \in Nat /\ v <= L
    OBVIOUS
  <2>4. u[0] = f[4 * m] /\ u[4] = f[4 * (m + 1)]
    BY ONLY <1>7, <2>1
  <2>5. q.i = u[0] + 1
    BY ONLY <2>4, q.i = f[4 * m] + 1
  <2>6. QED
    BY ONLY <2>2, <2>3, <2>4, <2>5
<1> DEFINE e1 == bytes(<<b[1], b[2], 0, 0>>)
           e2 == bytes(<<b[1], b[2], b[3], 0>>)
           e3 == bytes(<<b[1], b[2], b[3], b[4]>>)
<1>14. turn(text, q) =
         IF b[3] = Equal THEN [data |-> q.data \o SubSeq(e1, 1, 1), i |-> 0]
         ELSE IF b[4] = Equal THEN [data |-> q.data \o SubSeq(e2, 1, 2), i |-> 0]
         ELSE [data |-> q.data \o e3, i |-> u[4] + 1]
  <2>1. q.i # 0 /\ ~ (u[3] > Len(text)) /\ ~ (u[4] > Len(text))
    BY <1>1, <1>12
  <2>2. known(text, q.i) = u[1]
    BY <1>7, <1>12
  <2>3. QED
    BY ONLY <1>7, <2>1, <2>2 DEF turn
<1>15. /\ D = 3 * m + 1 => e1[1] = data[3 * m + 1]
       /\ D = 3 * m + 2 => e2[1] = data[3 * m + 1] /\ e2[2] = data[3 * m + 2]
       /\ D >= 3 * m + 3 => e3 = <<data[3 * m + 1], data[3 * m + 2], data[3 * m + 3]>>
  <2>1. 3 * (m + 1) - 3 = 3 * m /\ (D = 3 * m + 1 <=> Len(data) - 3 * m = 1)
        /\ (D = 3 * m + 2 <=> Len(data) - 3 * m = 2) /\ (D >= 3 * m + 3 <=> Len(data) - 3 * m >= 3)
    BY <1>2
  <2>2. LET w == Len(data) - (3 * (m + 1) - 3)
        IN /\ w = 1 => bytes(<<b[1], b[2], 0, 0>>)[1] = data[3 * (m + 1) - 3 + 1]
           /\ w = 2 => LET e == bytes(<<b[1], b[2], b[3], 0>>)
                       IN e[1] = data[3 * (m + 1) - 3 + 1] /\ e[2] = data[3 * (m + 1) - 3 + 2]
           /\ w >= 3 => bytes(<<b[1], b[2], b[3], b[4]>>)
                          = <<data[3 * (m + 1) - 3 + 1], data[3 * (m + 1) - 3 + 2], data[3 * (m + 1) - 3 + 3]>>
    BY <1>2, <1>4, <1>6, GroupBytes
  <2>3. QED
    BY ONLY <2>1, <2>2
<1> HIDE DEF e1, e2, e3
<1>16. D >= 3 * m + 1 /\ n >= m + 1
       /\ (D < 3 * m + 4 => n = m + 1) /\ (n = m + 1 => D <= 3 * m + 3) /\ (n # m + 1 => D > 3 * m + 3)
  BY <1>2, <1>4
<1>17. \A k \in 1 .. D : data[k] \in Byte
  BY <1>2, ElementOfSeq
<1>18. ASSUME NEW x \in Nat \ {0}, 3 * m + x <= D,
              NEW d, d \in Seq(Byte), Len(d) = x, \A k \in 1 .. x : d[k] = data[3 * m + k]
       PROVE  q.data \o d = SubSeq(data, 1, 3 * m + x) /\ SubSeq(data, 1, 3 * m + x) \in Seq(Byte)
  <2>1. PICK v \in Nat, w \in Nat : v = 3 * m /\ w = 3 * m + x
    OBVIOUS
  <2>2. v <= w /\ w <= Len(data) /\ w - v = x
    BY <1>2, <1>18, <2>1
  <2>3. Len(d) = w - v /\ \A k \in 1 .. w - v : d[k] = data[v + k]
    <3>1. Len(d) = w - v
      BY ONLY <1>18, <2>2
    <3>2. \A k \in 1 .. w - v : k \in 1 .. x /\ v + k = 3 * m + k
      BY ONLY <2>1, <2>2
    <3>3. QED
      BY ONLY <1>18, <3>1, <3>2
  <2>4. SubSeq(data, 1, v) \o d = SubSeq(data, 1, w)
    BY ONLY <1>18, <2>1, <2>2, <2>3, data \in Seq(Byte), Longer
  <2>5. SubSeq(data, 1, w) \in Seq(Byte)
    <3>1. \A k \in 1 .. w : data[k] \in Byte
      BY <1>17, <1>2, <2>2
    <3>2. 1 \in Int /\ w \in Int
      OBVIOUS
    <3>3. QED
      BY ONLY <3>1, <3>2, SubSeqProperties
  <2>6. QED
    BY ONLY <2>1, <2>4, <2>5, q.data = SubSeq(data, 1, 3 * m)
<1>19. ASSUME NEW x \in 1 .. 2, D = 3 * m + x, NEW e, \A k \in 1 .. x : e[k] = data[3 * m + k]
       PROVE  Got(data, f, m + 1, [data |-> q.data \o SubSeq(e, 1, x), i |-> 0])
  <2>1. \A k \in 1 .. x : e[k] \in Byte
    <3>1. \A k \in 1 .. x : 3 * m + k \in 1 .. D
      BY <1>19
    <3>2. QED
      BY <1>17, <1>19, <3>1
  <2>2. PICK lo \in Int, hi \in Int : lo = 1 /\ hi = x
    OBVIOUS
  <2>3. /\ SubSeq(e, lo, hi) \in Seq(Byte) /\ Len(SubSeq(e, lo, hi)) = IF lo <= hi THEN hi - lo + 1 ELSE 0
        /\ \A k \in 1 .. hi - lo + 1 : SubSeq(e, lo, hi)[k] = e[lo + k - 1]
    <3>1. \A k \in lo .. hi : e[k] \in Byte
      BY <2>1, <2>2
    <3>2. QED
      BY ONLY <3>1, SubSeqProperties
  <2>4. PICK d : d = SubSeq(e, lo, hi)
    OBVIOUS
  <2>5. d \in Seq(Byte) /\ Len(d) = x /\ \A k \in 1 .. x : d[k] = data[3 * m + k]
    <3>1. lo <= hi /\ hi - lo + 1 = x /\ \A k \in 1 .. x : lo + k - 1 = k
      BY <2>2
    <3>2. QED
      BY <1>19, <2>3, <2>4, <3>1
  <2>6. x \in Nat \ {0} /\ 3 * m + x <= D
    BY <1>19
  <2>7. q.data \o d = SubSeq(data, 1, 3 * m + x)
    BY ONLY <1>18, <2>5, <2>6
  <2>8. SubSeq(data, 1, 3 * m + x) = data
    BY ONLY <1>2, <1>19, data \in Seq(Byte), WholeSubSeq
  <2>9. q.data \o SubSeq(e, 1, x) = data
    BY ONLY <2>2, <2>4, <2>7, <2>8
  <2>10. n = m + 1
    BY <1>16, <1>19
  <2>11. PICK r : r = [data |-> data, i |-> 0]
    OBVIOUS
  <2>12. r \in Read /\ r.data = data /\ r.i = 0
    BY <2>11 DEF Read
  <2>13. Got(data, f, m + 1, r)
    BY <1>2, <2>10, <2>12 DEF Got
  <2>14. QED
    BY ONLY <2>9, <2>11, <2>13
<1>20. CASE D = 3 * m + 1
  <2>1. turn(text, q) = [data |-> q.data \o SubSeq(e1, 1, 1), i |-> 0]
    BY ONLY <1>7, <1>14, <1>20
  <2>2. 1 \in 1 .. 2 /\ \A k \in 1 .. 1 : e1[k] = data[3 * m + k]
    BY <1>15, <1>20
  <2>3. Got(data, f, m + 1, [data |-> q.data \o SubSeq(e1, 1, 1), i |-> 0])
    BY ONLY <1>19, <1>20, <2>2
  <2>4. QED
    BY ONLY <2>1, <2>3
<1>21. CASE D = 3 * m + 2
  <2>0. b[3] # Equal /\ b[4] = Equal
    BY <1>7, <1>21
  <2>1. turn(text, q) = [data |-> q.data \o SubSeq(e2, 1, 2), i |-> 0]
    BY ONLY <1>14, <2>0
  <2>2. 2 \in 1 .. 2 /\ \A k \in 1 .. 2 : e2[k] = data[3 * m + k]
    <3>1. \A k \in 1 .. 2 : k = 1 \/ k = 2
      OBVIOUS
    <3>2. QED
      BY <1>15, <1>21, <3>1
  <2>3. Got(data, f, m + 1, [data |-> q.data \o SubSeq(e2, 1, 2), i |-> 0])
    BY ONLY <1>19, <1>21, <2>2
  <2>4. QED
    BY ONLY <2>1, <2>3
<1>22. CASE D >= 3 * m + 3
  <2>0. b[3] # Equal /\ b[4] # Equal
    BY <1>7, <1>22
  <2>1. turn(text, q) = [data |-> q.data \o e3, i |-> u[4] + 1]
    BY ONLY <1>14, <2>0
  <2>2. PICK x \in Byte, y \in Byte, z \in Byte : x = data[3 * m + 1] /\ y = data[3 * m + 2] /\ z = data[3 * m + 3]
    <3>1. 3 * m + 1 \in 1 .. D /\ 3 * m + 2 \in 1 .. D /\ 3 * m + 3 \in 1 .. D
      BY <1>22
    <3>2. QED
      BY <1>17, <3>1
  <2>3. e3 = <<x, y, z>>
    BY <1>15, <1>22, <2>2
  <2>4. e3 \in Seq(Byte) /\ Len(e3) = 3 /\ e3[1] = x /\ e3[2] = y /\ e3[3] = z
    BY <2>3
  <2>5. \A k \in 1 .. 3 : e3[k] = data[3 * m + k]
    <3>1. \A k \in 1 .. 3 : k = 1 \/ k = 2 \/ k = 3
      OBVIOUS
    <3>2. QED
      BY ONLY <2>2, <2>4, <3>1
  <2>6. 3 \in Nat \ {0} /\ 3 * m + 3 <= D
    BY <1>22
  <2>7. q.data \o e3 = SubSeq(data, 1, 3 * m + 3) /\ SubSeq(data, 1, 3 * m + 3) \in Seq(Byte)
    BY ONLY <1>18, <2>4, <2>5, <2>6
  <2>8. PICK s : s = SubSeq(data, 1, 3 * m + 3)
    OBVIOUS
  <2>9. PICK r : r = [data |-> s, i |-> u[4] + 1]
    OBVIOUS
  <2>10. r \in Read /\ r.data = s /\ r.i = f[4 * (m + 1)] + 1
    BY <1>12, <2>7, <2>8, <2>9 DEF Read
  <2>11. 3 * m + 3 = 3 * (m + 1)
    OBVIOUS
  <2>12. Got(data, f, m + 1, r)
    <3>1. CASE n = m + 1
      <4>1. D = 3 * m + 3
        BY <1>16, <1>22, <3>1
      <4>2. s = data
        BY ONLY <1>2, <2>8, <4>1, data \in Seq(Byte), WholeSubSeq
      <4>3. m + 1 >= n /\ f[4 * (m + 1)] = f[4 * n]
        BY ONLY <1>2, <3>1, n \in Nat
      <4>4. QED
        BY ONLY <1>2, <2>10, <4>2, <4>3 DEF Got
    <3>2. CASE n # m + 1
      <4>1. m + 1 < n
        BY <1>4, <3>2
      <4>2. s = SubSeq(data, 1, 3 * (m + 1))
        BY ONLY <2>8, <2>11
      <4>3. QED
        BY ONLY <1>2, <2>10, <4>1, <4>2 DEF Got
    <3>3. QED
      BY <3>1, <3>2
  <2>13. turn(text, q) = r
    BY ONLY <2>1, <2>7, <2>8, <2>9
  <2>14. QED
    BY ONLY <2>12, <2>13
<1>23. QED
  <2>1. D = 3 * m + 1 \/ D = 3 * m + 2 \/ D >= 3 * m + 3
    BY <1>16
  <2>2. QED
    BY <1>20, <1>21, <1>22, <2>1

(* The first w characters of a text.                                         *)
CutAt(text, w, s) ==
  /\ text \in Seq(Int) /\ s \in Seq(Int) /\ w \in 0 .. Len(text) /\ Len(s) = w
  /\ \A j \in 1 .. w : s[j] = text[j]

LEMMA CutKnown ==
  ASSUME NEW text, NEW w, NEW s, CutAt(text, w, s), NEW lo \in Nat \ {0}
  PROVE  /\ known(text, lo) \in Nat
         /\ known(s, lo) = IF known(text, lo) <= w THEN known(text, lo) ELSE w + 1
<1>1. PICK L \in Nat : L = Len(text)
  BY LenProperties DEF CutAt
<1>2. text \in Seq(Int) /\ s \in Seq(Int) /\ w \in 0 .. L /\ Len(s) = w /\ \A j \in 1 .. w : s[j] = text[j]
  BY <1>1 DEF CutAt
<1>3. CASE \A k \in lo .. L : text[k] = Unknown
  <2>1. known(text, lo) = L + 1
    BY ONLY <1>1, <1>2, <1>3, lo \in Nat \ {0}, NoneKnown
  <2>2. \A k \in lo .. Len(s) : s[k] = Unknown
    BY <1>2, <1>3
  <2>3. known(s, lo) = w + 1
    BY ONLY <1>2, <2>2, lo \in Nat \ {0}, NoneKnown
  <2>4. QED
    BY <1>2, <2>1, <2>3
<1>4. CASE ~ \A k \in lo .. L : text[k] = Unknown
  <2> DEFINE T == {k \in lo .. L : text[k] # Unknown}
  <2>1. PICK j \in T : \A y \in T : j <= y
    <3>1. T \subseteq Nat /\ T # {}
      BY <1>4
    <3> HIDE DEF T
    <3>2. QED
      BY <3>1, LeastNumber
  <2>2. j \in lo .. L /\ text[j] # Unknown /\ \A k \in lo .. j - 1 : text[k] = Unknown
    <3>1. ASSUME NEW k \in lo .. j - 1 PROVE text[k] = Unknown
      <4>1. j \in lo .. L
        BY <2>1
      <4>2. k \in lo .. L /\ ~ (j <= k)
        BY <4>1
      <4>3. QED
        BY <2>1, <4>2
    <3>2. QED
      BY <2>1, <3>1
  <2> HIDE DEF T
  <2>3. known(text, lo) = j
    BY ONLY <1>1, <1>2, <2>2, lo \in Nat \ {0}, KnownNext
  <2>4. CASE j <= w
    <3>1. j \in lo .. Len(s) /\ s[j] # Unknown /\ \A k \in lo .. j - 1 : s[k] = Unknown
      BY <1>2, <2>2, <2>4
    <3>2. known(s, lo) = j
      BY ONLY <1>2, <3>1, lo \in Nat \ {0}, KnownNext
    <3>3. QED
      BY <2>2, <2>3, <2>4, <3>2
  <2>5. CASE ~ (j <= w)
    <3>1. \A k \in lo .. Len(s) : s[k] = Unknown
      BY <1>2, <2>2, <2>5
    <3>2. known(s, lo) = w + 1
      BY ONLY <1>2, <3>1, lo \in Nat \ {0}, NoneKnown
    <3>3. QED
      BY <2>2, <2>3, <2>5, <3>2
  <2>6. QED
    BY <2>4, <2>5
<1>5. QED
  BY <1>3, <1>4

LEMMA CutBehind ==
  ASSUME NEW text, NEW w, NEW s, CutAt(text, w, s), NEW lo \in Nat \ {0}, w < lo
  PROVE  known(s, lo) = w + 1
<1>1. s \in Seq(Int) /\ Len(s) = w /\ \A k \in lo .. Len(s) : s[k] = Unknown
  BY DEF CutAt
<1>2. QED
  BY ONLY <1>1, lo \in Nat \ {0}, NoneKnown

(* The data of the first k groups; those that are read of a text that breaks
   off before the characters of the group that follows; and what is read
   after m turns of such a text.                                             *)
Begun(data, k) == IF k = Groups(data) THEN data ELSE SubSeq(data, 1, 3 * k)

Whole(data, f, w, d) ==
  \E k \in 0 .. Groups(data) : d = Begun(data, k) /\ (k = Groups(data) \/ w < f[4 * k + 4])

GotCut(data, f, w, m, q) ==
  /\ q \in Read
  /\ Got(data, f, m, q) \/ (q.i = 0 /\ Whole(data, f, w, q.data))

LEMMA TurnEnds ==
  ASSUME NEW s, NEW q, q.i # 0, known(s, known(s, known(s, q.i) + 1) + 1) > Len(s)
  PROVE  turn(s, q) = [q EXCEPT !.i = 0]
BY DEF turn

LEMMA TurnCut ==
  ASSUME NEW data \in Seq(Byte), NEW text, NEW f, Laid(text, data, f, Groups(data)),
         NEW w, NEW s, CutAt(text, w, s),
         NEW m \in Nat, NEW q \in Read, m < Groups(data),
         q.data = SubSeq(data, 1, 3 * m), q.i = f[4 * m] + 1
  PROVE  GotCut(data, f, w, m + 1, turn(s, q))
<1>1. PICK L \in Nat : L = Len(text)
  BY LenProperties DEF Laid
<1>2. w \in 0 .. L /\ Len(s) = w /\ \A j \in 1 .. w : s[j] = text[j]
  BY <1>1 DEF CutAt
<1>3. PICK u : StandAt(text, data, f, m, u)
  BY GroupPlaces
<1>4. PICK b : b = four(data, m + 1)
  OBVIOUS
<1>19. /\ \A c \in 0 .. 4 : u[c] = f[4 * m + c] /\ u[c] \in 0 .. L
      /\ u[0] < u[1] /\ u[1] < u[2] /\ u[2] < u[3] /\ u[3] < u[4]
      /\ known(text, u[0] + 1) = u[1] /\ known(text, u[1] + 1) = u[2]
      /\ known(text, u[2] + 1) = u[3] /\ known(text, u[3] + 1) = u[4]
      /\ text[u[1]] = b[1] /\ text[u[2]] = b[2] /\ text[u[3]] = b[3] /\ text[u[4]] = b[4]
      /\ b[1] # Equal /\ b[2] # Equal
  BY ONLY <1>1, <1>3, <1>4 DEF StandAt
<1>6. PICK u0 \in Nat, u1 \in Nat, u2 \in Nat, u3 \in Nat, u4 \in Nat :
        /\ u0 = u[0] /\ u1 = u[1] /\ u2 = u[2] /\ u3 = u[3] /\ u4 = u[4]
        /\ u0 <= L /\ u1 <= L /\ u2 <= L /\ u3 <= L /\ u4 <= L
  <2>1. 0 \in 0 .. 4 /\ 1 \in 0 .. 4 /\ 2 \in 0 .. 4 /\ 3 \in 0 .. 4 /\ 4 \in 0 .. 4
    OBVIOUS
  <2>2. u[0] \in 0 .. L /\ u[1] \in 0 .. L /\ u[2] \in 0 .. L /\ u[3] \in 0 .. L /\ u[4] \in 0 .. L
    BY ONLY <1>19, <2>1
  <2>3. \A v \in 0 .. L : v \in Nat /\ v <= L
    OBVIOUS
  <2>4. QED
    BY ONLY <2>2, <2>3
<1>5. /\ u0 < u1 /\ u1 < u2 /\ u2 < u3 /\ u3 < u4
      /\ known(text, u0 + 1) = u1 /\ known(text, u1 + 1) = u2
      /\ known(text, u2 + 1) = u3 /\ known(text, u3 + 1) = u4
      /\ text[u1] = b[1] /\ text[u2] = b[2] /\ text[u3] = b[3] /\ text[u4] = b[4]
      /\ b[1] # Equal /\ b[2] # Equal
  BY ONLY <1>6, <1>19
<1>20. /\ u0 < u1 /\ u1 < u2 /\ u2 < u3 /\ u3 < u4
       /\ u0 \in Nat /\ u1 \in Nat /\ u2 \in Nat /\ u3 \in Nat /\ u4 \in Nat
       /\ u0 <= L /\ u1 <= L /\ u2 <= L /\ u3 <= L /\ u4 <= L /\ L \in Nat
  BY ONLY <1>5, <1>6, u0 \in Nat, u1 \in Nat, u2 \in Nat, u3 \in Nat, u4 \in Nat, L \in Nat
<1>7. q.i = u0 + 1 /\ u4 = f[4 * m + 4] /\ q.i # 0
  <2>1. 4 * m + 0 = 4 * m /\ 0 \in 0 .. 4 /\ 4 \in 0 .. 4
    OBVIOUS
  <2>2. q.i = u0 + 1 /\ u4 = f[4 * m + 4]
    BY <1>6, <1>19, <2>1
  <2>3. QED
    BY <1>6, <2>2
<1>8. \A lo \in Nat \ {0} : known(s, lo) = IF known(text, lo) <= w THEN known(text, lo) ELSE w + 1
  BY CutKnown
<1>9. /\ known(s, u0 + 1) = IF u1 <= w THEN u1 ELSE w + 1
      /\ known(s, u1 + 1) = IF u2 <= w THEN u2 ELSE w + 1
      /\ known(s, u2 + 1) = IF u3 <= w THEN u3 ELSE w + 1
      /\ known(s, u3 + 1) = IF u4 <= w THEN u4 ELSE w + 1
  <2>1. /\ u0 + 1 \in Nat \ {0} /\ u1 + 1 \in Nat \ {0}
        /\ u2 + 1 \in Nat \ {0} /\ u3 + 1 \in Nat \ {0}
    BY ONLY <1>20
  <2>2. QED
    BY ONLY <1>5, <1>8, <2>1
<1>10. known(s, (w + 1) + 1) = w + 1
  <2>1. (w + 1) + 1 \in Nat \ {0} /\ w < (w + 1) + 1
    BY <1>2
  <2>2. QED
    BY ONLY <2>1, CutAt(text, w, s), CutBehind
<1>11. ASSUME turn(s, q) = [q EXCEPT !.i = 0], w < u4 PROVE GotCut(data, f, w, m + 1, turn(s, q))
  <2>1. PICK r : r = turn(s, q)
    OBVIOUS
  <2>2. r \in Read /\ r.i = 0 /\ r.data = SubSeq(data, 1, 3 * m)
    <3>1. PICK d : d = q.data
      OBVIOUS
    <3>2. r = [q EXCEPT !.i = 0] /\ q \in Read
      BY <1>11, <2>1
    <3>3. r \in Read /\ r.i = 0 /\ r.data = d
      BY ONLY <3>1, <3>2 DEF Read
    <3>4. d = SubSeq(data, 1, 3 * m)
      BY ONLY <3>1, q.data = SubSeq(data, 1, 3 * m)
    <3>5. QED
      BY ONLY <3>3, <3>4
  <2>3. m \in 0 .. Groups(data) /\ m # Groups(data)
    <3>1. Groups(data) \in Nat
      <4>1. Len(data) \in Nat
        OBVIOUS
      <4>2. QED
        BY <4>1 DEF Groups
    <3>2. QED
      BY <3>1
  <2>4. r.data = Begun(data, m) /\ w < f[4 * m + 4]
    BY <1>7, <1>11, <2>2, <2>3 DEF Begun
  <2>5. GotCut(data, f, w, m + 1, r)
    BY ONLY <2>2, <2>3, <2>4 DEF GotCut, Whole
  <2>6. QED
    BY ONLY <2>1, <2>5
<1>12. Got(data, f, m + 1, turn(text, q)) /\ turn(text, q) \in Read
  <2>1. Got(data, f, m + 1, turn(text, q))
    BY TurnReadsGroup
  <2>2. QED
    BY ONLY <2>1 DEF Got
<1>13. ASSUME turn(s, q) = turn(text, q) PROVE GotCut(data, f, w, m + 1, turn(s, q))
  BY ONLY <1>12, <1>13 DEF GotCut
<1>14. ~ (u3 > L) /\ ~ (u4 > L) /\ ~ (u3 > Len(text)) /\ ~ (u4 > Len(text))
  BY ONLY <1>1, <1>20
<1>15. CASE u4 <= w
  <2>1. u1 <= w /\ u2 <= w /\ u3 <= w /\ ~ (u3 > Len(s)) /\ ~ (u4 > Len(s))
    BY ONLY <1>2, <1>15, <1>20
  <2>2. s[u1] = text[u1] /\ s[u2] = text[u2] /\ s[u3] = text[u3] /\ s[u4] = text[u4]
    <3>1. u1 \in 1 .. w /\ u2 \in 1 .. w /\ u3 \in 1 .. w /\ u4 \in 1 .. w
      BY ONLY <1>2, <1>15, <1>20, <2>1
    <3>2. QED
      BY ONLY <1>2, <3>1
  <2>3. turn(s, q) = turn(text, q)
    BY ONLY <1>5, <1>7, <1>9, <1>14, <1>15, <2>1, <2>2 DEF turn
  <2>4. QED
    BY <1>13, <2>3
<1>16. CASE ~ (u4 <= w) /\ u3 <= w
  <2>1. u1 <= w /\ u2 <= w /\ ~ (u3 > Len(s)) /\ w + 1 > Len(s) /\ w < u4
    BY ONLY <1>2, <1>16, <1>20
  <2>2. s[u1] = text[u1] /\ s[u2] = text[u2] /\ s[u3] = text[u3]
    <3>1. u1 \in 1 .. w /\ u2 \in 1 .. w /\ u3 \in 1 .. w
      BY ONLY <1>2, <1>16, <1>20, <2>1
    <3>2. QED
      BY ONLY <1>2, <3>1
  <2>3. CASE b[3] = Equal
    <3>1. turn(s, q) = turn(text, q)
      BY ONLY <1>5, <1>7, <1>9, <1>14, <1>16, <2>1, <2>2, <2>3 DEF turn
    <3>2. QED
      BY <1>13, <3>1
  <2>4. CASE b[3] # Equal
    <3>1. turn(s, q) = [q EXCEPT !.i = 0]
      BY ONLY <1>5, <1>7, <1>9, <1>16, <2>1, <2>2, <2>4 DEF turn
    <3>2. QED
      BY <1>11, <2>1, <3>1
  <2>5. QED
    BY <2>3, <2>4
<1>17. CASE ~ (u4 <= w) /\ ~ (u3 <= w)
  <2>1. known(s, known(s, known(s, q.i) + 1) + 1) = w + 1
    <3>1. CASE u1 <= w /\ u2 <= w
      BY ONLY <1>7, <1>9, <1>17, <3>1
    <3>2. CASE u1 <= w /\ ~ (u2 <= w)
      BY ONLY <1>7, <1>9, <1>10, <3>2
    <3>3. CASE ~ (u1 <= w)
      BY ONLY <1>7, <1>9, <1>10, <3>3
    <3>4. QED
      BY <3>1, <3>2, <3>3
  <2>2. w + 1 > Len(s) /\ w < u4
    BY ONLY <1>2, <1>17, <1>20
  <2>3. turn(s, q) = [q EXCEPT !.i = 0]
    BY ONLY <1>7, <2>1, <2>2, TurnEnds
  <2>4. QED
    BY <1>11, <2>2, <2>3
<1>18. QED
  BY <1>15, <1>16, <1>17

LEMMA TurnReadsOn ==
  ASSUME NEW data \in Seq(Byte), NEW text, NEW f, Laid(text, data, f, Groups(data)),
         NEW w, NEW s, CutAt(text, w, s), NEW m \in Nat, NEW q, GotCut(data, f, w, m, q)
  PROVE  GotCut(data, f, w, m + 1, turn(s, q))
<1>1. PICK L \in Nat : L = Len(text)
  BY LenProperties DEF Laid
<1>2. PICK n \in Nat : n = Groups(data)
  <2>1. Len(data) \in Nat
    OBVIOUS
  <2>2. QED
    BY <2>1 DEF Groups
<1>3. q \in Read /\ \/ m < n /\ q.data = SubSeq(data, 1, 3 * m) /\ q.i = f[4 * m] + 1
                    \/ m >= n /\ q.data = data /\ q.i \in {0, f[4 * n] + 1}
                    \/ q.i = 0 /\ Whole(data, f, w, q.data)
  BY <1>2 DEF Got, GotCut
<1>4. CASE m < n /\ q.data = SubSeq(data, 1, 3 * m) /\ q.i = f[4 * m] + 1
  BY ONLY <1>2, <1>3, <1>4, data \in Seq(Byte), Laid(text, data, f, Groups(data)), CutAt(text, w, s),
          m \in Nat, TurnCut
<1>5. CASE q.i = 0 /\ Whole(data, f, w, q.data)
  <2>1. turn(s, q) = q
    BY <1>5 DEF turn
  <2>2. QED
    BY <1>3, <1>5, <2>1 DEF GotCut
<1>6. CASE m >= n /\ q.data = data /\ q.i = 0
  <2>1. turn(s, q) = q
    BY <1>6 DEF turn
  <2>2. m + 1 >= n
    BY <1>6
  <2>3. QED
    BY <1>2, <1>3, <1>6, <2>1, <2>2 DEF Got, GotCut
<1>7. CASE m >= n /\ q.data = data /\ q.i = f[4 * n] + 1
  <2>1. w \in 0 .. L /\ Len(s) = w
    BY <1>1 DEF CutAt
  <2>2. f[4 * n] \in Nat /\ known(text, q.i) = L + 1
    <3>1. 4 * n \in 0 .. 4 * n /\ ~ (4 * n < 4 * n)
      OBVIOUS
    <3>2. known(text, f[4 * n] + 1) = IF 4 * n < 4 * n THEN f[4 * n + 1] ELSE Len(text) + 1
      BY <1>2, <3>1, LaidKnown
    <3>3. f[4 * n] \in 0 .. L
      BY <1>1, <1>2, <3>1 DEF Laid
    <3>4. QED
      BY <1>1, <1>7, <3>1, <3>2, <3>3
  <2>3. known(s, q.i) = w + 1
    <3>1. PICK lo \in Nat \ {0} : lo = q.i
      BY <1>7, <2>2
    <3>2. known(s, lo) = IF known(text, lo) <= w THEN known(text, lo) ELSE w + 1
      BY ONLY lo \in Nat \ {0}, CutAt(text, w, s), CutKnown
    <3>3. QED
      BY <2>1, <2>2, <3>1, <3>2
  <2>4. known(s, (w + 1) + 1) = w + 1
    <3>1. (w + 1) + 1 \in Nat \ {0} /\ w < (w + 1) + 1
      BY <2>1
    <3>2. QED
      BY ONLY <3>1, CutAt(text, w, s), CutBehind
  <2>5. w + 1 > Len(s) /\ q.i # 0
    BY <1>7, <2>1, <2>2
  <2>6. turn(s, q) = [q EXCEPT !.i = 0]
    BY ONLY <2>3, <2>4, <2>5, TurnEnds
  <2>7. PICK r : r = turn(s, q)
    OBVIOUS
  <2>8. r \in Read /\ r.data = data /\ r.i = 0
    BY <1>3, <1>7, <2>6, <2>7 DEF Read
  <2>9. m + 1 >= n
    BY <1>7
  <2>10. GotCut(data, f, w, m + 1, r)
    BY <1>2, <2>8, <2>9 DEF Got, GotCut
  <2>11. QED
    BY ONLY <2>7, <2>10
<1>8. QED
  BY <1>3, <1>4, <1>5, <1>6, <1>7

(* There are as many turns as characters, and the k-th of those that are known
   stands in the k-th place or behind it.                                    *)
LEMMA PlacesGrow ==
  ASSUME NEW data, NEW n \in Nat, NEW text, NEW f, Laid(text, data, f, n)
  PROVE  \A k \in 0 .. 4 * n : f[k] \in 0 .. Len(text) /\ k <= f[k]
<1>1. PICK L \in Nat : L = Len(text)
  BY LenProperties DEF Laid
<1>2. /\ \A j \in 0 .. 4 * n : f[j] \in 0 .. L
      /\ f[0] = 0
      /\ \A j, k \in 0 .. 4 * n : j < k => f[j] < f[k]
  BY <1>1 DEF Laid
<1> DEFINE G == [k \in 0 .. 4 * n |-> {v \in 0 .. L : k <= v}]
<1>3. 0 \in 0 .. 4 * n /\ 0 \in Int /\ 4 * n \in Int
  OBVIOUS
<1>4. f[0] \in G[0]
  BY <1>2, <1>3
<1>5. ASSUME NEW k \in 0 + 1 .. 4 * n, f[k - 1] \in G[k - 1] PROVE f[k] \in G[k]
  <2>1. k - 1 \in 0 .. 4 * n /\ k \in 0 .. 4 * n /\ k - 1 < k
    OBVIOUS
  <2>2. f[k - 1] >= k - 1 /\ f[k - 1] \in 0 .. L
    BY <1>5, <2>1
  <2>3. f[k] \in 0 .. L /\ f[k - 1] < f[k]
    BY <1>2, <2>1
  <2>4. k <= f[k]
    BY <2>2, <2>3
  <2>5. QED
    BY <2>1, <2>3, <2>4
<1>6. \A k \in 0 .. 4 * n : f[k] \in G[k]
  <2> HIDE DEF G
  <2>1. QED
    BY ONLY <1>3, <1>4, <1>5, StaysUpwards
<1>7. QED
  BY <1>1, <1>6

(* What get makes of the first characters of such a text.                    *)
LEMMA CutIsRead ==
  ASSUME NEW data \in Seq(Byte), NEW text, NEW f, Laid(text, data, f, Groups(data)),
         NEW w, NEW s, CutAt(text, w, s)
  PROVE  Whole(data, f, w, get(s))
<1> DEFINE L == Len(s)
           a == [data |-> <<>>, i |-> 1]
           F == [t \in 1 .. L |-> [q \in Read |-> turn(s, q)]]
           G == [t \in 0 .. L |-> {q \in Read : GotCut(data, f, w, t, q)}]
           loop(c) == [t \in 0 .. L |-> IF t = 0 THEN a ELSE turn(s, c[t - 1])]
           c0 == CHOOSE c : c = loop(c)
<1>1. L \in Nat /\ w = L
  BY LenProperties DEF CutAt
<1>2. PICK n \in Nat : n = Groups(data) /\ (n = 0 => Len(data) = 0)
  <2>1. Len(data) \in Nat
    OBVIOUS
  <2>2. QED
    BY <2>1 DEF Groups
<1>4. get(s) = c0[L].data
  BY DEF get, turn
<1> HIDE DEF L
<1>5. \A t \in 1 .. L : t \in 0 .. L /\ t - 1 \in 0 .. L /\ t # 0 /\ t - 1 \in Nat /\ t - 1 + 1 = t
  BY <1>1
<1>6. 0 \in 0 .. L /\ L \in 0 .. L /\ 0 \in Int /\ L \in Int /\ 0 <= L
  BY <1>1
<1>7. a \in G[0]
  <2>1. PICK e, r : e = <<>> /\ r = [data |-> e, i |-> 1]
    OBVIOUS
  <2>2. r \in Read /\ r.data = e /\ r.i = 1
    BY <2>1 DEF Read
  <2>3. e = SubSeq(data, 1, 3 * 0)
    <3>1. PICK lo \in Int, hi \in Int : lo = 1 /\ hi = 3 * 0 /\ hi < lo
      OBVIOUS
    <3>2. SubSeq(data, lo, hi) = <<>>
      BY ONLY <3>1, SubSeqEmpty
    <3>3. QED
      BY ONLY <2>1, <3>1, <3>2
  <2>4. f[4 * 0] = 0 /\ f[4 * 0] + 1 = 1
    <3>1. f[0] = 0 /\ 4 * 0 = 0
      BY DEF Laid
    <3>2. QED
      BY <3>1
  <2>5. Got(data, f, 0, r)
    <3>1. CASE n = 0
      <4>1. e = data
        <5>1. Len(data) = 0
          BY <1>2, <3>1
        <5>2. data = <<>>
          BY <5>1
        <5>3. QED
          BY ONLY <2>1, <5>2
      <4>2. 0 >= n /\ 4 * n = 4 * 0
        BY <3>1
      <4>3. QED
        BY ONLY <1>2, <2>2, <2>4, <4>1, <4>2 DEF Got
    <3>2. CASE n # 0
      <4>1. 0 < n
        BY <3>2
      <4>2. QED
        BY ONLY <1>2, <2>2, <2>3, <2>4, <4>1 DEF Got
    <3>3. QED
      BY <3>1, <3>2
  <2>6. r \in G[0]
    BY <1>6, <2>2, <2>5 DEF GotCut
  <2> HIDE DEF G
  <2>7. QED
    BY <2>1, <2>6
<1> HIDE DEF a
<1>8. ASSUME NEW t \in 1 .. L, NEW q \in G[t - 1] PROVE q \in Read /\ turn(s, q) \in G[t]
  <2>1. q \in Read /\ GotCut(data, f, w, t - 1, q)
    BY <1>5
  <2>2. PICK m \in Nat : m = t - 1 /\ m + 1 = t
    BY <1>5
  <2>3. GotCut(data, f, w, m, q)
    BY ONLY <2>1, <2>2
  <2>4. GotCut(data, f, w, m + 1, turn(s, q))
    BY ONLY <2>2, <2>3, data \in Seq(Byte), Laid(text, data, f, Groups(data)), CutAt(text, w, s), TurnReadsOn
  <2>5. PICK r : r = turn(s, q)
    OBVIOUS
  <2>6. GotCut(data, f, w, t, r)
    BY ONLY <2>2, <2>4, <2>5
  <2>7. r \in Read
    BY ONLY <2>6 DEF GotCut
  <2>8. r \in G[t]
    BY <1>5, <2>6, <2>7
  <2>9. QED
    BY ONLY <2>1, <2>5, <2>8
<1>9. \A t \in 1 .. L, q \in Read : F[t][q] = turn(s, q)
  OBVIOUS
<1>10. PICK u : Upwards(u, 0, L, a, F) /\ \A t \in 0 .. L : u[t] \in G[t]
  <2>1. \A t \in 0 + 1 .. L : \A q \in G[t - 1] : F[t][q] \in G[t]
    <3> HIDE DEF F, G
    <3>1. QED
      BY <1>8, <1>9
  <2> HIDE DEF F, G
  <2>2. QED
    BY ONLY <1>6, <1>7, <2>1, UpwardsRun
<1>11. u = loop(u)
  <2>1. u = [t \in 0 .. L |-> IF t = 0 THEN a ELSE F[t][u[t - 1]]]
    <3> HIDE DEF F
    <3>1. QED
      BY <1>10 DEF Upwards
  <2>2. \A t \in 1 .. L : F[t][u[t - 1]] = turn(s, u[t - 1])
    <3> HIDE DEF F, G
    <3>1. QED
      BY <1>5, <1>8, <1>9, <1>10
  <2>3. \A t \in 0 .. L : t = 0 \/ t \in 1 .. L
    BY <1>1
  <2> HIDE DEF F
  <2>4. QED
    BY <2>1, <2>2, <2>3
<1>12. c0 = loop(c0)
  <2> HIDE DEF loop
  <2>1. QED
    BY <1>11
<1>13. \A t \in 0 .. L : c0[t] = IF t = 0 THEN a ELSE turn(s, c0[t - 1])
  <2> HIDE DEF c0
  <2>1. QED
    BY <1>12
<1>14. \A t \in 0 .. L : c0[t] \in G[t]
  <2> HIDE DEF c0, G
  <2>1. c0[0] \in G[0]
    BY <1>6, <1>7, <1>13
  <2>2. \A t \in 0 + 1 .. L : c0[t - 1] \in G[t - 1] => c0[t] \in G[t]
    BY <1>5, <1>8, <1>13
  <2>3. QED
    BY ONLY <1>6, <2>1, <2>2, StaysUpwards
<1>15. GotCut(data, f, w, w, c0[L])
  BY <1>1, <1>6, <1>14
<1> HIDE DEF c0
<1>16. PICK d : d = c0[L].data
  OBVIOUS
<1>17. Whole(data, f, w, d)
  <2>1. \/ w < n /\ d = SubSeq(data, 1, 3 * w)
        \/ d = data
        \/ Whole(data, f, w, d)
    BY ONLY <1>2, <1>15, <1>16 DEF GotCut, Got
  <2>2. CASE w < n /\ d = SubSeq(data, 1, 3 * w)
    <3>1. w \in 0 .. Groups(data) /\ w # Groups(data)
      BY <1>1, <1>2, <2>2
    <3>2. d = Begun(data, w)
      BY ONLY <2>2, <3>1 DEF Begun
    <3>3. PICK k \in 0 .. 4 * n : k = 4 * w + 4
      BY <1>1, <2>2
    <3>4. k <= f[k] /\ f[k] \in 0 .. Len(text)
      BY ONLY <1>2, Laid(text, data, f, Groups(data)), n \in Nat, k \in 0 .. 4 * n, PlacesGrow
    <3>5. w < f[4 * w + 4]
      BY <1>1, <3>3, <3>4
    <3>6. QED
      BY ONLY <3>1, <3>2, <3>5 DEF Whole
  <2>3. CASE d = data
    <3>1. n \in 0 .. Groups(data)
      BY <1>2
    <3>2. QED
      BY ONLY <1>2, <2>3, <3>1 DEF Whole, Begun
  <2>4. QED
    BY ONLY <2>1, <2>2, <2>3
<1>18. QED
  BY <1>4, <1>16, <1>17

(* All of the text holds all of the groups.                                  *)
LEMMA LaidIsRead ==
  ASSUME NEW data \in Seq(Byte), NEW text, NEW f, Laid(text, data, f, Groups(data))
  PROVE  get(text) = data
<1>1. PICK L \in Nat : L = Len(text)
  BY LenProperties DEF Laid
<1>2. CutAt(text, L, text)
  <2>1. text \in Seq(Int) /\ L \in 0 .. Len(text)
    BY <1>1 DEF Laid
  <2>2. QED
    BY <1>1, <2>1 DEF CutAt
<1>3. Whole(data, f, L, get(text))
  BY <1>2, CutIsRead
<1>4. PICK k \in 0 .. Groups(data) : get(text) = Begun(data, k) /\ (k = Groups(data) \/ L < f[4 * k + 4])
  BY ONLY <1>3 DEF Whole
<1>5. PICK n \in Nat : n = Groups(data)
  <2>1. Len(data) \in Nat
    OBVIOUS
  <2>2. QED
    BY <2>1 DEF Groups
<1>6. k = n
  <2>1. SUFFICES ASSUME k # n PROVE FALSE
    OBVIOUS
  <2>2. PICK j \in 0 .. 4 * n : j = 4 * k + 4
    BY <1>5, <2>1
  <2>3. f[j] \in 0 .. L
    BY <1>1, <1>5 DEF Laid
  <2>4. L < f[j]
    BY <1>4, <1>5, <2>1, <2>2
  <2>5. QED
    BY <2>3, <2>4
<1>7. QED
  BY ONLY <1>4, <1>5, <1>6 DEF Begun

(* What binaryToXml writes of data of whatever length, binaryFromXml reads as
   the data, and also if the text was broken into lines in any other way.    *)
THEOREM DataReadBack ==
  ASSUME NEW data \in Seq(Byte)
  PROVE  /\ binaryFromXml(binaryToXml(data)) = data
         /\ \A text \in Seq(Int) : Broken(binaryToXml(data), text) => binaryFromXml(text) = data
<1>1. Groups(data) \in Nat
  <2>1. Len(data) \in Nat
    OBVIOUS
  <2>2. QED
    BY <2>1 DEF Groups
<1>2. PICK f : Laid(put(data), data, f, Groups(data))
  BY PutIsLaid
<1>3. ASSUME NEW text \in Seq(Int), Broken(put(data), text) PROVE get(text) = data
  <2>1. PICK e : Laid(text, data, e, Groups(data))
    BY <1>1, <1>2, <1>3, LaidWherever
  <2>2. QED
    BY <2>1, LaidIsRead
<1>4. get(put(data)) = data
  BY <1>2, LaidIsRead
<1>5. QED
  BY <1>3, <1>4 DEF binaryFromXml, binaryToXml

LEMMA CardinalityThrough ==
  ASSUME NEW S, NEW K \in Nat, NEW f, \A j \in S : \E m \in 1 .. K : f[m] = j
  PROVE  IsFiniteSet(S) /\ Cardinality(S) \in Nat /\ Cardinality(S) <= K
<1> DEFINE place == [j \in S |-> CHOOSE m \in 1 .. K : f[m] = j]
<1>1. ASSUME NEW j \in S PROVE place[j] \in 1 .. K /\ f[place[j]] = j
  <2>1. \E m \in 1 .. K : f[m] = j
    OBVIOUS
  <2>2. (CHOOSE m \in 1 .. K : f[m] = j) \in 1 .. K /\ f[CHOOSE m \in 1 .. K : f[m] = j] = j
    BY <2>1
  <2>3. QED
    BY <2>2
<1>2. place = [j \in S |-> place[j]]
  OBVIOUS
<1> HIDE DEF place
<1>3. place \in [S -> 1 .. K]
  BY <1>1, <1>2
<1>4. \A j, l \in S : place[j] = place[l] => j = l
  BY <1>1
<1>5. place \in Injection(S, 1 .. K)
  BY <1>3, <1>4 DEF Injection, IsInjective
<1>6. IsFiniteSet(1 .. K) /\ Cardinality(1 .. K) = K
  <2>1. 1 \in Int /\ K \in Int /\ (IF 1 > K THEN 0 ELSE K - 1 + 1) = K
    OBVIOUS
  <2>2. QED
    BY <2>1, FS_Interval
<1>7. IsFiniteSet(S) /\ Cardinality(S) <= K
  BY <1>5, <1>6, FS_Injection
<1>8. QED
  BY <1>7, FS_CardinalityType

LEMMA BeginningIsPrefix ==
  ASSUME NEW data \in Seq(Byte), NEW v \in Nat, v <= Len(data)
  PROVE  IsPrefix(SubSeq(data, 1, v), data) /\ Len(SubSeq(data, 1, v)) = v
<1>1. PICK x \in Int, y \in Int : x = 1 /\ y = v
  OBVIOUS
<1>2. \A k \in x .. y : data[k] \in Byte
  <2>1. \A k \in 1 .. Len(data) : data[k] \in Byte
    BY ElementOfSeq
  <2>2. PICK D \in Nat : D = Len(data)
    BY LenProperties
  <2>3. QED
    BY <1>1, <2>1, <2>2
<1>3. /\ SubSeq(data, x, y) \in Seq(Byte) /\ Len(SubSeq(data, x, y)) = IF x <= y THEN y - x + 1 ELSE 0
  BY ONLY <1>2, SubSeqProperties
<1>4. PICK s : s = SubSeq(data, 1, v)
  OBVIOUS
<1>5. s = SubSeq(data, x, y) /\ (IF x <= y THEN y - x + 1 ELSE 0) = v
  BY <1>1, <1>4
<1>6. s \in Seq(Byte) /\ Len(s) = v
  BY ONLY <1>3, <1>5
<1>7. SubSeq(s, 1, Len(s)) = s
  BY ONLY <1>6, WholeSubSeq
<1>8. IsPrefix(s, data)
  BY ONLY <1>4, <1>6, <1>7, v <= Len(data) DEF IsPrefix
<1>9. QED
  BY ONLY <1>4, <1>6, <1>8

(* Of a text that breaks off, what is read are the first of the data, and at
   least those of every four characters that are there.                      *)
THEOREM DataCutShort ==
  ASSUME NEW data \in Seq(Byte), NEW text \in Seq(Int), Broken(binaryToXml(data), text),
         NEW w \in 0 .. Len(text)
  PROVE  LET got == binaryFromXml(SubSeq(text, 1, w))
             fours == Cardinality({j \in 1 .. w : text[j] # Unknown}) \div 4
         IN /\ IsPrefix(got, data)
            /\ Len(got) >= 3 * fours \/ got = data
<1>1. PICK n \in Nat, D \in Nat : n = Groups(data) /\ D = Len(data) /\ n = (D + 2) \div 3
  <2>1. Len(data) \in Nat
    OBVIOUS
  <2>2. QED
    BY <2>1 DEF Groups
<1>2. PICK h : Laid(put(data), data, h, Groups(data))
  BY PutIsLaid
<1>3. PICK f : Laid(text, data, f, Groups(data))
  BY <1>1, <1>2, LaidWherever DEF binaryToXml
<1>4. PICK L \in Nat : L = Len(text) /\ w \in 0 .. L
  BY LenProperties
<1>5. PICK s : s = SubSeq(text, 1, w)
  OBVIOUS
<1>6. CutAt(text, w, s)
  <2>1. PICK x \in Int, y \in Int : x = 1 /\ y = w
    BY <1>4
  <2>2. \A k \in x .. y : text[k] \in Int
    <3>1. \A k \in 1 .. Len(text) : text[k] \in Int
      BY ElementOfSeq
    <3>2. \A k \in x .. y : k \in 1 .. Len(text)
      BY <1>4, <2>1
    <3>3. QED
      BY ONLY <3>1, <3>2
  <2>3. /\ SubSeq(text, x, y) \in Seq(Int) /\ Len(SubSeq(text, x, y)) = IF x <= y THEN y - x + 1 ELSE 0
        /\ \A k \in 1 .. y - x + 1 : SubSeq(text, x, y)[k] = text[x + k - 1]
    BY ONLY <2>2, SubSeqProperties
  <2>4. s = SubSeq(text, x, y)
    BY <1>5, <2>1
  <2>5. (IF x <= y THEN y - x + 1 ELSE 0) = w /\ y - x + 1 = w /\ \A k \in 1 .. w : x + k - 1 = k
    BY <1>4, <2>1
  <2>6. s \in Seq(Int) /\ Len(s) = w /\ \A j \in 1 .. w : s[j] = text[j]
    BY ONLY <2>3, <2>4, <2>5
  <2>7. QED
    BY ONLY <2>6, text \in Seq(Int), w \in 0 .. Len(text) DEF CutAt
<1>7. Whole(data, f, w, get(s))
  BY ONLY <1>3, <1>6, data \in Seq(Byte), CutIsRead
<1>8. PICK k \in 0 .. Groups(data) : get(s) = Begun(data, k) /\ (k = Groups(data) \/ w < f[4 * k + 4])
  BY ONLY <1>7 DEF Whole
<1>9. PICK got : got = get(s)
  OBVIOUS
<1> DEFINE K == {j \in 1 .. w : text[j] # Unknown}
<1>10. IsPrefix(got, data) /\ (Len(got) >= 3 * (Cardinality(K) \div 4) \/ got = data)
  <2>1. CASE k = n
    <3>1. got = data
      BY ONLY <1>1, <1>8, <1>9, <2>1 DEF Begun
    <3>2. SubSeq(data, 1, D) = data /\ D <= Len(data)
      BY <1>1, WholeSubSeq
    <3>3. IsPrefix(data, data)
      BY ONLY <1>1, <3>2 DEF IsPrefix
    <3>4. QED
      BY ONLY <3>1, <3>3
  <2>2. CASE k # n
    <3>1. PICK v \in Nat : v = 3 * k /\ v <= Len(data)
      BY <1>1, <2>2
    <3>2. got = SubSeq(data, 1, v)
      BY ONLY <1>1, <1>8, <1>9, <2>2, <3>1 DEF Begun
    <3>3. IsPrefix(got, data) /\ Len(got) = v
      BY ONLY <3>1, <3>2, data \in Seq(Byte), v \in Nat, BeginningIsPrefix
    <3>4. PICK M \in 1 .. 4 * n : M = 4 * k + 4 /\ M \in 0 .. 4 * n
      BY <1>1, <2>2
    <3>5. w < f[M]
      BY <1>1, <1>8, <2>2, <3>4
    <3>6. ASSUME NEW j \in K PROVE \E m \in 1 .. 4 * k + 3 : f[m] = j
      <4>1. j \in 1 .. w /\ text[j] # Unknown /\ j \in 1 .. Len(text)
        BY <1>4
      <4>2. /\ \A l \in 0 .. 4 * n : f[l] \in 0 .. L
            /\ \A l, m \in 0 .. 4 * n : l < m => f[l] < f[m]
            /\ \A l \in 1 .. L : (\A m \in 1 .. 4 * n : f[m] # l) => text[l] = Unknown
        BY <1>1, <1>3, <1>4 DEF Laid
      <4>3. PICK m \in 1 .. 4 * n : f[m] = j
        BY <1>4, <4>1, <4>2
      <4>4. m < M
        <5>1. SUFFICES ASSUME ~ (m < M) PROVE FALSE
          OBVIOUS
        <5>2. m = M \/ M < m
          BY <5>1
        <5>3. m \in 0 .. 4 * n
          OBVIOUS
        <5>4. f[M] <= j
          <6>1. CASE m = M
            BY <4>1, <4>3, <6>1
          <6>2. CASE M < m
            <7>1. f[M] < f[m] /\ f[M] \in 0 .. L
              BY ONLY <3>4, <4>2, <5>3, <6>2
            <7>2. QED
              BY ONLY <1>4, <4>1, <4>3, <7>1
          <6>3. QED
            BY <5>2, <6>1, <6>2
        <5>5. QED
          BY <1>4, <3>4, <3>5, <4>1, <4>2, <5>4
      <4>5. m \in 1 .. 4 * k + 3
        BY <3>4, <4>4
      <4>6. QED
        BY <4>3, <4>5
    <3> HIDE DEF K
    <3>7. PICK c \in Nat : c = Cardinality(K) /\ c <= 4 * k + 3
      <4>1. 4 * k + 3 \in Nat
        BY <1>1
      <4>2. Cardinality(K) \in Nat /\ Cardinality(K) <= 4 * k + 3
        BY ONLY <3>6, <4>1, CardinalityThrough
      <4>3. QED
        BY ONLY <4>2
    <3>8. 3 * (c \div 4) <= v
      BY <1>1, <3>1, <3>7
    <3>9. QED
      BY ONLY <3>3, <3>7, <3>8, c \in Nat, v \in Nat
  <2>3. QED
    BY ONLY <2>1, <2>2
<1>11. QED
  BY ONLY <1>5, <1>9, <1>10 DEF binaryFromXml
==============================================================================
