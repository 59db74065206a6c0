------------------------------- MODULE Kruskal -------------------------------
(***************************************************************************)
(* misc/Library/Algorythms.h, namespace Template: a Graphic that is built  *)
(* with AddNodes and AddEdge, its selection sort by weight, and            *)
(* MST_KRUSKAL with the sets it joins. The graph is passed by value but    *)
(* its array is not copied: a call leaves the caller's edges sorted, and   *)
(* more edges may be added and the function called again.                  *)
(*                                                                         *)
(* An edge may name a node nobody added. found and join return -1 for it.  *)
(***************************************************************************)
EXTENDS Integers, Sequences, FiniteSets

CONSTANTS N,         \* the nodes of the graph, CountOfNode
          Weight,    \* weights of edges
          MaxEdges   \* bound on the edges added

ASSUME KruskalAssumption ==
  /\ N \in Nat
  /\ Weight \subseteq Int
  /\ MaxEdges \in Nat

Node == 0 .. N - 1
Edge == [u : 0 .. N, v : 0 .. N, w : Weight]

VARIABLES
  phase,   \* "build" outside MST_KRUSKAL, "sort" and "join" inside
  edge,    \* the edges of the graph
  i,       \* index of the loop, from 1
  sets,    \* the array of SETS
  A        \* the edges of the tree

vars == <<phase, edge, i, sets, A>>

TypeOK ==
  /\ phase \in {"build", "sort", "join"}
  /\ edge \in Seq(Edge) /\ Len(edge) <= MaxEdges
  /\ i \in 1 .. Len(edge) + 1
  /\ sets \in [Node -> Node]
  /\ A \in Seq(Edge)

SETS == [x \in Node |-> x]

Init ==
  /\ phase = "build"
  /\ edge = << >> /\ A = << >>
  /\ i = 1
  /\ sets = SETS

AddEdge(e) ==
  /\ phase = "build"
  /\ Len(edge) < MaxEdges
  /\ edge' = Append(edge, e)
  /\ UNCHANGED <<phase, i, sets, A>>

MST_KRUSKAL ==
  /\ phase = "build"
  /\ A' = << >>
  /\ sets' = SETS
  /\ i' = 1
  /\ phase' = "sort"
  /\ UNCHANGED edge

------------------------------------------------------------------------------
(* SortEdgeByWeight: the first of the lightest edges from i on changes places
   with edge i.                                                             *)
lightest(p) ==
  /\ p \in i .. Len(edge)
  /\ \A j \in i .. Len(edge) : edge[p].w <= edge[j].w
  /\ \A j \in i .. p - 1 : edge[p].w < edge[j].w

\* Faults: the edge at i is overwritten; the last two edges are not compared.
SelectEdge_Overwrites ==
  /\ phase = "sort" /\ i <= Len(edge)
  /\ \E p \in DOMAIN edge :
       /\ lightest(p)
       /\ edge' = [edge EXCEPT ![i] = edge[p]]
  /\ i' = i + 1
  /\ UNCHANGED <<phase, sets, A>>

SortedAll_OneEarly ==
  /\ phase = "sort" /\ i >= Len(edge) - 1
  /\ phase' = "join"
  /\ i' = 1
  /\ UNCHANGED <<edge, sets, A>>

SelectEdge ==
  /\ phase = "sort" /\ i <= Len(edge)
  /\ \E p \in DOMAIN edge :
       /\ lightest(p)
       /\ edge' = [edge EXCEPT ![i] = edge[p], ![p] = edge[i]]
  /\ i' = i + 1
  /\ UNCHANGED <<phase, sets, A>>

SortedAll ==
  /\ phase = "sort" /\ i > Len(edge)
  /\ phase' = "join"
  /\ i' = 1
  /\ UNCHANGED <<edge, sets, A>>

------------------------------------------------------------------------------
found(one) == IF one \in Node THEN sets[one] ELSE -1

relabelled(change, newset) ==
  [x \in Node |-> IF sets[x] = change THEN newset ELSE sets[x]]

\* Fault: only the node itself changes its set.
join_OneNode(a, b) ==
  sets' = IF {a, b} \subseteq Node THEN [sets EXCEPT ![a] = sets[b]] ELSE sets

(* The members of the set with the larger number get the smaller one.       *)
join(a, b) ==
  IF {a, b} \subseteq Node
  THEN sets' = IF sets[a] < sets[b]
               THEN relabelled(sets[b], sets[a])
               ELSE relabelled(sets[a], sets[b])
  ELSE UNCHANGED sets

TakeEdge ==
  /\ phase = "join" /\ i <= Len(edge)
  /\ found(edge[i].u) # found(edge[i].v)
  /\ A' = Append(A, edge[i])
  /\ join(edge[i].u, edge[i].v)
  /\ i' = i + 1
  /\ UNCHANGED <<phase, edge>>

DropEdge ==
  /\ phase = "join" /\ i <= Len(edge)
  /\ found(edge[i].u) = found(edge[i].v)
  /\ i' = i + 1
  /\ UNCHANGED <<phase, edge, sets, A>>

Return ==
  /\ phase = "join" /\ i > Len(edge)
  /\ phase' = "build"
  /\ i' = 1
  /\ UNCHANGED <<edge, sets, A>>

Next ==
  \/ \E e \in Edge : AddEdge(e)
  \/ MST_KRUSKAL
  \/ SelectEdge \/ SortedAll
  \/ TakeEdge \/ DropEdge \/ Return

Spec == Init /\ [][Next]_vars

------------------------------------------------------------------------------
(* Edges between nodes of the graph.                                        *)
inner(e) == e.u \in Node /\ e.v \in Node

(* The nodes that a set of edges connects: no set of nodes that the edges do
   not leave holds one without the other.                                   *)
closed(E, S) == \A e \in E : e.u \in S <=> e.v \in S

connected(E, a, b) == \A S \in SUBSET Node : closed(E, S) /\ a \in S => b \in S

tree == {A[k] : k \in {k \in DOMAIN A : inner(A[k])}}

(* The array of SETS holds the components of the tree built so far: two nodes
   have the same number exactly when edges taken connect them.              *)
SetsAreComponents ==
  \A a, b \in Node : sets[a] = sets[b] <=> connected(tree, a, b)

(* found returns a member of the node's own set, the smallest: the number
   names the set and no other.                                              *)
NamedByMember == \A x \in Node : sets[sets[x]] = sets[x] /\ sets[x] <= x

(* After any sequence of joins SETS names the components of the tree, each by
   its smallest node.                                                       *)
SetsSound == TypeOK /\ SetsAreComponents /\ NamedByMember

(* The sort does its work before the edges are taken: the loop meets them
   lightest first.                                                          *)
LightestFirst ==
  phase = "join" => \A j, k \in DOMAIN edge : j <= k => edge[j].w <= edge[k].w

(* The edges taken contain no cycle: each has brought the number of sets down
   by one. With N nodes there are fewer than N of them, which is what the
   array of the new Graphic has to hold.                                    *)
Forest ==
  Cardinality({k \in DOMAIN A : inner(A[k])}) + Cardinality({sets[x] : x \in Node}) = N

(* The weight of the edges at the places I: the sum, place by place.         *)
sums(s, I) ==
  LET sum[k \in 0 .. Len(s)] ==
        IF k = 0 THEN 0 ELSE sum[k - 1] + (IF k \in I THEN s[k].w ELSE 0)
  IN sum

weight(s, I) == sums(s, I)[Len(s)]

innerOf(s) == {k \in DOMAIN s : inner(s[k])}

edgesAt(I) == {edge[k] : k \in I}

(* E connects whatever the graph connects.                                  *)
spans(E) == \A k \in innerOf(edge) : connected(E, edge[k].u, edge[k].v)

(* What MST_KRUSKAL returns connects what the graph connects, and any other
   choice of edges that does, and has as many edges, weighs as much or more;
   one of more edges too if no weight is negative.                          *)
MinimumWeight ==
  phase = "join" /\ i > Len(edge) =>
    /\ spans(tree)
    /\ \A I \in SUBSET innerOf(edge) :
         /\ spans(edgesAt(I))
         /\ \/ Cardinality(I) = Cardinality(innerOf(A))
            \/ \A k \in DOMAIN edge : edge[k].w >= 0
         => weight(A, innerOf(A)) <= weight(edge, I)

(* The loop meets sorted edges, takes a forest, and what it returns is a
   minimum spanning forest.                                                 *)
MinimumForest == LightestFirst /\ Forest /\ MinimumWeight

(* Sorting loses no edge and makes none up: the caller, whose array it is,
   keeps the graph it built, in another order.                              *)
rearranged(s, t) ==
  \E from \in [DOMAIN s -> DOMAIN s] :
    /\ \A j, k \in DOMAIN s : from[j] = from[k] => j = k
    /\ t = [k \in DOMAIN s |-> s[from[k]]]

EdgesKept == [][phase # "build" => rearranged(edge, edge')]_vars

(* SETS keeps its promise of an equivalence relation.                       *)
P == INSTANCE Partition WITH same <- {p \in Node \X Node : sets[p[1]] = sets[p[2]]}

ImplementsPartition == P!Spec
==============================================================================
