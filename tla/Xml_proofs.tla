----------------------------- MODULE Xml_proofs ------------------------------
(* Theorems about the trees of CXMLNode (XmlTree), the nodes of TinyXML      *)
(* (TinyXmlNodes) and its attributes (TinyXmlAttributes), for any storage,   *)
(* tags, names and values.                                                   *)
(*                                                                           *)
(* What holds is stated of any live nodes, pointers and children, not of the *)
(* variables, so that a step that removes one tree and makes another can be  *)
(* followed through the state in between.                                    *)
EXTENDS MCXml, FiniteSetTheorems, SequenceTheorems, WellFoundedInduction, TLAPS

Closed(ch, S) == \A p \in S : ch[p] \subseteq S
Below(ch, n) == {m \in Node : \A S \in SUBSET Node : n \in S /\ Closed(ch, S) => m \in S}
Parents(l, ch, n) == {p \in l : n \in ch[p]}
AllBelow(ch, S) == UNION {Below(ch, n) : n \in S}

(* Live nodes point to live nodes, no two of them to the same one, and none  *)
(* leads back to itself; a node is referred to if and only if it has a       *)
(* parent, but for those that were copied along with one above them.         *)
Forest(l, rf, ch, in) ==
  /\ l \subseteq Node /\ in \subseteq l
  /\ rf \in [Node -> Int] /\ ch \in [Node -> SUBSET Node]
  /\ \A p \in l : ch[p] \subseteq l
  /\ \A p, q \in l : \A m \in ch[p] : m \in ch[q] => p = q
  /\ \A n \in l : \A q \in Below(ch, n) : n \notin ch[q]
  /\ \A n \in l : rf[n] = IF n \in in \/ Parents(l, ch, n) = {} THEN 0 ELSE 1
  /\ \A n \in in : Parents(l, ch, n) # {}

LEMMA LeastNumber ==
  ASSUME NEW T, T \subseteq Nat, T # {}
  PROVE  \E x \in T : \A y \in T : x <= y
<1>1. PICK x \in T : \A y \in T : <<y, x>> \notin OpToRel(<, Nat)
  BY WFMin, NatLessThanWellFounded
<1>2. \A y \in T : ~ (y < x)
  BY <1>1 DEF OpToRel
<1>3. QED
  BY <1>2

(* -------------------- below a node --------------------------------------- *)

LEMMA BelowFacts ==
  ASSUME NEW ch \in [Node -> SUBSET Node], NEW n \in Node
  PROVE  /\ n \in Below(ch, n) /\ Below(ch, n) \subseteq Node
         /\ Closed(ch, Below(ch, n))
         /\ \A S \in SUBSET Node : n \in S /\ Closed(ch, S) => Below(ch, n) \subseteq S
<1>1. Closed(ch, Below(ch, n))
  <2>1. ASSUME NEW p \in Below(ch, n), NEW m \in ch[p] PROVE m \in Below(ch, n)
    <3>1. p \in Node /\ m \in Node
      BY DEF Below
    <3>2. ASSUME NEW S \in SUBSET Node, n \in S, Closed(ch, S) PROVE m \in S
      BY <3>2 DEF Below, Closed
    <3>3. QED
      BY <3>1, <3>2 DEF Below
  <2>2. QED
    BY <2>1 DEF Closed
<1>2. QED
  BY <1>1 DEF Below

(* What is below a node is the node, or the child of one below it.           *)
LEMMA BelowParent ==
  ASSUME NEW ch \in [Node -> SUBSET Node], NEW n \in Node, NEW m \in Below(ch, n), m # n
  PROVE  \E q \in Below(ch, n) : m \in ch[q]
<1> DEFINE S == {n} \cup {x \in Below(ch, n) : \E q \in Below(ch, n) : x \in ch[q]}
<1>1. S \in SUBSET Node /\ S \subseteq Below(ch, n)
  BY BelowFacts
<1>2. Closed(ch, S)
  <2>1. ASSUME NEW p \in S, NEW x \in ch[p] PROVE x \in S
    <3>1. p \in Below(ch, n) /\ x \in Below(ch, n)
      BY <1>1, BelowFacts DEF Closed
    <3>2. QED
      BY <3>1
  <2>2. QED
    BY <2>1 DEF Closed
<1>3. m \in S
  BY <1>1, <1>2, BelowFacts
<1>4. QED
  BY <1>3

LEMMA BelowBelow ==
  ASSUME NEW ch \in [Node -> SUBSET Node], NEW n \in Node, NEW m \in Below(ch, n)
  PROVE  Below(ch, m) \subseteq Below(ch, n)
  BY BelowFacts

LEMMA BelowLive ==
  ASSUME NEW l, NEW rf, NEW ch, NEW in, Forest(l, rf, ch, in), NEW n \in l
  PROVE  Below(ch, n) \subseteq l
  BY BelowFacts DEF Forest, Closed

(* -------------------- removal -------------------------------------------- *)

(* A node that is left points to nothing of what is removed but the nodes    *)
(* the removal began with.                                                   *)
LEMMA RemovalEdge ==
  ASSUME NEW l, NEW rf, NEW ch, NEW in, Forest(l, rf, ch, in), NEW S \in SUBSET l,
         NEW q \in l, q \notin AllBelow(ch, S), NEW m \in ch[q], m \in AllBelow(ch, S)
  PROVE  m \in S
<1>1. PICK s \in S : m \in Below(ch, s)
  BY DEF AllBelow
<1>2. SUFFICES ASSUME m # s PROVE FALSE
  BY <1>1
<1>3. s \in l /\ s \in Node /\ ch \in [Node -> SUBSET Node]
  BY DEF Forest
<1>4. PICK p \in Below(ch, s) : m \in ch[p]
  BY <1>1, <1>2, <1>3, BelowParent
<1>5. p \in l
  BY <1>3, <1>4, BelowLive
<1>6. p = q
  BY <1>4, <1>5 DEF Forest
<1>7. QED
  BY <1>4, <1>6 DEF AllBelow

LEMMA Removal ==
  ASSUME NEW l, NEW rf, NEW ch, NEW in, Forest(l, rf, ch, in), NEW S \in SUBSET l,
         NEW c \in [Node -> SUBSET Node],
         \A q \in l \ AllBelow(ch, S) : c[q] = ch[q] \ AllBelow(ch, S)
  PROVE  /\ Forest(l \ AllBelow(ch, S), rf, c, in \ AllBelow(ch, S))
         /\ \A n \in l \ AllBelow(ch, S) :
              Parents(l \ AllBelow(ch, S), c, n) = Parents(l, ch, n)
<1> DEFINE D == AllBelow(ch, S)
<1>1. /\ l \subseteq Node /\ in \subseteq l /\ rf \in [Node -> Int] /\ ch \in [Node -> SUBSET Node]
      /\ \A p \in l : ch[p] \subseteq l
      /\ \A p, q \in l : \A m \in ch[p] : m \in ch[q] => p = q
      /\ \A n \in l : \A q \in Below(ch, n) : n \notin ch[q]
      /\ \A n \in l : rf[n] = IF n \in in \/ Parents(l, ch, n) = {} THEN 0 ELSE 1
      /\ \A n \in in : Parents(l, ch, n) # {}
  BY DEF Forest
<1>2. \A q \in D : ch[q] \subseteq D
  BY <1>1, BelowFacts DEF AllBelow, Closed
<1>3. \A q \in l \ D : c[q] = ch[q] \ D
  OBVIOUS
<1> HIDE DEF D
<1>4. ASSUME NEW n \in l \ D PROVE Parents(l \ D, c, n) = Parents(l, ch, n)
  BY <1>2, <1>3 DEF Parents
<1>5. ASSUME NEW n \in l \ D, NEW q \in Below(c, n) PROVE n \notin c[q]
  <2>1. n \in Node /\ Below(ch, n) \subseteq l
    BY <1>1, BelowLive
  <2>2. Closed(c, Below(ch, n) \ D) /\ n \in Below(ch, n) \ D
    BY <1>1, <1>3, <2>1, BelowFacts DEF Closed
  <2>3. Below(c, n) \subseteq Below(ch, n) \ D
    BY <1>1, <2>1, <2>2, BelowFacts
  <2>4. q \in Below(ch, n) /\ q \in l \ D
    BY <2>1, <2>3
  <2>5. QED
    BY <1>1, <1>3, <2>4
<1>6. Forest(l \ D, rf, c, in \ D)
  <2>1. \A p \in l \ D : c[p] \subseteq l \ D
    BY <1>1, <1>3
  <2>2. \A p, q \in l \ D : \A m \in c[p] : m \in c[q] => p = q
    BY <1>1, <1>3
  <2>3. \A n \in l \ D : rf[n] = IF n \in in \ D \/ Parents(l \ D, c, n) = {} THEN 0 ELSE 1
    BY <1>1, <1>4
  <2>4. \A n \in in \ D : Parents(l \ D, c, n) # {}
    BY <1>1, <1>4
  <2>5. QED
    BY <1>1, <1>5, <2>1, <2>2, <2>3, <2>4 DEF Forest
<1>7. QED
  BY <1>4, <1>6 DEF D

(* -------------------- new trees ------------------------------------------ *)

(* A node, with children that have none.                                     *)
IsNew(l, rf, ch, n, S, r, c) ==
  /\ n \in Node \ l /\ S \subseteq Node \ l /\ n \notin S
  /\ r \in [Node -> Int] /\ c \in [Node -> SUBSET Node]
  /\ \A k \in l : r[k] = rf[k] /\ c[k] = ch[k]
  /\ r[n] = 0 /\ c[n] = S /\ \A k \in S : r[k] = 1 /\ c[k] = {}

LEMMA Growth ==
  ASSUME NEW l, NEW rf, NEW ch, NEW in, Forest(l, rf, ch, in),
         NEW n, NEW S, NEW r, NEW c, IsNew(l, rf, ch, n, S, r, c)
  PROVE  /\ Forest(l \cup S \cup {n}, r, c, in)
         /\ \A k \in l : Parents(l \cup S \cup {n}, c, k) = Parents(l, ch, k)
         /\ Parents(l \cup S \cup {n}, c, n) = {}
<1> DEFINE L == l \cup S \cup {n}
<1>1. /\ l \subseteq Node /\ in \subseteq l /\ rf \in [Node -> Int] /\ ch \in [Node -> SUBSET Node]
      /\ \A p \in l : ch[p] \subseteq l
      /\ \A p, q \in l : \A m \in ch[p] : m \in ch[q] => p = q
      /\ \A k \in l : \A q \in Below(ch, k) : k \notin ch[q]
      /\ \A k \in l : rf[k] = IF k \in in \/ Parents(l, ch, k) = {} THEN 0 ELSE 1
      /\ \A k \in in : Parents(l, ch, k) # {}
      /\ n \in Node \ l /\ S \subseteq Node \ l /\ n \notin S
      /\ r \in [Node -> Int] /\ c \in [Node -> SUBSET Node]
      /\ \A k \in l : r[k] = rf[k] /\ c[k] = ch[k]
      /\ r[n] = 0 /\ c[n] = S /\ \A k \in S : r[k] = 1 /\ c[k] = {}
  BY DEF Forest, IsNew
<1>2. \A k \in l : Parents(L, c, k) = Parents(l, ch, k)
  BY <1>1 DEF Parents
<1>3. Parents(L, c, n) = {}
  BY <1>1 DEF Parents
<1>4. \A k \in S : Parents(L, c, k) = {n}
  BY <1>1 DEF Parents
<1>5. ASSUME NEW k \in l, NEW q \in Below(c, k) PROVE k \notin c[q]
  <2>1. Closed(c, Below(ch, k)) /\ k \in Below(ch, k) /\ Below(ch, k) \subseteq l
    BY <1>1, BelowFacts, BelowLive DEF Closed
  <2>2. q \in Below(ch, k)
    BY <1>1, <2>1, BelowFacts
  <2>3. QED
    BY <1>1, <2>1, <2>2
<1>6. ASSUME NEW k \in S \cup {n}, NEW q \in Below(c, k) PROVE k \notin c[q]
  <2>1. Closed(c, S \cup {n}) /\ S \cup {n} \in SUBSET Node
    BY <1>1 DEF Closed
  <2>2. q \in S \cup {n}
    BY <1>1, <2>1, BelowFacts
  <2>3. CASE k = n
    BY <1>1, <2>2, <2>3
  <2>4. CASE k \in S
    <3>1. Closed(c, {k}) /\ k \in Node
      BY <1>1, <2>4 DEF Closed
    <3>2. q = k
      BY <1>1, <3>1, BelowFacts
    <3>3. QED
      BY <1>1, <2>4, <3>2
  <2>5. QED
    BY <2>3, <2>4
<1>7. \A p \in L : c[p] \subseteq L
  BY <1>1
<1>8. \A p, q \in L : \A m \in c[p] : m \in c[q] => p = q
  BY <1>1
<1>9. \A k \in L : r[k] = IF k \in in \/ Parents(L, c, k) = {} THEN 0 ELSE 1
  <2>1. \A k \in S : k \notin in /\ {n} # {}
    BY <1>1
  <2>2. ASSUME NEW k \in L PROVE r[k] = IF k \in in \/ Parents(L, c, k) = {} THEN 0 ELSE 1
    <3>1. CASE k \in l
      BY <1>1, <1>2, <3>1
    <3>2. CASE k \in S
      BY <1>1, <1>4, <2>1, <3>2
    <3>3. CASE k = n
      BY <1>1, <1>3, <3>3
    <3>4. QED
      BY <3>1, <3>2, <3>3
  <2>3. QED
    BY <2>2
<1>10. \A k \in in : k \in l /\ Parents(L, c, k) # {}
  BY <1>1, <1>2
<1>11. \A k \in L : \A q \in Below(c, k) : k \notin c[q]
  BY <1>5, <1>6
<1>12. Forest(L, r, c, in)
  <2>1. L \subseteq Node /\ in \subseteq L
    BY <1>1
  <2>2. QED
    BY <1>1, <1>7, <1>8, <1>9, <1>10, <1>11, <2>1 DEF Forest
<1>13. QED
  BY <1>2, <1>3, <1>12

(* -------------------- insertion ------------------------------------------ *)

(* A node without a parent, put under one that is not below it.              *)
LEMMA Insertion ==
  ASSUME NEW l, NEW rf, NEW ch, NEW in, Forest(l, rf, ch, in),
         NEW p \in l, NEW n \in l, Parents(l, ch, n) = {}, p \notin Below(ch, n),
         NEW r \in [Node -> Int], NEW c \in [Node -> SUBSET Node],
         r[n] = rf[n] + 1, \A k \in l \ {n} : r[k] = rf[k],
         c[p] = ch[p] \cup {n}, \A k \in l \ {p} : c[k] = ch[k]
  PROVE  /\ Forest(l, r, c, in)
         /\ \A k \in l \ {n} : Parents(l, c, k) = Parents(l, ch, k)
<1>1. /\ l \subseteq Node /\ in \subseteq l /\ rf \in [Node -> Int] /\ ch \in [Node -> SUBSET Node]
      /\ \A q \in l : ch[q] \subseteq l
      /\ \A q, k \in l : \A m \in ch[q] : m \in ch[k] => q = k
      /\ \A k \in l : \A q \in Below(ch, k) : k \notin ch[q]
      /\ \A k \in l : rf[k] = IF k \in in \/ Parents(l, ch, k) = {} THEN 0 ELSE 1
      /\ \A k \in in : Parents(l, ch, k) # {}
      /\ p \in Node /\ n \in Node
  BY DEF Forest
<1>2. /\ c \in [Node -> SUBSET Node] /\ c[p] = ch[p] \cup {n}
      /\ \A k \in l \ {p} : c[k] = ch[k]
  BY <1>1
<1>3. n \notin in /\ rf[n] = 0
  BY <1>1
<1>4. r \in [Node -> Int] /\ r[n] = 1 /\ \A k \in l \ {n} : r[k] = rf[k]
  BY <1>1, <1>3
<1>5. /\ \A k \in l \ {n} : Parents(l, c, k) = Parents(l, ch, k)
      /\ Parents(l, c, n) = {p}
  BY <1>1, <1>2 DEF Parents
<1>6. \A q \in l : c[q] \subseteq l
  BY <1>1, <1>2
<1>7. \A q, k \in l : \A m \in c[q] : m \in c[k] => q = k
  <2>1. \A q \in l : n \notin ch[q]
    BY DEF Parents
  <2>2. QED
    BY <1>1, <1>2, <2>1
<1>8. ASSUME NEW m \in l, NEW q \in Below(c, m), m \in c[q] PROVE FALSE
  <2>1. /\ m \in Node /\ m \in Below(ch, m) /\ Below(ch, m) \subseteq l /\ Below(ch, n) \subseteq l
        /\ Closed(ch, Below(ch, m)) /\ Closed(ch, Below(ch, n)) /\ n \in Below(ch, n)
    BY <1>1, BelowFacts, BelowLive
  <2>2. CASE m = n
    <3>1. Closed(c, Below(ch, n)) /\ Below(ch, n) \in SUBSET Node
      BY <1>1, <1>2, <2>1 DEF Closed
    <3>2. q \in Below(ch, n)
      BY <1>2, <2>1, <2>2, <3>1, BelowFacts
    <3>3. q # p /\ q \in l
      BY <2>1, <3>2
    <3>4. QED
      BY <1>1, <1>2, <1>8, <2>2, <3>2, <3>3
  <2>3. CASE m # n /\ p \notin Below(ch, m)
    <3>1. Closed(c, Below(ch, m)) /\ Below(ch, m) \in SUBSET Node
      BY <1>1, <1>2, <2>1, <2>3 DEF Closed
    <3>2. q \in Below(ch, m)
      BY <1>2, <2>1, <3>1, BelowFacts
    <3>3. QED
      BY <1>1, <1>2, <1>8, <2>1, <2>3, <3>2
  <2>4. CASE m # n /\ p \in Below(ch, m)
    <3> DEFINE B == Below(ch, m) \cup Below(ch, n)
    <3>1. B \in SUBSET Node /\ m \in B
      BY <1>1, <2>1
    <3>2. Closed(c, B)
      BY <1>1, <1>2, <2>1, <3>1 DEF Closed
    <3>3. q \in B
      BY <1>2, <2>1, <3>1, <3>2, BelowFacts
    <3>4. m \in ch[q] /\ q \in l
      BY <1>1, <1>2, <1>8, <2>1, <2>4, <3>3
    <3>5. q \notin Below(ch, m)
      BY <1>1, <3>4
    <3>6. m \in Below(ch, n)
      BY <2>1, <3>3, <3>4, <3>5 DEF Closed
    <3>7. p \in Below(ch, n)
      BY <1>1, <2>4, <3>6, BelowBelow
    <3>8. QED
      BY <3>7
  <2>5. QED
    BY <2>2, <2>3, <2>4
<1>9. \A k \in l : r[k] = IF k \in in \/ Parents(l, c, k) = {} THEN 0 ELSE 1
  <2>1. {p} # {}
    OBVIOUS
  <2>2. QED
    BY <1>1, <1>3, <1>4, <1>5, <2>1
<1>10. \A k \in in : Parents(l, c, k) # {}
  BY <1>1, <1>3, <1>5
<1>11. Forest(l, r, c, in)
  BY <1>1, <1>2, <1>4, <1>6, <1>7, <1>8, <1>9, <1>10 DEF Forest
<1>12. QED
  BY <1>5, <1>11

(* -------------------- copies --------------------------------------------- *)

(* A node and all below it are copied to other storage, C; the copy of the   *)
(* node may become a child of one live node, the only one of H.              *)
IsCopy(l, rf, ch, n, F, cp, C, H, r, c) ==
  /\ n \in l /\ F \subseteq Node \ l /\ H \subseteq l /\ \A a, b \in H : a = b
  /\ cp \in [Below(ch, n) -> F] /\ \A a, b \in Below(ch, n) : cp[a] = cp[b] => a = b
  /\ \A k : k \in C <=> \E m \in Below(ch, n) : k = cp[m]
  /\ r \in [Node -> Int] /\ c \in [Node -> SUBSET Node]
  /\ \A k \in l : r[k] = rf[k]
  /\ \A k \in l : \A x : x \in c[k] <=> x \in ch[k] \/ (k \in H /\ x = cp[n])
  /\ \A m \in Below(ch, n) :
       /\ r[cp[m]] = IF m = n /\ H # {} THEN 1 ELSE 0
       /\ \A k : k \in c[cp[m]] <=> \E x \in ch[m] : k = cp[x]

LEMMA TreeCopying ==
  ASSUME NEW l, NEW rf, NEW ch, NEW in, Forest(l, rf, ch, in),
         NEW n, NEW F, NEW cp, NEW C, NEW H, NEW r, NEW c,
         IsCopy(l, rf, ch, n, F, cp, C, H, r, c)
  PROVE  /\ Forest(l \cup C, r, c, in \cup (C \ {cp[n]}))
         /\ \A k \in l : Parents(l \cup C, c, k) = Parents(l, ch, k)
<1> DEFINE B == Below(ch, n)
           I == in \cup (C \ {cp[n]})
<1>1. /\ l \subseteq Node /\ in \subseteq l /\ rf \in [Node -> Int] /\ ch \in [Node -> SUBSET Node]
      /\ \A q \in l : ch[q] \subseteq l
      /\ \A q, k \in l : \A m \in ch[q] : m \in ch[k] => q = k
      /\ \A k \in l : \A q \in Below(ch, k) : k \notin ch[q]
      /\ \A k \in l : rf[k] = IF k \in in \/ Parents(l, ch, k) = {} THEN 0 ELSE 1
      /\ \A k \in in : Parents(l, ch, k) # {}
      /\ n \in Node /\ n \in l
      /\ r \in [Node -> Int] /\ c \in [Node -> SUBSET Node]
  BY DEF Forest, IsCopy
<1>2. /\ n \in B /\ B \subseteq l /\ \A m \in B : ch[m] \subseteq B
  BY <1>1, BelowFacts, BelowLive DEF Closed
<1>3. \A m \in B : m # n => \E q \in B : m \in ch[q]
  BY <1>1, BelowParent
<1>4. /\ C \subseteq Node /\ C \cap l = {} /\ \A m \in B : cp[m] \in C /\ cp[m] \notin l
      /\ \A k \in C : \E m \in B : k = cp[m]
      /\ \A a, b \in B : cp[a] = cp[b] => a = b
  BY DEF IsCopy
<1>5. /\ \A k \in l : \A x : x \in c[k] <=> x \in ch[k] \/ (k \in H /\ x = cp[n])
      /\ \A m \in B : \A k : k \in c[cp[m]] <=> \E x \in ch[m] : k = cp[x]
      /\ \A m \in B : r[cp[m]] = IF m = n /\ H # {} THEN 1 ELSE 0
      /\ \A k \in l : r[k] = rf[k]
      /\ H \subseteq l /\ \A a, b \in H : a = b
  BY DEF IsCopy
<1> HIDE DEF B
<1>6. \A a, b \in B : cp[a] \in c[cp[b]] <=> a \in ch[b]
  BY <1>2, <1>4, <1>5
<1>7. \A k \in l : \A q \in l \cup C : k \in c[q] <=> q \in l /\ k \in ch[q]
  <2>1. ASSUME NEW k \in l, NEW q \in l PROVE k \in c[q] <=> k \in ch[q]
    BY <1>2, <1>4, <1>5
  <2>2. ASSUME NEW k \in l, NEW m \in B PROVE k \notin c[cp[m]]
    BY <1>2, <1>4, <1>5
  <2>3. QED
    BY <1>4, <2>1, <2>2
<1>8. \A k \in l : Parents(l \cup C, c, k) = Parents(l, ch, k)
  BY <1>4, <1>7 DEF Parents
<1>9. \A b \in B : \A q \in l : cp[b] \in c[q] <=> b = n /\ q \in H
  <2>1. ASSUME NEW b \in B, NEW q \in l PROVE cp[b] \in c[q] <=> b = n /\ q \in H
    <3>1. cp[b] \notin ch[q]
      BY <1>1, <1>4
    <3>2. QED
      BY <1>2, <1>4, <1>5, <3>1
  <2>2. QED
    BY <2>1
<1>10. \A p \in l \cup C : c[p] \subseteq l \cup C
  <2>1. ASSUME NEW p \in l PROVE c[p] \subseteq l \cup C
    BY <1>1, <1>2, <1>4, <1>5
  <2>2. ASSUME NEW m \in B PROVE c[cp[m]] \subseteq l \cup C
    BY <1>2, <1>4, <1>5
  <2>3. QED
    BY <1>4, <2>1, <2>2
<1>11. ASSUME NEW p \in l \cup C, NEW q \in l \cup C, NEW m \in c[p], m \in c[q]
       PROVE  p = q
  <2>1. CASE m \in l
    BY <1>1, <1>7, <1>11, <2>1
  <2>2. ASSUME NEW b \in B, m = cp[b] PROVE p = q
    <3>1. b = n => \A x \in B : n \notin ch[x]
      BY <1>1 DEF B
    <3>2. CASE p \in l /\ q \in l
      BY <1>5, <1>9, <1>11, <2>2, <3>2
    <3>3. ASSUME NEW x \in B, NEW y \in B, p = cp[x], q = cp[y] PROVE p = q
      <4>1. b \in ch[x] /\ b \in ch[y]
        BY <1>6, <1>11, <2>2, <3>3
      <4>2. x = y
        BY <1>1, <1>2, <4>1
      <4>3. QED
        BY <3>3, <4>2
    <3>4. ASSUME NEW x \in B, p = cp[x], q \in l PROVE FALSE
      <4>1. b \in ch[x] /\ b = n
        BY <1>6, <1>9, <1>11, <2>2, <3>4
      <4>2. QED
        BY <3>1, <4>1
    <3>5. ASSUME NEW x \in B, q = cp[x], p \in l PROVE FALSE
      <4>1. b \in ch[x] /\ b = n
        BY <1>6, <1>9, <1>11, <2>2, <3>5
      <4>2. QED
        BY <3>1, <4>1
    <3>6. QED
      BY <1>4, <3>2, <3>3, <3>4, <3>5
  <2>3. QED
    BY <1>4, <1>10, <2>1, <2>2
<1>12. ASSUME NEW k \in l, NEW q \in Below(c, k), k \in c[q] PROVE FALSE
  <2>1. /\ k \in Node /\ k \in Below(ch, k) /\ Below(ch, k) \subseteq l
        /\ Closed(ch, Below(ch, k))
    BY <1>1, BelowFacts, BelowLive
  <2> DEFINE D == Below(ch, k) \cup C
  <2>2. D \in SUBSET Node /\ k \in D
    BY <1>1, <1>4, <2>1
  <2>3. \A x \in C : c[x] \subseteq C
    <3>1. \A m \in B : c[cp[m]] \subseteq C
      BY <1>2, <1>4, <1>5
    <3>2. QED
      BY <1>4, <3>1
  <2>4. \A x \in Below(ch, k) : c[x] \subseteq D
    <3>1. \A x \in Below(ch, k) : ch[x] \subseteq Below(ch, k) /\ x \in l
      BY <2>1 DEF Closed
    <3>2. cp[n] \in C
      BY <1>2, <1>4
    <3>3. QED
      BY <1>5, <3>1, <3>2
  <2>5. Closed(c, D)
    BY <2>3, <2>4 DEF Closed
  <2>6. q \in D
    BY <1>1, <2>1, <2>2, <2>5, BelowFacts
  <2>7. q \in l /\ k \in ch[q] /\ q \in Below(ch, k)
    BY <1>4, <1>7, <1>12, <2>1, <2>6
  <2>8. QED
    BY <1>1, <2>7
<1>13. ASSUME NEW m \in B, NEW q \in Below(c, cp[m]), cp[m] \in c[q] PROVE FALSE
  <2> DEFINE D == {cp[x] : x \in Below(ch, m)}
  <2>1. /\ m \in Node /\ m \in Below(ch, m) /\ Below(ch, m) \subseteq B
        /\ Closed(ch, Below(ch, m))
    BY <1>1, <1>2, BelowFacts, BelowBelow DEF B
  <2>2. D \in SUBSET Node /\ cp[m] \in D /\ cp[m] \in Node
    BY <1>4, <2>1
  <2>3. Closed(c, D)
    <3>1. ASSUME NEW x \in Below(ch, m) PROVE c[cp[x]] \subseteq D
      BY <1>5, <2>1, <3>1 DEF Closed
    <3>2. QED
      BY <3>1 DEF Closed
  <2>4. q \in D
    BY <1>1, <2>2, <2>3, BelowFacts
  <2>5. PICK x \in Below(ch, m) : q = cp[x]
    BY <2>4
  <2>6. m \in ch[x]
    BY <1>6, <1>13, <2>1, <2>5
  <2>7. QED
    BY <1>1, <1>2, <2>5, <2>6
<1>14. \A m \in B : m # n => Parents(l \cup C, c, cp[m]) # {}
  <2>1. ASSUME NEW m \in B, m # n PROVE Parents(l \cup C, c, cp[m]) # {}
    <3>1. PICK q \in B : m \in ch[q]
      BY <1>3, <2>1
    <3>2. cp[m] \in c[cp[q]] /\ cp[q] \in C
      BY <1>4, <1>6, <3>1
    <3>3. QED
      BY <3>2 DEF Parents
  <2>2. QED
    BY <2>1
<1>15. Parents(l \cup C, c, cp[n]) = {} <=> H = {}
  <2>1. \A x \in B : cp[n] \notin c[cp[x]]
    BY <1>1, <1>2, <1>6 DEF B
  <2>2. \A q \in l : cp[n] \in c[q] <=> q \in H
    BY <1>2, <1>9
  <2>3. Parents(l \cup C, c, cp[n]) = H
    BY <1>4, <1>5, <2>1, <2>2 DEF Parents
  <2>4. QED
    BY <2>3
<1>16. \A k \in l \cup C : r[k] = IF k \in I \/ Parents(l \cup C, c, k) = {} THEN 0 ELSE 1
  <2>1. ASSUME NEW k \in l PROVE r[k] = IF k \in I \/ Parents(l \cup C, c, k) = {} THEN 0 ELSE 1
    <3>1. k \in I <=> k \in in
      BY <1>4
    <3>2. QED
      <4>1. /\ r[k] = rf[k] /\ Parents(l \cup C, c, k) = Parents(l, ch, k)
            /\ rf[k] = IF k \in in \/ Parents(l, ch, k) = {} THEN 0 ELSE 1
        BY <1>1, <1>5, <1>8
      <4> HIDE DEF I
      <4>2. QED
        BY <3>1, <4>1
  <2>2. ASSUME NEW m \in B
        PROVE  r[cp[m]] = IF cp[m] \in I \/ Parents(l \cup C, c, cp[m]) = {} THEN 0 ELSE 1
    <3>1. CASE m = n
      <4>1. cp[n] \notin I
        BY <1>1, <1>2, <1>4
      <4>2. QED
        BY <1>2, <1>5, <1>15, <3>1, <4>1
    <3>2. CASE m # n
      <4>1. cp[m] \in I
        BY <1>2, <1>4, <3>2
      <4>2. QED
        BY <1>5, <3>2, <4>1
    <3>3. QED
      BY <3>1, <3>2
  <2>3. ASSUME NEW k \in C
        PROVE  r[k] = IF k \in I \/ Parents(l \cup C, c, k) = {} THEN 0 ELSE 1
    <3>1. PICK m \in B : k = cp[m]
      BY <1>4
    <3>2. QED
      BY <2>2, <3>1
  <2> HIDE DEF I
  <2>4. QED
    BY <2>1, <2>3
<1>17. \A k \in I : Parents(l \cup C, c, k) # {}
  <2>1. \A k \in in : Parents(l \cup C, c, k) # {}
    BY <1>1, <1>8
  <2>2. \A k \in C \ {cp[n]} : \E m \in B : k = cp[m] /\ m # n
    BY <1>4
  <2>3. ASSUME NEW k \in C \ {cp[n]} PROVE Parents(l \cup C, c, k) # {}
    <3>1. PICK m \in B : k = cp[m] /\ m # n
      BY <2>2
    <3>2. QED
      BY <1>14, <3>1
  <2>4. QED
    BY <2>1, <2>3
<1>18. Forest(l \cup C, r, c, I)
  <2>1. l \cup C \subseteq Node /\ I \subseteq l \cup C
    BY <1>1, <1>4
  <2>2. \A k \in l \cup C : \A q \in Below(c, k) : k \notin c[q]
    BY <1>4, <1>12, <1>13
  <2>3. \A p, q \in l \cup C : \A m \in c[p] : m \in c[q] => p = q
    BY <1>11
  <2> HIDE DEF I
  <2>4. QED
    BY <1>1, <1>10, <1>16, <1>17, <2>1, <2>2, <2>3 DEF Forest
<1>19. QED
  BY <1>8, <1>18

(* -------------------- the trees of a program ----------------------------- *)

RootOK == root # NoNode => root \in live /\ Parents(live, children, root) = {}

StorageOK ==
  /\ leaked \subseteq Node /\ live \cap leaked = {}
  /\ tag \in [Node -> Tag] /\ root \in Node \cup {NoNode}

TreeInv == StorageOK /\ RootOK /\ Forest(live, ref, children, inner)

(* The definitions of XmlTree, of the nodes there are.                       *)
LEMMA Names ==
  /\ \A n : below(n) = Below(children, n) /\ parents(n) = Parents(live, children, n)
  /\ \A S : destroyed(S) = AllBelow(children, S)
<1>1. \A n : below(n) = Below(children, n) /\ parents(n) = Parents(live, children, n)
  BY DEF below, Below, closed, Closed, parents, Parents
<1>2. QED
  BY <1>1 DEF destroyed, AllBelow

(* The sizes that RefCounts speaks of.                                       *)
LEMMA InvCounts == TreeInv => TreesCount
<1> SUFFICES ASSUME TreeInv PROVE TreesCount
  OBVIOUS
<1>1. /\ live \subseteq Node /\ inner \subseteq live
      /\ ref \in [Node -> Int] /\ children \in [Node -> SUBSET Node]
      /\ \A p \in live : children[p] \subseteq live
      /\ \A p, q \in live : \A m \in children[p] : m \in children[q] => p = q
      /\ \A n \in live : ref[n] = IF n \in inner \/ Parents(live, children, n) = {} THEN 0 ELSE 1
  BY DEF TreeInv, Forest
<1>2. TypeOK
  BY <1>1 DEF TypeOK, TreeInv, StorageOK
<1>3. NoDangling /\ OneParent
  BY <1>1 DEF NoDangling, OneParent
<1>4. RootStands
  BY Names DEF TreeInv, RootOK, RootStands
<1>5. ASSUME NEW n \in live, n \notin inner PROVE ref[n] = Cardinality(Parents(live, children, n))
  <2>1. CASE Parents(live, children, n) = {}
    BY <1>1, <1>5, <2>1, FS_EmptySet
  <2>2. ASSUME NEW p \in Parents(live, children, n)
        PROVE  ref[n] = Cardinality(Parents(live, children, n))
    <3>1. Parents(live, children, n) = {p}
      BY <1>1, <2>2 DEF Parents
    <3>2. Cardinality({p}) = 1
      BY FS_Singleton
    <3>3. {p} # {}
      OBVIOUS
    <3>4. QED
      BY <1>1, <1>5, <3>1, <3>2, <3>3
  <2>3. QED
    BY <2>1, <2>2
<1>6. RefCounts
  BY <1>1, <1>5, Names DEF RefCounts
<1>7. QED
  BY <1>2, <1>3, <1>4, <1>6 DEF TreesCount, TreesSound, CountsAgree

(* A node without a parent survives what it is not the beginning of.         *)
LEMMA TopSurvives ==
  ASSUME NEW l, NEW rf, NEW ch, NEW in, Forest(l, rf, ch, in),
         NEW S \in SUBSET l, NEW n \in l, Parents(l, ch, n) = {}, n \notin S
  PROVE  n \in l \ AllBelow(ch, S)
<1>1. SUFFICES ASSUME NEW s \in S, n \in Below(ch, s) PROVE FALSE
  BY DEF AllBelow
<1>2. s \in l /\ s \in Node /\ ch \in [Node -> SUBSET Node] /\ n # s
  BY DEF Forest
<1>3. PICK q \in Below(ch, s) : n \in ch[q]
  BY <1>1, <1>2, BelowParent
<1>4. q \in l
  BY <1>2, BelowLive
<1>5. QED
  BY <1>3, <1>4 DEF Parents

LEMMA AllBelowLive ==
  ASSUME NEW l, NEW rf, NEW ch, NEW in, Forest(l, rf, ch, in), NEW S \in SUBSET l
  PROVE  S \subseteq AllBelow(ch, S) /\ AllBelow(ch, S) \subseteq l
<1>1. l \subseteq Node /\ ch \in [Node -> SUBSET Node]
  BY DEF Forest
<1>2. ASSUME NEW s \in S PROVE s \in Below(ch, s) /\ Below(ch, s) \subseteq l
  BY <1>1, BelowFacts, BelowLive
<1>3. QED
  BY <1>2 DEF AllBelow

(* Nodes that have no parent can be removed without a trace.                 *)
LEMMA TopRemoval ==
  ASSUME TreeInv, NEW S \in SUBSET live, \A s \in S : Parents(live, children, s) = {}
  PROVE  LET D == destroyed(S) IN
         /\ D \subseteq live
         /\ Forest(live \ D, ref, children, inner \ D)
         /\ \A n \in live \ D : Parents(live \ D, children, n) = Parents(live, children, n)
<1> DEFINE D == AllBelow(children, S)
<1>1. Forest(live, ref, children, inner) /\ children \in [Node -> SUBSET Node]
  BY DEF TreeInv, Forest
<1>2. ASSUME NEW q \in live \ D PROVE children[q] = children[q] \ D
  <2>1. ASSUME NEW m \in children[q], m \in D PROVE FALSE
    <3>1. m \in S
      BY <1>1, <2>1, RemovalEdge
    <3>2. QED
      BY <3>1 DEF Parents
  <2>2. QED
    BY <2>1
<1>3. D \subseteq live
  BY <1>1, AllBelowLive
<1>4. /\ Forest(live \ D, ref, children, inner \ D)
      /\ \A n \in live \ D : Parents(live \ D, children, n) = Parents(live, children, n)
  BY <1>1, <1>2, Removal
<1>5. destroyed(S) = D
  BY Names
<1>6. QED
  BY <1>3, <1>4, <1>5

LEMMA OldRootRemoval ==
  ASSUME TreeInv
  PROVE  LET D == destroyed(oldRoot) IN
         /\ oldRoot \subseteq live /\ D \subseteq live
         /\ Forest(live \ D, ref, children, inner \ D)
         /\ \A n \in live \ D : Parents(live \ D, children, n) = Parents(live, children, n)
<1>1. oldRoot \in SUBSET live /\ \A s \in oldRoot : Parents(live, children, s) = {}
  BY DEF TreeInv, RootOK, oldRoot
<1>2. QED
  BY <1>1, TopRemoval

(* What any of the deletions does to storage, the root and the trees.        *)
LEMMA DeletedInv ==
  ASSUME TreeInv, NEW S \in SUBSET live, deleted(S), root \notin S,
         UNCHANGED <<ref, tag, root>>, children' \in [Node -> SUBSET Node],
         \A q \in live \ destroyed(S) : children'[q] = children[q] \ destroyed(S)
  PROVE  TreeInv'
<1> DEFINE D == AllBelow(children, S)
<1>1. Forest(live, ref, children, inner) /\ destroyed(S) = D
  BY Names DEF TreeInv
<1>2. D \subseteq live
  BY <1>1, AllBelowLive
<1>3. /\ Forest(live \ D, ref, children', inner \ D)
      /\ \A n \in live \ D : Parents(live \ D, children', n) = Parents(live, children, n)
  BY <1>1, Removal
<1>4. live' = live \ D /\ inner' = inner \ D /\ leaked' = leaked \cup unreturned(S)
  BY <1>1 DEF deleted
<1>5. Forest(live', ref', children', inner')
  BY <1>3, <1>4
<1>6. StorageOK'
  <2>1. unreturned(S) \subseteq D /\ live \subseteq Node
    BY <1>1 DEF unreturned, Forest
  <2>2. QED
    BY <1>2, <1>4, <2>1 DEF StorageOK, TreeInv
<1>7. RootOK'
  <2>1. ASSUME root # NoNode PROVE root \in live \ D /\ Parents(live, children, root) = {}
    BY <1>1, <2>1, TopSurvives DEF TreeInv, RootOK
  <2>2. QED
    BY <1>3, <1>4, <2>1 DEF RootOK
<1>8. QED
  BY <1>5, <1>6, <1>7 DEF TreeInv

(* -------------------- the operations ------------------------------------- *)

LEMMA TreeInit == Init => TreeInv
<1> SUFFICES ASSUME NEW x \in Node, NEW t \in Tag,
                    live = {x}, leaked = {}, ref = [n \in Node |-> 0], tag = [n \in Node |-> t],
                    children = [n \in Node |-> {}], root = x, inner = {}
             PROVE  TreeInv
  BY DEF Init
<1>1. StorageOK
  BY DEF StorageOK
<1>2. RootOK
  BY DEF RootOK, Parents
<1>3. \A n \in live : \A q \in Below(children, n) : n \notin children[q]
  BY DEF Below
<1>4. \A n \in live : Parents(live, children, n) = {}
  BY DEF Parents
<1>5. Forest(live, ref, children, inner)
  <2>1. ref \in [Node -> Int] /\ children \in [Node -> SUBSET Node]
    OBVIOUS
  <2>2. \A n \in live : children[n] = {} /\ ref[n] = 0
    OBVIOUS
  <2>3. live \subseteq Node /\ inner = {}
    OBVIOUS
  <2>4. QED
    BY <1>3, <1>4, <2>1, <2>2, <2>3 DEF Forest
<1>6. QED
  BY <1>1, <1>2, <1>5 DEF TreeInv

LEMMA CreateStep ==
  ASSUME TreeInv, NEW n \in Node, NEW t \in Tag, Create(n, t) PROVE TreeInv'
<1>1. /\ n \in Node \ live /\ n \notin leaked /\ live' = live \cup {} \cup {n}
      /\ ref' = [ref EXCEPT ![n] = 0] /\ tag' = [tag EXCEPT ![n] = t]
      /\ children' = [children EXCEPT ![n] = {}] /\ UNCHANGED <<leaked, root, inner>>
  BY DEF Create, free
<1>2. /\ ref \in [Node -> Int] /\ children \in [Node -> SUBSET Node]
      /\ Forest(live, ref, children, inner) /\ live \subseteq Node
  BY DEF TreeInv, Forest
<1>3. /\ ref' \in [Node -> Int] /\ children' \in [Node -> SUBSET Node]
      /\ \A k \in live : ref'[k] = ref[k] /\ children'[k] = children[k]
      /\ ref'[n] = 0 /\ children'[n] = {}
  BY <1>1, <1>2
<1>4. ASSUME NEW S, S = {}
      PROVE  /\ Forest(live \cup S \cup {n}, ref', children', inner)
             /\ \A k \in live : Parents(live \cup S \cup {n}, children', k) = Parents(live, children, k)
  <2>1. S \in SUBSET (Node \ live) /\ n \notin S /\ \A k \in S : ref'[k] = 1 /\ children'[k] = {}
    BY <1>4
  <2>2. children'[n] = S
    BY <1>3, <1>4
  <2>3. n \in Node \ live /\ Forest(live, ref, children, inner)
    BY <1>1, <1>2
  <2>4. IsNew(live, ref, children, n, S, ref', children')
    BY <1>3, <2>1, <2>2, <2>3 DEF IsNew
  <2>5. Forest(live \cup S \cup {n}, ref', children', inner)
    BY <2>3, <2>4, Growth
  <2>6. \A k \in live : Parents(live \cup S \cup {n}, children', k) = Parents(live, children, k)
    <3>1. \A k \in live : k \in Node /\ children'[k] = children[k]
      BY <1>2, <1>3
    <3>2. \A k \in live : k # n /\ k \notin children'[n]
      BY <1>3, <2>3
    <3>3. QED
      BY <1>4, <3>1, <3>2 DEF Parents
  <2>7. QED
    BY <2>5, <2>6
<1>5. /\ Forest(live', ref', children', inner')
      /\ \A k \in live : Parents(live', children', k) = Parents(live, children, k)
  <2>1. /\ Forest(live \cup {} \cup {n}, ref', children', inner)
        /\ \A k \in live :
             Parents(live \cup {} \cup {n}, children', k) = Parents(live, children, k)
    BY <1>4
  <2>2. QED
    BY <1>1, <2>1
<1>6. StorageOK' /\ RootOK'
  BY <1>1, <1>5 DEF TreeInv, StorageOK, RootOK
<1>7. QED
  BY <1>5, <1>6 DEF TreeInv

(* The children of the copies, and the copy itself under a node of H.        *)
Grafted(n, copy, H) ==
  children' = [k \in Node |-> copiedChildren(n, copy)[k]
                              \cup (IF k \in H THEN {copy[n]} ELSE {})]

(* Clone, and the insertion of a copy under p, which H then holds.           *)
LEMMA CopiedInv ==
  ASSUME TreeInv, NEW n \in live, NEW copy \in Copies(n), NEW H \in SUBSET live,
         \A a, b \in H : a = b,
         copied(n, copy, IF H = {} THEN 0 ELSE 1), UNCHANGED <<leaked, root>>,
         Grafted(n, copy, H)
  PROVE  TreeInv'
<1> DEFINE B == Below(children, n)
           C == {copy[m] : m \in B}
<1>1. /\ Forest(live, ref, children, inner) /\ live \subseteq Node
      /\ ref \in [Node -> Int] /\ children \in [Node -> SUBSET Node]
      /\ \A p \in live : children[p] \subseteq live
  BY DEF TreeInv, Forest
<1>2. below(n) = B /\ n \in B /\ B \subseteq live /\ \A m \in B : children[m] \subseteq B
  BY <1>1, Names, BelowFacts, BelowLive DEF Closed
<1>3. free \in SUBSET (Node \ live) /\ free \cap leaked = {}
  BY DEF free
<1>4. copy \in [B -> free] /\ \A a, b \in B : copy[a] = copy[b] => a = b
  BY <1>2 DEF Copies, Injection, IsInjective
<1>5. /\ C \subseteq free /\ copy[n] \in C
      /\ \A k \in C : \E m \in B : copy[m] = k
      /\ \A m \in B : copy[m] \in C /\ (CHOOSE x \in B : copy[x] = copy[m]) = m
  BY <1>2, <1>4
<1>6. /\ live' = live \cup C /\ inner' = inner \cup (C \ {copy[n]})
      /\ tag' = [k \in Node |-> IF k \in C THEN tag[CHOOSE m \in B : copy[m] = k] ELSE tag[k]]
      /\ ref' = [k \in Node |-> IF k \notin C THEN ref[k]
                                  ELSE IF k = copy[n] THEN IF H = {} THEN 0 ELSE 1 ELSE 0]
  BY <1>2 DEF copied
<1>7. \A k \in Node :
        children'[k] = (IF \E m \in B : copy[m] = k
                          THEN {copy[x] : x \in children[CHOOSE m \in B : copy[m] = k]}
                          ELSE children[k])
                       \cup (IF k \in H THEN {copy[n]} ELSE {})
  BY <1>2 DEF copiedChildren, Grafted
<1> HIDE DEF B, C
<1>8. ASSUME NEW k \in live
      PROVE  /\ ref'[k] = ref[k]
             /\ \A x : x \in children'[k] <=> x \in children[k] \/ (k \in H /\ x = copy[n])
  <2>1. k \in Node /\ k \notin C /\ ~\E m \in B : copy[m] = k
    BY <1>1, <1>3, <1>5
  <2>2. QED
    BY <1>6, <1>7, <2>1
<1>9. ASSUME NEW m \in B
      PROVE  /\ ref'[copy[m]] = IF m = n /\ H # {} THEN 1 ELSE 0
             /\ children'[copy[m]] = {copy[x] : x \in children[m]}
  <2>1. copy[m] \in Node /\ copy[m] \in C /\ copy[m] \notin H /\ (copy[m] = copy[n] => m = n)
    BY <1>2, <1>3, <1>4, <1>5
  <2>2. ref'[copy[m]] = IF m = n /\ H # {} THEN 1 ELSE 0
    BY <1>6, <2>1
  <2>3. children'[copy[m]] = {copy[x] : x \in children[m]}
    <3>1. (CHOOSE x \in B : copy[x] = copy[m]) = m /\ \E x \in B : copy[x] = copy[m]
      BY <1>5
    <3>2. children'[copy[m]] = {copy[x] : x \in children[m]} \cup {}
      BY ONLY <1>7, <2>1, <3>1
    <3>3. QED
      BY ONLY <3>2
  <2>4. QED
    BY <2>2, <2>3
<1>10. ref' \in [Node -> Int]
  BY <1>1, <1>6
<1>11. children' \in [Node -> SUBSET Node]
  <2>1. ASSUME NEW k \in Node PROVE children'[k] \in SUBSET Node
    <3>1. CASE \E m \in B : copy[m] = k
      <4>1. PICK m \in B : copy[m] = k
        BY <3>1
      <4>2. \A x \in children[m] : copy[x] \in Node
        BY <1>2, <1>3, <1>4
      <4>3. QED
        BY <1>9, <4>1, <4>2
    <3>2. CASE ~\E m \in B : copy[m] = k
      <4>1. copy[n] \in Node
        BY <1>3, <1>5
      <4>2. QED
        BY <1>1, <1>7, <3>2, <4>1
    <3>3. QED
      BY <3>1, <3>2
  <2>2. children' = [k \in Node |-> children'[k]]
    BY DEF Grafted
  <2>3. QED
    BY <2>1, <2>2
<1>12. /\ Forest(live', ref', children', inner')
       /\ \A k \in live : Parents(live', children', k) = Parents(live, children, k)
  <2>1. \A k : k \in C <=> \E m \in Below(children, n) : k = copy[m]
    BY DEF B, C
  <2>2. ASSUME NEW m \in Below(children, n)
        PROVE  /\ ref'[copy[m]] = IF m = n /\ H # {} THEN 1 ELSE 0
               /\ \A k : k \in children'[copy[m]] <=> \E x \in children[m] : k = copy[x]
    BY <1>9, <2>2 DEF B
  <2>3. /\ copy \in [Below(children, n) -> free]
        /\ \A x, y \in Below(children, n) : copy[x] = copy[y] => x = y
    BY <1>4 DEF B
  <2>4. /\ Forest(live \cup C, ref', children', inner \cup (C \ {copy[n]}))
        /\ \A k \in live : Parents(live \cup C, children', k) = Parents(live, children, k)
    <3>1. Forest(live, ref, children, inner) /\ free \in SUBSET (Node \ live)
      BY <1>1, <1>3
    <3>2. IsCopy(live, ref, children, n, free, copy, C, H, ref', children')
      BY <1>8, <1>10, <1>11, <2>1, <2>2, <2>3, <3>1 DEF IsCopy
    <3>3. QED
      BY <3>1, <3>2, TreeCopying
  <2>5. QED
    BY <1>6, <2>4
<1>13. StorageOK'
  <2>1. \A k \in C : (CHOOSE m \in B : copy[m] = k) \in Node
    BY <1>1, <1>2, <1>5
  <2>2. tag' \in [Node -> Tag]
    BY <1>6, <2>1 DEF TreeInv, StorageOK
  <2>3. QED
    BY <1>3, <1>5, <1>6, <2>2 DEF TreeInv, StorageOK
<1>14. RootOK'
  BY <1>6, <1>12 DEF TreeInv, RootOK
<1>15. QED
  BY <1>12, <1>13, <1>14 DEF TreeInv

LEMMA CloneStep ==
  ASSUME TreeInv, NEW n \in live, NEW copy \in Copies(n), Clone(n, copy) PROVE TreeInv'
<1>1. copied(n, copy, 0) /\ children' = copiedChildren(n, copy) /\ UNCHANGED <<leaked, root>>
  BY DEF Clone
<1>2. Grafted(n, copy, {})
  BY <1>1 DEF copiedChildren, Grafted
<1>3. {} \in SUBSET live /\ \A a, b \in {} : a = b
  OBVIOUS
<1>4. copied(n, copy, IF {} = {} THEN 0 ELSE 1)
  BY <1>1
<1>5. QED
  BY <1>1, <1>2, <1>3, <1>4, CopiedInv

LEMMA InsCopyStep ==
  ASSUME TreeInv, NEW p \in live, NEW n \in live, NEW copy \in Copies(n), InsCopy(p, n, copy)
  PROVE  TreeInv'
<1>1. /\ copied(n, copy, 1) /\ UNCHANGED <<leaked, root>>
      /\ children' = [copiedChildren(n, copy) EXCEPT ![p] = @ \cup {copy[n]}]
  BY DEF InsCopy
<1>2. Grafted(n, copy, {p})
  BY <1>1 DEF copiedChildren, Grafted
<1>3. {p} \in SUBSET live /\ (\A a, b \in {p} : a = b) /\ {p} # {}
  OBVIOUS
<1>4. copied(n, copy, IF {p} = {} THEN 0 ELSE 1)
  BY <1>1, <1>3
<1>5. QED
  BY <1>1, <1>2, <1>3, <1>4, CopiedInv

LEMMA InsChildStep ==
  ASSUME TreeInv, NEW p \in Node, NEW n \in Node, InsChild(p, n) PROVE TreeInv'
<1>1. /\ p \in live /\ n \in live /\ n # root
      /\ Parents(live, children, n) = {} /\ p \notin Below(children, n)
      /\ ref' = [ref EXCEPT ![n] = @ + 1] /\ children' = [children EXCEPT ![p] = @ \cup {n}]
      /\ UNCHANGED <<live, leaked, tag, root, inner>>
  BY Names DEF InsChild
<1>2. /\ Forest(live', ref', children', inner')
      /\ \A k \in live \ {n} : Parents(live', children', k) = Parents(live, children, k)
  <2>1. /\ Forest(live, ref', children', inner)
        /\ \A k \in live \ {n} : Parents(live, children', k) = Parents(live, children, k)
    <3>1. /\ Forest(live, ref, children, inner) /\ live \subseteq Node
          /\ ref \in [Node -> Int] /\ children \in [Node -> SUBSET Node]
      BY DEF TreeInv, Forest
    <3>2. /\ ref' \in [Node -> Int] /\ children' \in [Node -> SUBSET Node]
          /\ ref'[n] = ref[n] + 1 /\ \A k \in live \ {n} : ref'[k] = ref[k]
          /\ children'[p] = children[p] \cup {n}
          /\ \A k \in live \ {p} : children'[k] = children[k]
      BY <1>1, <3>1
    <3>3. /\ p \in live /\ n \in live /\ Parents(live, children, n) = {}
          /\ p \notin Below(children, n)
      BY <1>1
    <3>4. QED
      BY <3>1, <3>2, <3>3, Insertion
  <2>2. QED
    BY <1>1, <2>1
<1>3. QED
  BY <1>1, <1>2 DEF TreeInv, StorageOK, RootOK

(* A child that is deleted is found in one place only.                       *)
LEMMA DelChildStep ==
  ASSUME TreeInv, NEW p, NEW S \in SUBSET children[p], DelChild(p, S) PROVE TreeInv'
<1>1. /\ p \in live /\ deleted(S) /\ UNCHANGED <<ref, tag, root>>
      /\ children' = [children EXCEPT ![p] = @ \ S]
  BY DEF DelChild
<1>2. /\ Forest(live, ref, children, inner) /\ live \subseteq Node
      /\ children \in [Node -> SUBSET Node] /\ children[p] \subseteq live
      /\ \A a, b \in live : \A m \in children[a] : m \in children[b] => a = b
  BY <1>1 DEF TreeInv, Forest
<1>3. S \in SUBSET live /\ root \notin S
  <2>1. root \in S => root # NoNode
    BY <1>2, TreeAssumption
  <2>2. QED
    BY <1>1, <1>2, <2>1 DEF TreeInv, RootOK, Parents
<1>4. S \subseteq destroyed(S)
  BY <1>2, <1>3, Names, AllBelowLive
<1>5. /\ children' \in [Node -> SUBSET Node] /\ children'[p] = children[p] \ S
      /\ \A q \in live : q # p => children'[q] = children[q]
  BY <1>1, <1>2
<1>6. ASSUME NEW q \in live \ destroyed(S), NEW m \in children[q], m \in destroyed(S)
      PROVE  m \in S /\ q = p
  <2>1. m \in S
    BY <1>2, <1>3, <1>6, RemovalEdge, Names
  <2>2. QED
    BY <1>1, <1>2, <2>1
<1>7. \A q \in live \ destroyed(S) : children'[q] = children[q] \ destroyed(S)
  BY <1>4, <1>5, <1>6
<1>8. QED
  BY <1>1, <1>3, <1>5, <1>7, DeletedInv

(* What lies below a node that is left is left, and points to nothing else.  *)
LEMMA DelChildrenStep ==
  ASSUME TreeInv, NEW p \in Node, NEW t \in Tag, NEW subtree \in BOOLEAN,
         DelChildren(p, t, subtree)
  PROVE  TreeInv'
<1> DEFINE among == IF subtree THEN below(p) \ {p} ELSE children[p]
           S     == topmost({c \in among : tag[c] = t})
<1>1. /\ p \in live /\ deleted(S) /\ UNCHANGED <<ref, tag, root>>
      /\ children' = [q \in Node |-> IF q \in below(p) THEN children[q] \ destroyed(S)
                                                         ELSE children[q]]
  BY DEF DelChildren
<1>2. /\ Forest(live, ref, children, inner) /\ live \subseteq Node
      /\ children \in [Node -> SUBSET Node]
      /\ \A a, b \in live : \A m \in children[a] : m \in children[b] => a = b
      /\ \A n \in live : \A q \in Below(children, n) : n \notin children[q]
  BY DEF TreeInv, Forest
<1>3. /\ p \in below(p) /\ below(p) \subseteq live
      /\ \A q \in below(p) : children[q] \subseteq below(p)
      /\ below(p) = Below(children, p)
  BY <1>1, <1>2, Names, BelowFacts, BelowLive DEF Closed
<1>4. S \subseteq below(p) \ {p}
  <2>1. S \subseteq among
    BY DEF topmost
  <2>2. p \notin children[p]
    BY <1>1, <1>2, <1>3
  <2>3. QED
    BY <1>3, <2>1, <2>2
<1> HIDE DEF S
<1>5. \A m \in below(p) \ {p} : \E q \in below(p) : m \in children[q]
  BY <1>2, <1>3, BelowParent
<1>6. S \in SUBSET live /\ root \notin S
  <2>1. ASSUME root \in S PROVE FALSE
    <3>1. PICK q \in below(p) : root \in children[q]
      BY <1>4, <1>5, <2>1
    <3>2. root # NoNode
      BY <1>2, <1>3, <1>4, <2>1, TreeAssumption
    <3>3. QED
      BY <1>3, <3>1, <3>2 DEF TreeInv, RootOK, Parents
  <2>2. QED
    BY <1>3, <1>4, <2>1
<1>7. ASSUME NEW q \in live \ destroyed(S), q \notin below(p),
             NEW m \in children[q], m \in destroyed(S)
      PROVE  FALSE
  <2>1. m \in S
    BY <1>2, <1>6, <1>7, RemovalEdge, Names
  <2>2. PICK x \in below(p) : m \in children[x]
    BY <1>4, <1>5, <2>1
  <2>3. QED
    BY <1>2, <1>3, <1>7, <2>2
<1>8. /\ children' \in [Node -> SUBSET Node]
      /\ \A q \in live : q \in below(p) => children'[q] = children[q] \ destroyed(S)
      /\ \A q \in live : q \notin below(p) => children'[q] = children[q]
  BY <1>1, <1>2
<1>9. \A q \in live \ destroyed(S) : children'[q] = children[q] \ destroyed(S)
  BY <1>7, <1>8
<1>10. QED
  BY <1>1, <1>6, <1>8, <1>9, DeletedInv

LEMMA DestoryStep ==
  ASSUME TreeInv, NEW n \in Node, Destory(n) PROVE TreeInv'
<1> DEFINE S == {n}
<1>1. /\ n \in live /\ n # root /\ Parents(live, children, n) = {}
      /\ deleted(S) /\ UNCHANGED <<ref, tag, children, root>>
  BY Names DEF Destory
<1>2. Forest(live, ref, children, inner) /\ children \in [Node -> SUBSET Node]
  BY DEF TreeInv, Forest
<1>3. S \in SUBSET live /\ root \notin S
  BY <1>1
<1>4. ASSUME NEW q \in live \ destroyed(S), NEW m \in children[q], m \in destroyed(S)
      PROVE  FALSE
  <2>1. m \in S
    BY <1>2, <1>3, <1>4, RemovalEdge, Names
  <2>2. QED
    BY <1>1, <2>1 DEF Parents
<1>5. \A q \in live \ destroyed(S) : children'[q] = children[q] \ destroyed(S)
  BY <1>1, <1>4
<1>6. QED
  BY <1>1, <1>2, <1>3, <1>5, DeletedInv

LEMMA InitRootStep ==
  ASSUME TreeInv, NEW n \in Node, InitRoot(n) PROVE TreeInv'
<1> DEFINE D == destroyed(oldRoot)
<1>1. /\ n \in live /\ n \notin oldRoot /\ Parents(live, children, n) = {}
      /\ live' = live \ D /\ leaked' = leaked \cup unreturned(oldRoot) /\ inner' = inner \ D
      /\ root' = n /\ UNCHANGED <<ref, tag, children>>
  BY Names DEF InitRoot, deleted, oldRoot
<1>2. /\ oldRoot \in SUBSET live /\ D \subseteq live
      /\ Forest(live \ D, ref, children, inner \ D)
      /\ \A k \in live \ D : Parents(live \ D, children, k) = Parents(live, children, k)
      /\ Forest(live, ref, children, inner) /\ live \subseteq Node
  BY OldRootRemoval DEF TreeInv, Forest
<1>3. n \in live \ D
  BY <1>1, <1>2, Names, TopSurvives
<1>4. StorageOK'
  <2>1. unreturned(oldRoot) \subseteq D
    BY DEF unreturned
  <2>2. QED
    BY <1>1, <1>2, <2>1 DEF TreeInv, StorageOK
<1>5. RootOK'
  BY <1>1, <1>2, <1>3 DEF RootOK
<1>6. QED
  BY <1>1, <1>2, <1>4, <1>5 DEF TreeInv

(* The old tree is gone before the new one is made: what is free is not in   *)
(* either.                                                                   *)
LEMMA LoadMemStep ==
  ASSUME TreeInv, NEW n \in Node, NEW S \in SUBSET Node, NEW t \in Tag, LoadMem(n, S, t)
  PROVE  TreeInv'
<1> DEFINE D == destroyed(oldRoot)
           l == live \ D
<1>1. /\ n \in Node \ (live \cup leaked) /\ S \in SUBSET (Node \ (live \cup leaked)) /\ n \notin S
      /\ live' = l \cup S \cup {n} /\ leaked' = leaked \cup unreturned(oldRoot)
      /\ inner' = inner \ D /\ root' = n
      /\ ref' = [k \in Node |-> IF k \in S THEN 1 ELSE IF k = n THEN 0 ELSE ref[k]]
      /\ tag' = [k \in Node |-> IF k \in S \cup {n} THEN t ELSE tag[k]]
      /\ children' = [k \in Node |-> IF k = n THEN S ELSE IF k \in S THEN {} ELSE children[k]]
  BY DEF LoadMem, free
<1>2. /\ D \subseteq live /\ Forest(l, ref, children, inner \ D)
      /\ live \subseteq Node /\ ref \in [Node -> Int] /\ children \in [Node -> SUBSET Node]
  BY OldRootRemoval DEF TreeInv, Forest
<1>3. /\ ref' \in [Node -> Int] /\ children' \in [Node -> SUBSET Node]
      /\ ref'[n] = 0 /\ children'[n] = S
      /\ \A k \in S : ref'[k] = 1 /\ children'[k] = {}
      /\ \A k \in l : ref'[k] = ref[k] /\ children'[k] = children[k]
  BY <1>1, <1>2
<1>4. n \in Node \ l /\ S \in SUBSET (Node \ l) /\ n \notin S
  BY <1>1
<1> HIDE DEF D, l
<1>5. /\ Forest(l \cup S \cup {n}, ref', children', inner \ D)
      /\ Parents(l \cup S \cup {n}, children', n) = {}
  <2>1. IsNew(l, ref, children, n, S, ref', children')
    BY <1>3, <1>4 DEF IsNew
  <2>2. QED
    BY <1>2, <2>1, Growth
<1>6. Forest(live', ref', children', inner')
  BY <1>1, <1>5
<1>7. StorageOK'
  <2>1. unreturned(oldRoot) \subseteq D
    BY DEF unreturned, D
  <2>2. tag' \in [Node -> Tag]
    BY <1>1 DEF TreeInv, StorageOK
  <2>3. QED
    BY <1>1, <1>2, <2>1, <2>2 DEF TreeInv, StorageOK, l
<1>8. RootOK'
  BY <1>1, <1>5 DEF RootOK
<1>9. QED
  BY <1>6, <1>7, <1>8 DEF TreeInv

LEMMA NewRootStep ==
  ASSUME TreeInv, NEW n \in Node, NEW t \in Tag, NewRoot(n, t) PROVE TreeInv'
<1>1. /\ ref \in [Node -> Int] /\ children \in [Node -> SUBSET Node] /\ tag \in [Node -> Tag]
  BY DEF TreeInv, Forest, StorageOK
<1>2. ASSUME NEW S, S = {} PROVE LoadMem(n, S, t)
  <2>1. S \subseteq free \ {n} /\ Cardinality(S) <= MaxParsed
    BY <1>2, TreeAssumption, FS_EmptySet
  <2>2. /\ ref' = [k \in Node |-> IF k \in S THEN 1 ELSE IF k = n THEN 0 ELSE ref[k]]
        /\ tag' = [k \in Node |-> IF k \in S \cup {n} THEN t ELSE tag[k]]
        /\ children' = [k \in Node |-> IF k = n THEN S ELSE IF k \in S THEN {} ELSE children[k]]
    BY <1>1, <1>2 DEF NewRoot
  <2>3. live' = (live \ destroyed(oldRoot)) \cup S \cup {n}
    BY <1>2 DEF NewRoot
  <2>4. QED
    BY <2>1, <2>2, <2>3 DEF NewRoot, LoadMem
<1>3. {} \in SUBSET Node
  OBVIOUS
<1>4. QED
  BY <1>2, <1>3, LoadMemStep

LEMMA LoadFailsStep ==
  ASSUME TreeInv, NEW S \in SUBSET Node, LoadFails(S) PROVE TreeInv'
<1> DEFINE D == destroyed(oldRoot)
<1>1. /\ S \subseteq Node \ (live \cup leaked)
      /\ live' = live \ D /\ leaked' = leaked \cup unreturned(oldRoot) \cup S
      /\ inner' = inner \ D /\ root' = NoNode /\ UNCHANGED <<ref, tag, children>>
  BY DEF LoadFails, free
<1>2. D \subseteq live /\ Forest(live \ D, ref, children, inner \ D) /\ live \subseteq Node
  BY OldRootRemoval DEF TreeInv, Forest
<1>3. unreturned(oldRoot) \subseteq D
  BY DEF unreturned
<1>4. StorageOK' /\ RootOK'
  BY <1>1, <1>2, <1>3 DEF TreeInv, StorageOK, RootOK
<1>5. QED
  BY <1>1, <1>2, <1>4 DEF TreeInv

LEMMA TreeStep == TreeInv /\ [Next]_vars => TreeInv'
<1> SUFFICES ASSUME TreeInv, [Next]_vars PROVE TreeInv'
  OBVIOUS
<1>1. CASE UNCHANGED vars
  BY <1>1 DEF vars, TreeInv, StorageOK, RootOK
<1>2. ASSUME NEW n \in Node, NEW t \in Tag, SetTag(n, t) PROVE TreeInv'
  <2>1. tag' = [tag EXCEPT ![n] = t] /\ UNCHANGED <<live, leaked, ref, children, root, inner>>
    BY <1>2 DEF SetTag
  <2>2. tag' \in [Node -> Tag]
    BY <2>1 DEF TreeInv, StorageOK
  <2>3. QED
    BY <2>1, <2>2 DEF TreeInv, StorageOK, RootOK
<1>3. ASSUME NEW p \in Node, NEW t \in Tag, DelChildByTag(p, t) PROVE TreeInv'
  <2>1. {c \in children[p] : tag[c] = t} \in SUBSET children[p]
    OBVIOUS
  <2>2. QED
    BY <1>3, <2>1, DelChildStep DEF DelChildByTag
<1>4. ASSUME NEW p \in Node, NEW n \in Node, DelChildNode(p, n) PROVE TreeInv'
  <2>1. {n} \in SUBSET children[p] /\ DelChild(p, {n})
    BY <1>4 DEF DelChildNode
  <2>2. QED
    BY <2>1, DelChildStep
<1>5. CASE Program
  BY <1>2, <1>3, <1>4, <1>5, CreateStep, CloneStep, InsCopyStep, InsChildStep,
     DelChildrenStep, DestoryStep DEF Program
<1>6. CASE Parser
  BY <1>6, InitRootStep, NewRootStep, LoadMemStep, LoadFailsStep DEF Parser
<1>7. QED
  BY <1>1, <1>5, <1>6 DEF Next

(* Whatever nodes are made, inserted, cloned, removed and loaded, no pointer *)
(* leads to a node that is gone, no node is in two places, and the count of  *)
(* references says whether it is in one.                                     *)
THEOREM TreesStaySound == Spec => []TreesCount
<1>1. QED
  BY TreeInit, TreeStep, InvCounts, PTL DEF Spec

(* -------------------- what a removal by tag removes ---------------------- *)

(* Of nodes below one another, the upper has more below it.                  *)
LEMMA BelowLess ==
  ASSUME TreeInv, NEW m \in live, NEW n \in live, m \in below(n), m # n
  PROVE  Cardinality(below(m)) < Cardinality(below(n))
<1>1. /\ Forest(live, ref, children, inner) /\ live \subseteq Node
      /\ children \in [Node -> SUBSET Node]
      /\ \A k \in live : \A q \in Below(children, k) : k \notin children[q]
  BY DEF TreeInv, Forest
<1>2. below(m) \subseteq below(n) /\ n \in below(n) /\ below(n) \subseteq Node /\ m \in Node
  BY <1>1, Names, BelowFacts, BelowBelow
<1>3. ASSUME n \in below(m) PROVE FALSE
  <2>1. PICK q \in below(m) : n \in children[q]
    BY <1>1, <1>2, <1>3, Names, BelowParent
  <2>2. q \in Below(children, n)
    BY <1>2, <2>1, Names
  <2>3. QED
    BY <1>1, <2>1, <2>2
<1>4. IsFiniteSet(below(n)) /\ IsFiniteSet(below(m))
  BY <1>2, TreeAssumption, FS_Subset
<1>5. /\ Cardinality(below(m)) \in Nat /\ Cardinality(below(n)) \in Nat
      /\ Cardinality(below(m)) <= Cardinality(below(n))
      /\ Cardinality(below(m)) # Cardinality(below(n))
  BY <1>2, <1>3, <1>4, FS_CardinalityType, FS_Subset
<1>6. QED
  BY <1>5

(* Every node found is below one that is below no other.                     *)
LEMMA TopmostCover ==
  ASSUME TreeInv, NEW S \in SUBSET live
  PROVE  destroyed(topmost(S)) = destroyed(S)
<1>1. live \subseteq Node /\ children \in [Node -> SUBSET Node]
  BY DEF TreeInv, Forest
<1>2. destroyed(topmost(S)) \subseteq destroyed(S)
  BY DEF destroyed, topmost
<1>3. ASSUME NEW c \in S PROVE \E n \in topmost(S) : c \in below(n)
  <2> DEFINE A == {m \in S : c \in below(m)}
             size(m) == Cardinality(Node) - Cardinality(below(m))
             T == {size(m) : m \in A}
  <2>1. c \in A
    BY <1>1, Names, BelowFacts
  <2>2. \A m \in S : Cardinality(below(m)) \in Nat /\ size(m) \in Nat
    <3>1. ASSUME NEW m \in S PROVE Cardinality(below(m)) \in Nat /\ size(m) \in Nat
      <4>1. below(m) \in SUBSET Node
        BY <1>1, Names, BelowFacts
      <4>2. /\ IsFiniteSet(below(m)) /\ Cardinality(below(m)) <= Cardinality(Node)
        BY <4>1, TreeAssumption, FS_Subset
      <4>3. Cardinality(below(m)) \in Nat /\ Cardinality(Node) \in Nat
        BY <4>2, TreeAssumption, FS_CardinalityType
      <4>4. QED
        BY <4>2, <4>3
    <3>2. QED
      BY <3>1
  <2>3. T \subseteq Nat /\ T # {}
    BY <2>1, <2>2
  <2>4. PICK x \in T : \A y \in T : x <= y
    <3> HIDE DEF T
    <3>1. QED
      BY <2>3, LeastNumber
  <2>5. PICK n \in A : \A m \in A : size(n) <= size(m)
    BY <2>4
  <2>6. ASSUME NEW m \in S, m # n, n \in below(m) PROVE FALSE
    <3>1. m \in A
      BY <1>1, <2>5, <2>6, Names, BelowBelow
    <3>2. Cardinality(below(n)) < Cardinality(below(m))
      BY <2>5, <2>6, BelowLess
    <3>3. size(n) <= size(m) /\ n \in S
      BY <2>5, <3>1
    <3>4. Cardinality(Node) \in Nat
      BY TreeAssumption, FS_CardinalityType
    <3>5. QED
      BY <2>2, <3>2, <3>3, <3>4
  <2>7. n \in topmost(S)
    BY <2>5, <2>6 DEF topmost
  <2>8. QED
    BY <2>5, <2>7
<1>4. ASSUME NEW c \in S, NEW x \in below(c) PROVE x \in destroyed(topmost(S))
  <2>1. PICK n \in topmost(S) : c \in below(n)
    BY <1>3
  <2>2. n \in Node
    BY <1>1 DEF topmost
  <2>3. x \in below(n)
    BY <1>1, <1>4, <2>1, <2>2, Names, BelowBelow
  <2>4. QED
    BY <2>3 DEF destroyed
<1>5. QED
  BY <1>2, <1>4 DEF destroyed

LEMMA RemovesStep ==
  ASSUME TreeInv, NEW p \in Node, NEW t \in Tag, DelChildren(p, t, TRUE)
  PROVE  LET found == {c \in below(p) \ {p} : tag[c] = t} IN
         /\ live' = live \ UNION {below(c) : c \in found}
         /\ below(p)' = below(p) \cap live'
<1> DEFINE found == {c \in below(p) \ {p} : tag[c] = t}
           D == destroyed(found)
<1>1. /\ p \in live /\ live' = live \ destroyed(topmost(found))
      /\ children' = [q \in Node |-> IF q \in below(p) THEN children[q] \ destroyed(topmost(found))
                                                         ELSE children[q]]
  BY DEF DelChildren, deleted
<1>2. /\ Forest(live, ref, children, inner) /\ live \subseteq Node
      /\ children \in [Node -> SUBSET Node]
      /\ \A n \in live : \A q \in Below(children, n) : n \notin children[q]
  BY DEF TreeInv, Forest
<1>3. /\ p \in below(p) /\ below(p) \subseteq live /\ below(p) = Below(children, p)
      /\ \A q \in below(p) : children[q] \subseteq below(p)
  BY <1>1, <1>2, Names, BelowFacts, BelowLive DEF Closed
<1>4. destroyed(topmost(found)) = D
  <2>1. found \in SUBSET live
    BY <1>3
  <2>2. QED
    BY <2>1, TopmostCover
<1>5. live' = live \ UNION {below(c) : c \in found}
  BY <1>1, <1>4 DEF destroyed
<1>6. p \notin D
  <2>1. ASSUME NEW c \in found, p \in below(c) PROVE FALSE
    <3>1. c \in Node /\ p # c /\ c \in below(p)
      BY <1>2, <1>3
    <3>2. PICK q \in below(c) : p \in children[q]
      BY <1>2, <2>1, <3>1, Names, BelowParent
    <3>3. q \in Below(children, p)
      BY <1>1, <1>2, <1>3, <3>1, <3>2, Names, BelowBelow
    <3>4. QED
      BY <1>1, <1>2, <3>2, <3>3
  <2>2. QED
    BY <2>1 DEF destroyed
<1>7. \A q \in D : q \in Node => children[q] \subseteq D
  <2>1. ASSUME NEW c \in found, NEW q \in below(c) PROVE children[q] \subseteq below(c)
    BY <1>2, <1>3, <2>1, Names, BelowFacts DEF Closed
  <2>2. QED
    BY <2>1 DEF destroyed
<1>8. /\ children' \in [Node -> SUBSET Node]
      /\ \A q \in below(p) : children'[q] = children[q] \ D
  BY <1>1, <1>2, <1>3, <1>4
<1> HIDE DEF D, found
<1> DEFINE T == Below(children', p)
<1>9. T \subseteq below(p) \ D
  <2>1. Closed(children', below(p) \ D) /\ p \in below(p) \ D /\ below(p) \ D \in SUBSET Node
    BY <1>2, <1>3, <1>6, <1>8 DEF Closed
  <2>2. QED
    BY <1>8, <2>1, BelowFacts
<1>10. below(p) \ D \subseteq T
  <2>1. p \in T /\ T \subseteq Node /\ \A q \in T : children'[q] \subseteq T
    BY <1>8, BelowFacts DEF Closed
  <2> DEFINE X == T \cup (D \cap Node)
  <2>2. \A q \in T : children[q] \subseteq X
    <3>1. ASSUME NEW q \in T, NEW m \in children[q], m \notin D PROVE m \in T
      BY <1>8, <1>9, <2>1, <3>1
    <3>2. \A q \in T : children[q] \subseteq Node
      BY <1>2, <2>1
    <3>3. QED
      BY <3>1, <3>2
  <2>3. \A q \in D \cap Node : children[q] \subseteq X
    BY <1>2, <1>7
  <2>4. Closed(children, X) /\ p \in X /\ X \in SUBSET Node
    BY <2>1, <2>2, <2>3 DEF Closed
  <2>5. below(p) \subseteq X
    BY <1>2, <1>3, <2>4, BelowFacts
  <2>6. QED
    BY <2>5
<1>11. below(p)' = T
  BY DEF below, Below, closed, Closed
<1>12. below(p)' = below(p) \cap live'
  BY <1>1, <1>3, <1>4, <1>9, <1>10, <1>11
<1>13. QED
  BY <1>5, <1>12 DEF found

(* DelChildren with FIND_SUBTREE destroys the nodes of the tag below p, and  *)
(* what is below these, and nothing else; and what it leaves of the tree     *)
(* under p is what was there before, in place.                               *)
THEOREM RemovalsAreExact == Spec => RemovesExactly
<1>1. TreeInv /\ [Next]_vars =>
        [\A p \in Node, t \in Tag :
           LET found == {c \in below(p) \ {p} : tag[c] = t} IN
           DelChildren(p, t, TRUE) => /\ live' = live \ UNION {below(c) : c \in found}
                                      /\ below(p)' = below(p) \cap live']_vars
  BY RemovesStep
<1>2. QED
  BY <1>1, TreeInit, TreeStep, PTL DEF Spec, RemovesExactly

(* ----------------------- TinyXmlNodes ------------------------------------ *)

(* -------------------- forests of sets of children ------------------------ *)

Top(ch, n) == \A q \in Node : n \notin ch[q]

(* Only nodes that are there have children or are children, of one node      *)
(* each, and every one is below one that is nobody's child.                  *)
Shape(l, ch) ==
  /\ l \subseteq Node /\ ch \in [Node -> SUBSET Node]
  /\ \A p \in Node : ch[p] \subseteq l
  /\ \A p \in Node \ l : ch[p] = {}
  /\ \A p, q \in Node : \A m \in ch[p] : m \in ch[q] => p = q
  /\ \A n \in l : \E r \in l : Top(ch, r) /\ n \in Below(ch, r)

(* What is below a node that is there is there.                              *)
LEMMA ShapeBelow ==
  ASSUME NEW l, NEW ch, Shape(l, ch), NEW n \in l
  PROVE  Below(ch, n) \subseteq l
<1>1. ch \in [Node -> SUBSET Node] /\ n \in Node /\ l \in SUBSET Node /\ Closed(ch, l)
  BY DEF Shape, Closed
<1>2. QED
  BY <1>1, BelowFacts

(* No node is below its own child.                                           *)
LEMMA ShapeAcyclic ==
  ASSUME NEW l, NEW ch, Shape(l, ch), NEW p \in Node, NEW m \in ch[p]
  PROVE  p \notin Below(ch, m)
<1>1. ch \in [Node -> SUBSET Node] /\ m \in l /\ m \in Node
  BY DEF Shape
<1>2. PICK r \in l : Top(ch, r) /\ m \in Below(ch, r)
  BY <1>1 DEF Shape
<1>3. SUFFICES ASSUME p \in Below(ch, m) PROVE FALSE
  OBVIOUS
<1> DEFINE C == Below(ch, m)
           S == Node \ C
<1>4. r \in Node
  BY DEF Shape
<1>5. \A x \in C : \E q \in C : x \in ch[q]
  BY <1>1, <1>3, BelowParent
<1>6. r \in S
  BY <1>2, <1>4, <1>5, <1>1, BelowFacts DEF Top
<1>7. Closed(ch, S)
  <2>1. ASSUME NEW x \in S, NEW y \in ch[x], y \in C PROVE FALSE
    <3>1. PICK q \in C : y \in ch[q]
      BY <1>5, <2>1
    <3>2. q \in Node /\ x \in Node
      BY <1>1, BelowFacts
    <3>3. q = x
      BY <3>1, <3>2 DEF Shape
    <3>4. QED
      BY <3>3
  <2>2. QED
    BY <2>1, <1>1 DEF Closed
<1>8. m \in S
  BY <1>1, <1>2, <1>4, <1>6, <1>7, BelowFacts
<1>9. QED
  BY <1>8, <1>1, BelowFacts

LEMMA ShapeNew ==
  ASSUME NEW l, NEW ch, Shape(l, ch), NEW n \in Node
  PROVE  Shape(l \cup {n}, ch)
<1>1. ch \in [Node -> SUBSET Node]
  BY DEF Shape
<1>2. CASE n \in l
  <2>1. l \cup {n} = l
    BY <1>2
  <2>2. QED
    BY <2>1
<1>3. CASE n \notin l
  <2>1. Top(ch, n) /\ n \in Below(ch, n)
    BY <1>1, <1>3, BelowFacts DEF Top, Shape
  <2>2. \A x \in l \cup {n} : \E r \in l \cup {n} : Top(ch, r) /\ x \in Below(ch, r)
    BY <2>1 DEF Shape
  <2>3. QED
    BY <2>2 DEF Shape
<1>4. QED
  BY <1>2, <1>3

(* A node that is nobody's child becomes a child.                            *)
LEMMA ShapeLink ==
  ASSUME NEW l, NEW ch, Shape(l, ch), NEW p \in l, NEW k \in l,
         Top(ch, k), p \notin Below(ch, k),
         NEW new \in [Node -> SUBSET Node],
         new[p] = ch[p] \cup {k}, \A q \in Node : q # p => new[q] = ch[q]
  PROVE  Shape(l, new)
<1>1. ch \in [Node -> SUBSET Node] /\ l \subseteq Node /\ p \in Node /\ k \in Node
  BY DEF Shape
<1>2. \A r \in Node : Below(ch, r) \subseteq Below(new, r)
  <2>1. TAKE r \in Node
  <2>2. Closed(ch, Below(new, r)) /\ r \in Below(new, r) /\ Below(new, r) \subseteq Node
    BY <1>1, BelowFacts DEF Closed
  <2>3. QED
    BY <1>1, <2>2, BelowFacts
<1>3. \A r \in l : Top(ch, r) /\ r # k => Top(new, r)
  BY DEF Top
<1>4. ASSUME NEW n \in l PROVE \E r \in l : Top(new, r) /\ n \in Below(new, r)
  <2>1. PICK r \in l : Top(ch, r) /\ n \in Below(ch, r)
    BY DEF Shape
  <2>2. CASE r # k
    BY <1>1, <1>2, <1>3, <2>1, <2>2
  <2>3. CASE r = k
    <3>1. PICK s \in l : Top(ch, s) /\ p \in Below(ch, s)
      BY DEF Shape
    <3>2. s # k /\ s \in Node
      BY <1>1, <3>1
    <3>3. p \in Below(new, s) /\ k \in new[p]
      BY <1>1, <1>2, <3>1, <3>2
    <3>4. k \in Below(new, s)
      BY <3>2, <3>3, BelowFacts DEF Closed
    <3>5. n \in Below(new, k)
      BY <1>1, <1>2, <2>1, <2>3
    <3>6. n \in Below(new, s)
      BY <3>2, <3>4, <3>5, BelowBelow
    <3>7. QED
      BY <1>3, <3>1, <3>2, <3>6
  <2>4. QED
    BY <2>2, <2>3
<1>5. \A q \in Node : new[q] \subseteq l
  BY DEF Shape
<1>6. \A q \in Node \ l : new[q] = {}
  BY DEF Shape
<1>7. \A x, y \in Node : \A m \in new[x] : m \in new[y] => x = y
  BY DEF Shape, Top
<1>8. QED
  BY <1>1, <1>4, <1>5, <1>6, <1>7 DEF Shape

(* Children are taken from their parents, and stay as trees of their own.    *)
LEMMA ShapeLoosen ==
  ASSUME NEW l, NEW ch, Shape(l, ch), NEW new \in [Node -> SUBSET Node],
         \A q \in Node : new[q] \subseteq ch[q]
  PROVE  Shape(l, new)
<1>1. ch \in [Node -> SUBSET Node] /\ l \subseteq Node
  BY DEF Shape
<1> DEFINE S == {n \in Node : \E r \in l : Top(new, r) /\ n \in Below(new, r)}
<1>2. Closed(ch, S)
  <2>1. ASSUME NEW n \in S, NEW m \in ch[n] PROVE m \in S
    <3>1. PICK r \in l : Top(new, r) /\ n \in Below(new, r)
      OBVIOUS
    <3>2. r \in Node /\ m \in Node /\ m \in l /\ n \in Node
      BY <1>1 DEF Shape
    <3>3. CASE m \in new[n]
      <4>1. m \in Below(new, r)
        BY <3>1, <3>2, <3>3, BelowFacts DEF Closed
      <4>2. QED
        BY <3>1, <3>2, <4>1
    <3>4. CASE m \notin new[n]
      <4>1. Top(new, m)
        BY <3>2, <3>4 DEF Top, Shape
      <4>2. m \in Below(new, m)
        BY <3>2, BelowFacts
      <4>3. QED
        BY <3>2, <4>1, <4>2
    <3>5. QED
      BY <3>3, <3>4
  <2>2. QED
    BY <2>1 DEF Closed
<1>3. \A r \in l : Top(ch, r) => r \in S
  <2>1. TAKE r \in l
  <2>2. r \in Node /\ r \in Below(new, r)
    BY <1>1, BelowFacts
  <2>3. Top(ch, r) => Top(new, r)
    BY DEF Top
  <2>4. QED
    BY <2>2, <2>3
<1>4. \A n \in l : \E r \in l : Top(new, r) /\ n \in Below(new, r)
  <2>1. TAKE n \in l
  <2>2. PICK r \in l : Top(ch, r) /\ n \in Below(ch, r)
    BY DEF Shape
  <2>3. S \in SUBSET Node /\ r \in S /\ r \in Node
    BY <1>1, <1>3, <2>2
  <2>4. Below(ch, r) \subseteq S
    BY <1>1, <1>2, <2>3, BelowFacts
  <2>5. QED
    BY <2>2, <2>4
<1>5. \A q \in Node : new[q] \subseteq l
  BY DEF Shape
<1>6. \A q \in Node \ l : new[q] = {}
  BY DEF Shape
<1>7. \A x, y \in Node : \A m \in new[x] : m \in new[y] => x = y
  BY DEF Shape
<1>8. QED
  BY <1>1, <1>4, <1>5, <1>6, <1>7 DEF Shape

(* Whole trees go.                                                           *)
LEMMA ShapePrune ==
  ASSUME NEW l, NEW ch, Shape(l, ch), NEW D \in SUBSET Node, Closed(ch, D),
         \A q \in Node \ D : ch[q] \cap D = {},
         NEW new \in [Node -> SUBSET Node],
         \A q \in D : new[q] = {}, \A q \in Node \ D : new[q] = ch[q]
  PROVE  Shape(l \ D, new)
<1>1. ch \in [Node -> SUBSET Node] /\ l \subseteq Node
  BY DEF Shape
<1>2. \A n \in l \ D : \E r \in l \ D : Top(new, r) /\ n \in Below(new, r)
  <2>1. TAKE n \in l \ D
  <2>2. PICK r \in l : Top(ch, r) /\ n \in Below(ch, r)
    BY DEF Shape
  <2>3. r \in Node
    BY <1>1
  <2>4. r \notin D
    BY <1>1, <2>2, <2>3, BelowFacts
  <2>5. Closed(ch, Below(new, r) \cup D)
    <3>1. Closed(new, Below(new, r))
      BY <2>3, BelowFacts
    <3>2. Below(new, r) \subseteq Node
      BY <2>3, BelowFacts
    <3>3. QED
      BY <3>1, <3>2 DEF Closed
  <2>6. Below(ch, r) \subseteq Below(new, r) \cup D
    BY <1>1, <2>3, <2>5, BelowFacts
  <2>7. Top(new, r)
    BY <2>2 DEF Top
  <2>8. QED
    BY <2>2, <2>4, <2>6, <2>7
<1>3. \A q \in Node : new[q] \subseteq l \ D
  BY DEF Shape
<1>4. \A q \in Node \ (l \ D) : new[q] = {}
  BY DEF Shape
<1>5. \A x, y \in Node : \A m \in new[x] : m \in new[y] => x = y
  BY DEF Shape
<1>6. QED
  BY <1>1, <1>2, <1>3, <1>4, <1>5 DEF Shape

(* copy gives nodes that are not there to n and to all below it; R is those  *)
(* nodes, with children that are the copies of the children.                 *)
Copying(l, ch, n, copy, R) ==
  /\ n \in l /\ copy \in [Below(ch, n) -> Node \ l]
  /\ \A x, y \in Below(ch, n) : copy[x] = copy[y] => x = y
  /\ R = {copy[x] : x \in Below(ch, n)}

CopiedSets(ch, D, copy, R, new) ==
  /\ new \in [Node -> SUBSET Node]
  /\ \A x \in D : new[copy[x]] = {copy[y] : y \in ch[x]}
  /\ \A q \in Node \ R : new[q] = ch[q]

(* Copies of a node and of all below it make a tree of their own.            *)
LEMMA ShapeCopy ==
  ASSUME NEW l, NEW ch, NEW n, NEW copy, NEW R, NEW new, Shape(l, ch), Copying(l, ch, n, copy, R),
         CopiedSets(ch, Below(ch, n), copy, R, new)
  PROVE  /\ Shape(l \cup R, new)
         /\ Top(new, copy[n])
         /\ Below(new, copy[n]) \subseteq R
<1> DEFINE D == Below(ch, n)
<1>0. /\ n \in l /\ copy \in [D -> Node \ l] /\ R = {copy[x] : x \in D}
      /\ \A x, y \in D : copy[x] = copy[y] => x = y
      /\ \A x \in D : new[copy[x]] = {copy[y] : y \in ch[x]}
      /\ \A q \in Node \ R : new[q] = ch[q]
      /\ new \in [Node -> SUBSET Node]
  BY DEF Copying, CopiedSets
<1>1. /\ ch \in [Node -> SUBSET Node] /\ l \subseteq Node /\ n \in Node /\ n \in l
      /\ n \in D /\ D \subseteq l /\ Closed(ch, D) /\ new \in [Node -> SUBSET Node]
  <2>1. ch \in [Node -> SUBSET Node] /\ l \subseteq Node /\ n \in Node
    BY <1>0 DEF Shape
  <2>2. QED
    BY <1>0, <2>1, BelowFacts, ShapeBelow
<1>2. \A x \in D : ch[x] \subseteq D
  BY <1>1 DEF Closed
<1>3. R \subseteq Node /\ R \cap l = {}
  BY <1>0
<1>4. \A x \in D : new[copy[x]] = {copy[y] : y \in ch[x]} /\ copy[x] \in R /\ copy[x] \notin l
  BY <1>0
<1>5. \A q \in Node \ R : new[q] = ch[q] /\ new[q] \subseteq l
  BY <1>0 DEF Shape
<1>6. \A q \in R : \E x \in D : q = copy[x]
  BY <1>0
<1>7. \A x, y \in D : copy[x] = copy[y] => x = y
  BY <1>0
<1>8. \A x \in D : n \notin ch[x]
  BY <1>1, ShapeAcyclic
<1> HIDE DEF D
<1>9. Top(new, copy[n])
  <2>1. ASSUME NEW q \in Node, copy[n] \in new[q] PROVE FALSE
    <3>1. CASE q \in R
      <4>1. PICK x \in D : q = copy[x]
        BY <3>1, <1>6
      <4>2. PICK y \in ch[x] : copy[n] = copy[y]
        BY <1>4, <2>1, <4>1
      <4>3. y = n
        BY <1>1, <1>2, <1>7, <4>1, <4>2
      <4>4. QED
        BY <1>8, <4>1, <4>2, <4>3
    <3>2. CASE q \notin R
      BY <1>1, <1>4, <1>5, <2>1, <3>2
    <3>3. QED
      BY <3>1, <3>2
  <2>2. QED
    BY <2>1 DEF Top
<1>10. \A q \in R : new[q] \subseteq R
  BY <1>2, <1>4, <1>6
<1>11. Below(new, copy[n]) \subseteq R
  BY <1>1, <1>3, <1>4, <1>10, BelowFacts DEF Closed
<1>12. \A r \in Node : Below(ch, r) \subseteq Below(new, r)
  <2>1. TAKE r \in Node
  <2>2. Below(new, r) \subseteq Node /\ r \in Below(new, r) /\ Closed(new, Below(new, r))
    BY <1>1, BelowFacts
  <2>3. \A q \in Node : ch[q] \subseteq new[q]
    BY <1>3, <1>5 DEF Shape
  <2>4. Closed(ch, Below(new, r))
    BY <2>2, <2>3 DEF Closed
  <2>5. QED
    BY <1>1, <2>2, <2>4, BelowFacts
<1>13. \A x \in D : copy[x] \in Below(new, copy[n])
  <2> DEFINE S == {x \in D : copy[x] \in Below(new, copy[n])}
  <2>1. copy[n] \in Node /\ Below(new, copy[n]) \subseteq Node /\ copy[n] \in Below(new, copy[n])
        /\ Closed(new, Below(new, copy[n]))
    BY <1>1, <1>3, <1>4, BelowFacts
  <2>2. Closed(ch, S)
    <3>1. ASSUME NEW x \in S, NEW y \in ch[x] PROVE y \in S
      <4>1. y \in D /\ copy[y] \in new[copy[x]]
        BY <1>2, <1>4
      <4>2. copy[y] \in Below(new, copy[n])
        BY <2>1, <4>1 DEF Closed
      <4>3. QED
        BY <4>1, <4>2
    <3>2. QED
      BY <3>1 DEF Closed
  <2>3. n \in S /\ S \in SUBSET Node
    BY <1>1, <2>1
  <2>4. D \subseteq S
    BY <1>1, <2>2, <2>3, BelowFacts DEF D
  <2>5. QED
    BY <2>4
<1>14. \A m \in l \cup R : \E r \in l \cup R : Top(new, r) /\ m \in Below(new, r)
  <2>1. ASSUME NEW m \in l PROVE \E r \in l : Top(new, r) /\ m \in Below(new, r)
    <3>1. PICK r \in l : Top(ch, r) /\ m \in Below(ch, r)
      BY DEF Shape
    <3>2. \A q \in R : r \notin new[q]
      BY <1>3, <1>10
    <3>3. Top(new, r)
      BY <1>5, <3>1, <3>2 DEF Top
    <3>4. QED
      BY <1>1, <1>12, <3>1, <3>3
  <2>2. ASSUME NEW m \in R PROVE Top(new, copy[n]) /\ m \in Below(new, copy[n]) /\ copy[n] \in R
    BY <1>1, <1>4, <1>6, <1>9, <1>13
  <2>3. QED
    BY <2>1, <2>2
<1>15. \A q \in Node : new[q] \subseteq l \cup R
  BY <1>5, <1>10
<1>16. \A q \in Node \ (l \cup R) : new[q] = {}
  BY <1>5 DEF Shape
<1>17. ASSUME NEW a \in Node, NEW b \in Node, NEW m \in new[a], m \in new[b] PROVE a = b
  <2>1. CASE a \in R /\ b \in R
    <3>1. PICK x \in D, y \in D : a = copy[x] /\ b = copy[y]
      BY <2>1, <1>6
    <3>2. PICK u \in ch[x], v \in ch[y] : m = copy[u] /\ m = copy[v]
      BY <1>4, <1>17, <3>1
    <3>3. u = v
      BY <1>2, <1>7, <3>1, <3>2
    <3>4. x = y
      BY <1>1, <3>1, <3>2, <3>3 DEF Shape
    <3>5. QED
      BY <3>1, <3>4
  <2>2. CASE a \notin R /\ b \notin R
    BY <1>5, <1>17, <2>2 DEF Shape
  <2>3. CASE (a \in R /\ b \notin R) \/ (a \notin R /\ b \in R)
    BY <1>3, <1>5, <1>10, <1>17, <2>3
  <2>4. QED
    BY <2>1, <2>2, <2>3
<1>18. Shape(l \cup R, new)
  BY <1>1, <1>3, <1>14, <1>15, <1>16, <1>17 DEF Shape
<1>19. QED
  BY <1>9, <1>11, <1>18

(* -------------------- sequences of children ------------------------------ *)

At(s, i) == IF i \in 1..Len(s) THEN s[i] ELSE NoNode
Ins(s, i, e) == [j \in 1..Len(s) + 1 |-> IF j < i THEN s[j] ELSE IF j = i THEN e ELSE s[j - 1]]
Rem(s, i) == [j \in 1..Len(s) - 1 |-> IF j < i THEN s[j] ELSE s[j + 1]]
Distinct(s) == \A i, j \in 1..Len(s) : s[i] = s[j] => i = j

LEMMA RangeFacts ==
  ASSUME NEW s \in Seq(Node)
  PROVE  /\ Range(s) = {s[i] : i \in 1..Len(s)}
         /\ Range(s) \subseteq Node
         /\ Range(s) = {} <=> s = <<>>
         /\ \A i \in 1..Len(s) : s[i] \in Range(s) /\ s[i] \in Node
         /\ Len(s) \in Nat /\ DOMAIN s = 1..Len(s)
<1>1. Len(s) \in Nat /\ DOMAIN s = 1..Len(s) /\ \A i \in 1..Len(s) : s[i] \in Node
  BY LenProperties, ElementOfSeq
<1>2. Range(s) = {s[i] : i \in 1..Len(s)}
  BY <1>1 DEF Range
<1>3. s = <<>> <=> Len(s) = 0
  BY EmptySeq
<1>4. \A i \in 1..Len(s) : s[i] \in Range(s)
  BY <1>2
<1>5. Range(s) \subseteq Node
  BY <1>1, <1>2
<1>6. Range(s) = {} <=> Len(s) = 0
  <2>1. Len(s) # 0 => s[1] \in Range(s)
    BY <1>1, <1>4
  <2>2. Len(s) = 0 => Range(s) = {}
    BY <1>2
  <2>3. QED
    BY <2>1, <2>2
<1>7. QED
  BY <1>1, <1>2, <1>3, <1>4, <1>5, <1>6

LEMMA InsFacts ==
  ASSUME NEW s \in Seq(Node), NEW i \in 1..Len(s) + 1, NEW e \in Node
  PROVE  /\ Ins(s, i, e) \in Seq(Node) /\ Len(Ins(s, i, e)) = Len(s) + 1
         /\ \A j \in 1..Len(s) + 1 :
              Ins(s, i, e)[j] = IF j < i THEN s[j] ELSE IF j = i THEN e ELSE s[j - 1]
         /\ Range(Ins(s, i, e)) = Range(s) \cup {e}
         /\ Distinct(s) /\ e \notin Range(s) => Distinct(Ins(s, i, e))
<1> DEFINE t == Ins(s, i, e)
           n == Len(s)
<1>1. n \in Nat /\ i \in Nat /\ \A j \in 1..n : s[j] \in Node
  BY RangeFacts
<1>2. \A j \in 1..n + 1 : t[j] = IF j < i THEN s[j] ELSE IF j = i THEN e ELSE s[j - 1]
  BY DEF Ins
<1>3. t = [j \in 1..n + 1 |-> IF j < i THEN s[j] ELSE IF j = i THEN e ELSE s[j - 1]]
  BY DEF Ins
<1>4. \A j \in 1..n + 1 : (IF j < i THEN s[j] ELSE IF j = i THEN e ELSE s[j - 1]) \in Node
  BY <1>1
<1>5. t \in [1..n + 1 -> Node]
  BY <1>3, <1>4
<1>6. t \in Seq(Node) /\ Len(t) = n + 1
  <2>1. n + 1 \in Nat
    BY <1>1
  <2>2. t \in Seq(Node)
    BY <1>5, <2>1, SeqDef
  <2>3. QED
    BY <1>5, <2>1, <2>2, LenProperties
<1> HIDE DEF t, n
<1>7. Range(t) = Range(s) \cup {e}
  <2>1. Range(s) = {s[j] : j \in 1..n}
    BY RangeFacts DEF n
  <2>2. Range(t) = {t[j] : j \in 1..n + 1}
    BY <1>6, RangeFacts
  <2>3. ASSUME NEW j \in 1..n PROVE s[j] \in {t[k] : k \in 1..n + 1}
    <3>1. CASE j < i
      <4>1. t[j] = s[j] /\ j \in 1..n + 1
        BY <1>1, <1>2, <3>1
      <4>2. QED
        BY <4>1
    <3>2. CASE j >= i
      <4>1. t[j + 1] = s[j] /\ j + 1 \in 1..n + 1
        BY <1>1, <1>2, <3>2
      <4>2. QED
        BY <4>1
    <3>3. QED
      BY <1>1, <3>1, <3>2
  <2>4. t[i] = e /\ i \in 1..n + 1
    BY <1>1, <1>2 DEF n
  <2>5. ASSUME NEW j \in 1..n + 1 PROVE t[j] \in {s[k] : k \in 1..n} \cup {e}
    <3>1. CASE j < i
      <4>1. j \in 1..n
        BY <1>1, <3>1 DEF n
      <4>2. QED
        BY <1>2, <3>1, <4>1
    <3>2. CASE j > i
      <4>1. j - 1 \in 1..n /\ t[j] = s[j - 1]
        BY <1>1, <1>2, <3>2
      <4>2. QED
        BY <4>1
    <3>3. QED
      BY <1>1, <1>2, <3>1, <3>2
  <2>6. QED
    BY <2>1, <2>2, <2>3, <2>4, <2>5
<1>8. ASSUME Distinct(s), e \notin Range(s) PROVE Distinct(t)
  <2>1. ASSUME NEW j \in 1..n + 1, NEW k \in 1..n + 1, t[j] = t[k], j < k PROVE FALSE
    <3>1. \A x \in 1..n : s[x] # e
      BY <1>8, RangeFacts DEF n
    <3>2. \A x, y \in 1..n : s[x] = s[y] => x = y
      BY <1>8 DEF Distinct, n
    <3>3. CASE k < i
      <4>1. j \in 1..n /\ k \in 1..n /\ t[j] = s[j] /\ t[k] = s[k]
        BY <1>1, <1>2, <2>1, <3>3 DEF n
      <4>2. j = k
        BY <2>1, <3>2, <4>1
      <4>3. j \in Int /\ k \in Int
        BY <1>1
      <4>4. QED
        BY <2>1, <4>2, <4>3
    <3>4. CASE k = i
      <4>1. j \in 1..n /\ t[j] = s[j] /\ t[k] = e
        BY <1>1, <1>2, <2>1, <3>4 DEF n
      <4>2. QED
        BY <2>1, <3>1, <4>1
    <3>5. CASE k > i /\ j < i
      <4>1. j \in 1..n /\ k - 1 \in 1..n /\ t[j] = s[j] /\ t[k] = s[k - 1]
        BY <1>1, <1>2, <2>1, <3>5 DEF n
      <4>2. j = k - 1
        BY <2>1, <3>2, <4>1
      <4>3. j \in Int /\ k \in Int /\ i \in Int
        BY <1>1
      <4>4. QED
        BY <3>5, <4>2, <4>3
    <3>6. CASE k > i /\ j = i
      <4>1. k - 1 \in 1..n /\ t[j] = e /\ t[k] = s[k - 1]
        BY <1>1, <1>2, <2>1, <3>6 DEF n
      <4>2. QED
        BY <2>1, <3>1, <4>1
    <3>7. CASE k > i /\ j > i
      <4>1. j - 1 \in 1..n /\ k - 1 \in 1..n /\ t[j] = s[j - 1] /\ t[k] = s[k - 1]
        BY <1>1, <1>2, <2>1, <3>7 DEF n
      <4>2. j - 1 = k - 1
        BY <2>1, <3>2, <4>1
      <4>3. QED
        BY <1>1, <2>1, <4>2
    <3>8. QED
      BY <1>1, <3>3, <3>4, <3>5, <3>6, <3>7
  <2>2. \A j, k \in 1..n + 1 : t[j] = t[k] => j = k
    BY <1>1, <2>1
  <2>3. QED
    BY <1>6, <2>2 DEF Distinct
<1>9. QED
  BY <1>2, <1>6, <1>7, <1>8 DEF t, n

LEMMA RemFacts ==
  ASSUME NEW s \in Seq(Node), NEW i \in 1..Len(s)
  PROVE  /\ Rem(s, i) \in Seq(Node) /\ Len(Rem(s, i)) = Len(s) - 1
         /\ \A j \in 1..Len(s) - 1 : Rem(s, i)[j] = IF j < i THEN s[j] ELSE s[j + 1]
         /\ Distinct(s) => Range(Rem(s, i)) = Range(s) \ {s[i]} /\ Distinct(Rem(s, i))
<1> DEFINE t == Rem(s, i)
           n == Len(s)
<1>1. n \in Nat /\ i \in Nat /\ n # 0 /\ \A j \in 1..n : s[j] \in Node
  BY RangeFacts
<1>2. \A j \in 1..n - 1 : t[j] = IF j < i THEN s[j] ELSE s[j + 1]
  BY DEF Rem
<1>3. t = [j \in 1..n - 1 |-> IF j < i THEN s[j] ELSE s[j + 1]]
  BY DEF Rem
<1>4. \A j \in 1..n - 1 : (IF j < i THEN s[j] ELSE s[j + 1]) \in Node
  BY <1>1
<1>5. t \in [1..n - 1 -> Node]
  BY <1>3, <1>4
<1>6. t \in Seq(Node) /\ Len(t) = n - 1
  <2>1. n - 1 \in Nat
    BY <1>1
  <2>2. t \in Seq(Node)
    BY <1>5, <2>1, SeqDef
  <2>3. QED
    BY <1>5, <2>1, <2>2, LenProperties
<1> HIDE DEF t, n
<1>7. ASSUME Distinct(s) PROVE Range(t) = Range(s) \ {s[i]} /\ Distinct(t)
  <2>1. Range(s) = {s[j] : j \in 1..n} /\ i \in 1..n
    BY RangeFacts DEF n
  <2>2. Range(t) = {t[j] : j \in 1..n - 1}
    BY <1>6, RangeFacts
  <2>3. \A x, y \in 1..n : s[x] = s[y] => x = y
    BY <1>7 DEF Distinct, n
  <2>4. ASSUME NEW j \in 1..n, j # i PROVE s[j] \in {t[k] : k \in 1..n - 1}
    <3>1. CASE j < i
      <4>1. t[j] = s[j] /\ j \in 1..n - 1
        BY <1>1, <1>2, <2>1, <3>1
      <4>2. QED
        BY <4>1
    <3>2. CASE j > i
      <4>1. t[j - 1] = s[j] /\ j - 1 \in 1..n - 1
        BY <1>1, <1>2, <2>1, <3>2
      <4>2. QED
        BY <4>1
    <3>3. QED
      BY <1>1, <2>4, <3>1, <3>2
  <2>5. ASSUME NEW j \in 1..n - 1 PROVE \E k \in 1..n : k # i /\ t[j] = s[k] /\ k = (IF j < i THEN j ELSE j + 1)
    <3>1. CASE j < i
      <4>1. t[j] = s[j] /\ j \in 1..n /\ j # i
        BY <1>1, <1>2, <3>1
      <4>2. QED
        BY <4>1, <3>1
    <3>2. CASE ~(j < i)
      <4>1. t[j] = s[j + 1] /\ j + 1 \in 1..n /\ j + 1 # i
        BY <1>1, <1>2, <3>2
      <4>2. QED
        BY <4>1, <3>2
    <3>3. QED
      BY <3>1, <3>2
  <2>6. Range(t) = Range(s) \ {s[i]}
    <3>1. \A x \in Range(s) \ {s[i]} : x \in Range(t)
      BY <2>1, <2>2, <2>4
    <3>2. \A x \in Range(t) : x \in Range(s) \ {s[i]}
      <4>1. TAKE x \in Range(t)
      <4>2. PICK j \in 1..n - 1 : x = t[j]
        BY <2>2
      <4>3. PICK k \in 1..n : k # i /\ t[j] = s[k]
        BY <2>5
      <4>4. QED
        BY <2>1, <2>3, <4>2, <4>3
    <3>3. QED
      BY <3>1, <3>2
  <2>7. ASSUME NEW j \in 1..n - 1, NEW k \in 1..n - 1, t[j] = t[k] PROVE j = k
    <3>1. PICK x \in 1..n : t[j] = s[x] /\ x = (IF j < i THEN j ELSE j + 1)
      BY <2>5
    <3>2. PICK y \in 1..n : t[k] = s[y] /\ y = (IF k < i THEN k ELSE k + 1)
      BY <2>5
    <3>3. x = y
      BY <2>3, <2>7, <3>1, <3>2
    <3>4. QED
      BY <1>1, <3>1, <3>2, <3>3
  <2>8. QED
    BY <1>6, <2>6, <2>7 DEF Distinct
<1>8. QED
  BY <1>2, <1>6, <1>7 DEF t, n

LEMMA AtFacts ==
  ASSUME NEW s \in Seq(Node), Distinct(s)
  PROVE  /\ \A i \in Int : At(s, i) \in Node \cup {NoNode}
         /\ \A i \in Int : At(s, i) = NoNode <=> i \notin 1..Len(s)
         /\ \A i \in Int : At(s, i) # NoNode => At(s, i) = s[i] /\ i \in 1..Len(s)
         /\ \A i, j \in Int : At(s, i) = At(s, j) /\ At(s, i) # NoNode => i = j
  BY RangeFacts, TreeAssumption DEF At, Distinct

LEMMA AtIns ==
  ASSUME NEW s \in Seq(Node), NEW i \in 1..Len(s) + 1, NEW e \in Node, NEW j \in Int
  PROVE  At(Ins(s, i, e), j) = IF j < i THEN At(s, j) ELSE IF j = i THEN e ELSE At(s, j - 1)
<1> DEFINE t == Ins(s, i, e)
<1>1. Len(s) \in Nat /\ i \in 1..Len(s) + 1
  BY RangeFacts
<1>2. Len(t) = Len(s) + 1
      /\ \A x \in 1..Len(s) + 1 : t[x] = IF x < i THEN s[x] ELSE IF x = i THEN e ELSE s[x - 1]
  BY InsFacts
<1> HIDE DEF t
<1>3. QED
  BY <1>1, <1>2 DEF At, t

LEMMA AtRem ==
  ASSUME NEW s \in Seq(Node), NEW i \in 1..Len(s), NEW j \in Int
  PROVE  At(Rem(s, i), j) = IF j < i THEN At(s, j) ELSE At(s, j + 1)
<1> DEFINE t == Rem(s, i)
<1>1. Len(s) \in Nat /\ i \in 1..Len(s)
  BY RangeFacts
<1>2. Len(t) = Len(s) - 1 /\ \A x \in 1..Len(s) - 1 : t[x] = IF x < i THEN s[x] ELSE s[x + 1]
  BY RemFacts
<1> HIDE DEF t
<1>3. QED
  BY <1>1, <1>2 DEF At, t

(* -------------------- what the pointers stand for ------------------------ *)

On(ks) == [n \in Node |-> Range(ks[n])]

Lists(l, ks) ==
  /\ ks \in [Node -> Seq(Node)]
  /\ Shape(l, On(ks))
  /\ \A p \in Node : Distinct(ks[p])

(* The pointers are those of the sequences of children.                      *)
Links(ks, pa, fc, lc, pr, nx) ==
  /\ pa \in [Node -> Node \cup {NoNode}]
  /\ \A f \in {fc, lc, pr, nx} : f \in [Node -> Node \cup {NoNode}]
  /\ \A p \in Node : fc[p] = At(ks[p], 1) /\ lc[p] = At(ks[p], Len(ks[p]))
  /\ \A p \in Node : \A i \in 1..Len(ks[p]) :
       /\ pa[ks[p][i]] = p
       /\ pr[ks[p][i]] = At(ks[p], i - 1)
       /\ nx[ks[p][i]] = At(ks[p], i + 1)
  /\ \A n \in Node : Top(On(ks), n) => pa[n] = NoNode /\ pr[n] = NoNode /\ nx[n] = NoNode

LEMMA ListsFacts ==
  ASSUME NEW l, NEW ks, Lists(l, ks)
  PROVE  /\ ks \in [Node -> Seq(Node)] /\ l \subseteq Node
         /\ On(ks) \in [Node -> SUBSET Node]
         /\ \A p \in Node : ks[p] \in Seq(Node) /\ Distinct(ks[p]) /\ On(ks)[p] = Range(ks[p])
         /\ \A p \in Node : \A i \in 1..Len(ks[p]) : ks[p][i] \in l /\ ks[p][i] \in On(ks)[p]
         /\ \A p, q \in Node : \A i \in 1..Len(ks[p]), j \in 1..Len(ks[q]) :
              ks[p][i] = ks[q][j] => p = q /\ i = j
         /\ \A n \in Node : Top(On(ks), n) \/ \E p \in Node : \E i \in 1..Len(ks[p]) : ks[p][i] = n
         /\ \A n \in Node : Top(On(ks), n) => \A p \in Node : \A i \in 1..Len(ks[p]) : ks[p][i] # n
<1>1. ks \in [Node -> Seq(Node)] /\ Shape(l, On(ks)) /\ \A p \in Node : Distinct(ks[p])
  BY DEF Lists
<1>2. \A p \in Node : ks[p] \in Seq(Node) /\ On(ks)[p] = Range(ks[p])
  BY <1>1 DEF On
<1>3. \A p \in Node : \A i \in 1..Len(ks[p]) : ks[p][i] \in On(ks)[p]
  BY <1>2, RangeFacts
<1>4. l \subseteq Node /\ On(ks) \in [Node -> SUBSET Node] /\ (\A p \in Node : On(ks)[p] \subseteq l)
      /\ \A p, q \in Node : \A m \in On(ks)[p] : m \in On(ks)[q] => p = q
  BY <1>1 DEF Shape
<1>5. ASSUME NEW p \in Node, NEW q \in Node, NEW i \in 1..Len(ks[p]), NEW j \in 1..Len(ks[q]),
             ks[p][i] = ks[q][j]
      PROVE  p = q /\ i = j
  <2>1. p = q
    BY <1>3, <1>4, <1>5
  <2>2. QED
    BY <1>1, <1>5, <2>1 DEF Distinct
<1>6. \A n \in Node : Top(On(ks), n) \/ \E p \in Node : \E i \in 1..Len(ks[p]) : ks[p][i] = n
  <2>1. TAKE n \in Node
  <2>2. ASSUME NEW p \in Node, n \in On(ks)[p] PROVE \E i \in 1..Len(ks[p]) : ks[p][i] = n
    BY <1>2, <2>2, RangeFacts
  <2>3. QED
    BY <2>2 DEF Top
<1>7. \A n \in Node : Top(On(ks), n) => \A p \in Node : \A i \in 1..Len(ks[p]) : ks[p][i] # n
  BY <1>3 DEF Top
<1>8. QED
  BY <1>1, <1>2, <1>3, <1>4, <1>5, <1>6, <1>7

(* k, nobody's child, becomes the i-th child of p, between a and b.          *)
Put(l, ks, p, i, k, ks2) ==
  /\ p \in l /\ k \in l /\ Top(On(ks), k)
  /\ i \in 1..Len(ks[p]) + 1
  /\ ks2 \in [Node -> Seq(Node)]
  /\ ks2[p] = Ins(ks[p], i, k)
  /\ \A n \in Node : n # p => ks2[n] = ks[n]

Linked(ks, pa, fc, lc, pr, nx, p, i, k, pa2, fc2, lc2, pr2, nx2) ==
  LET a == At(ks[p], i - 1)
      b == At(ks[p], i)
  IN /\ pa2 \in [Node -> Node \cup {NoNode}]
     /\ \A f \in {fc2, lc2, pr2, nx2} : f \in [Node -> Node \cup {NoNode}]
     /\ \A n \in Node :
          /\ pa2[n] = IF n = k THEN p ELSE pa[n]
          /\ pr2[n] = IF n = b THEN k ELSE IF n = k THEN a ELSE pr[n]
          /\ nx2[n] = IF n = a THEN k ELSE IF n = k THEN b ELSE nx[n]
          /\ fc2[n] = IF n = p /\ a = NoNode THEN k ELSE fc[n]
          /\ lc2[n] = IF n = p /\ b = NoNode THEN k ELSE lc[n]

LEMMA PutLists ==
  ASSUME NEW l, NEW ks, NEW p, NEW i, NEW k, NEW ks2, Lists(l, ks), Put(l, ks, p, i, k, ks2),
         p \notin Below(On(ks), k)
  PROVE  Lists(l, ks2)
<1>1. /\ p \in l /\ k \in l /\ Top(On(ks), k)
      /\ i \in 1..Len(ks[p]) + 1
      /\ ks2 \in [Node -> Seq(Node)] /\ ks2[p] = Ins(ks[p], i, k)
      /\ \A n \in Node : n # p => ks2[n] = ks[n]
  BY DEF Put
<1>2. p \in Node /\ k \in Node /\ ks[p] \in Seq(Node) /\ Distinct(ks[p]) /\ k \notin Range(ks[p])
  BY <1>1, ListsFacts DEF Top
<1>3. Range(Ins(ks[p], i, k)) = Range(ks[p]) \cup {k} /\ Distinct(Ins(ks[p], i, k))
  BY ONLY <1>1, <1>2, InsFacts
<1>4. On(ks2)[p] = On(ks)[p] \cup {k} /\ \A n \in Node : n # p => On(ks2)[n] = On(ks)[n]
  BY <1>1, <1>2, <1>3 DEF On
<1>5. On(ks2) \in [Node -> SUBSET Node]
  BY <1>1, RangeFacts DEF On
<1>6. Shape(l, On(ks2))
  <2> DEFINE c == On(ks)
             c2 == On(ks2)
  <2>1. Shape(l, c)
    BY DEF Lists
  <2>2. /\ Shape(l, c) /\ Top(c, k) /\ p \notin Below(c, k) /\ c2 \in [Node -> SUBSET Node]
        /\ c2[p] = c[p] \cup {k} /\ \A q \in Node : q # p => c2[q] = c[q]
    BY <1>1, <1>4, <1>5, <2>1
  <2> HIDE DEF c, c2
  <2>3. Shape(l, c2)
    BY <1>1, <2>2, ShapeLink
  <2>4. QED
    BY <2>3 DEF c2
<1>7. \A n \in Node : Distinct(ks2[n])
  <2>1. TAKE n \in Node
  <2>2. CASE n = p
    BY <1>1, <1>3, <2>2
  <2>3. CASE n # p
    BY <1>1, <2>3, ListsFacts
  <2>4. QED
    BY <2>2, <2>3
<1>8. QED
  BY <1>1, <1>6, <1>7 DEF Lists

LEMMA LinkLinks ==
  ASSUME NEW l, NEW ks, NEW pa, NEW fc, NEW lc, NEW pr, NEW nx, Lists(l, ks), Links(ks, pa, fc, lc, pr, nx),
         NEW p, NEW i, NEW k, NEW ks2, Put(l, ks, p, i, k, ks2),
         NEW pa2, NEW fc2, NEW lc2, NEW pr2, NEW nx2,
         Linked(ks, pa, fc, lc, pr, nx, p, i, k, pa2, fc2, lc2, pr2, nx2)
  PROVE  Links(ks2, pa2, fc2, lc2, pr2, nx2)
<1> DEFINE s == ks[p]
           m == Len(s)
           a == At(s, i - 1)
           b == At(s, i)
<1>0. /\ p \in l /\ k \in l /\ Top(On(ks), k)
      /\ i \in 1..Len(ks[p]) + 1
      /\ ks2 \in [Node -> Seq(Node)] /\ ks2[p] = Ins(ks[p], i, k)
      /\ \A n \in Node : n # p => ks2[n] = ks[n]
  BY DEF Put
<1>1. /\ p \in Node /\ k \in Node /\ s \in Seq(Node) /\ Distinct(s)
      /\ m \in Nat /\ i \in Int /\ i >= 1 /\ i <= m + 1
  <2>1. p \in Node /\ k \in Node /\ s \in Seq(Node) /\ Distinct(s)
    BY <1>0, ListsFacts
  <2>2. m \in Nat
    BY <2>1, RangeFacts
  <2>3. QED
    BY <1>0, <2>1, <2>2
<1>2. /\ ks2 \in [Node -> Seq(Node)]
      /\ \A n \in Node : n # p => ks2[n] = ks[n]
      /\ ks2[p] = Ins(s, i, k) /\ Len(ks2[p]) = m + 1
  <2>1. Len(Ins(s, i, k)) = m + 1
    BY <1>1, InsFacts
  <2>2. QED
    BY <1>0, <2>1
<1>3. /\ \A n \in Node : pa2[n] = IF n = k THEN p ELSE pa[n]
      /\ \A n \in Node : pr2[n] = IF n = b THEN k ELSE IF n = k THEN a ELSE pr[n]
      /\ \A n \in Node : nx2[n] = IF n = a THEN k ELSE IF n = k THEN b ELSE nx[n]
      /\ \A n \in Node : fc2[n] = IF n = p /\ a = NoNode THEN k ELSE fc[n]
      /\ \A n \in Node : lc2[n] = IF n = p /\ b = NoNode THEN k ELSE lc[n]
  BY DEF Linked
<1>4. \A j \in Int : At(ks2[p], j) = IF j < i THEN At(s, j) ELSE IF j = i THEN k ELSE At(s, j - 1)
  BY <1>1, <1>2, AtIns
<1>5. /\ \A j \in Int : At(s, j) \in Node \cup {NoNode}
      /\ \A j \in Int : At(s, j) = NoNode <=> j \notin 1..m
      /\ \A j \in Int : At(s, j) # NoNode => At(s, j) = s[j] /\ j \in 1..m
      /\ \A j, x \in Int : At(s, j) = At(s, x) /\ At(s, j) # NoNode => j = x
  BY <1>1, AtFacts
<1>6. /\ \A n \in Node : fc[n] = At(ks[n], 1) /\ lc[n] = At(ks[n], Len(ks[n]))
      /\ \A n \in Node : \A j \in 1..Len(ks[n]) :
           pa[ks[n][j]] = n /\ pr[ks[n][j]] = At(ks[n], j - 1) /\ nx[ks[n][j]] = At(ks[n], j + 1)
      /\ \A n \in Node : Top(On(ks), n) => pa[n] = NoNode /\ pr[n] = NoNode /\ nx[n] = NoNode
  BY DEF Links
<1>7. NoNode \notin Node
  BY TreeAssumption
<1>8. \A n \in Node : \A j \in 1..Len(ks[n]) : ks[n][j] # k /\ ks[n][j] \in Node
  BY <1>0, <1>1, ListsFacts
<1>9. \A n \in Node : \A j \in 1..Len(ks[n]) : n # p => ks[n][j] # a /\ ks[n][j] # b
  <2>1. TAKE n \in Node
  <2>2. TAKE j \in 1..Len(ks[n])
  <2>3. ASSUME NEW x \in Int, ks[n][j] = At(s, x) PROVE n = p
    <3>1. x \in 1..m /\ ks[n][j] = s[x]
      BY <1>5, <1>7, <1>8, <2>3
    <3>2. QED
      BY <1>1, <3>1, ListsFacts
  <2>4. QED
    BY <1>1, <2>3
<1> HIDE DEF s, m, a, b
<1>10. \A n \in Node : fc2[n] = At(ks2[n], 1) /\ lc2[n] = At(ks2[n], Len(ks2[n]))
  <2>1. \A n \in Node : n # p => fc2[n] = At(ks2[n], 1) /\ lc2[n] = At(ks2[n], Len(ks2[n]))
    BY <1>2, <1>3, <1>6
  <2>2. fc2[p] = At(ks2[p], 1)
    <3>1. a = NoNode <=> i = 1
      BY <1>1, <1>5 DEF a
    <3>2. fc[p] = At(s, 1)
      BY <1>1, <1>6 DEF s
    <3>3. At(ks2[p], 1) = IF i = 1 THEN k ELSE At(s, 1)
      BY <1>1, <1>4
    <3>4. QED
      BY <1>1, <1>3, <3>1, <3>2, <3>3
  <2>3. lc2[p] = At(ks2[p], m + 1)
    <3>1. b = NoNode <=> i = m + 1
      BY <1>1, <1>5 DEF b
    <3>2. lc[p] = At(s, m)
      BY <1>1, <1>6 DEF s, m
    <3>3. At(ks2[p], m + 1) = IF i = m + 1 THEN k ELSE At(s, m)
      BY <1>1, <1>4
    <3>4. QED
      BY <1>1, <1>3, <3>1, <3>2, <3>3
  <2>4. QED
    BY <1>2, <2>1, <2>2, <2>3
<1>11. ASSUME NEW n \in Node, n # p, NEW j \in 1..Len(ks2[n])
       PROVE  pa2[ks2[n][j]] = n /\ pr2[ks2[n][j]] = At(ks2[n], j - 1) /\ nx2[ks2[n][j]] = At(ks2[n], j + 1)
  <2>1. ks2[n] = ks[n] /\ j \in 1..Len(ks[n])
    BY <1>2, <1>11
  <2>2. ks[n][j] \in Node /\ ks[n][j] # k /\ ks[n][j] # a /\ ks[n][j] # b
    BY <1>8, <1>9, <1>11, <2>1
  <2>3. PICK x \in Node : x = ks[n][j]
    BY <2>2
  <2>4. pa2[x] = pa[x] /\ pr2[x] = pr[x] /\ nx2[x] = nx[x]
    BY <1>3, <2>2, <2>3
  <2>5. pa[x] = n /\ pr[x] = At(ks[n], j - 1) /\ nx[x] = At(ks[n], j + 1)
    BY <1>6, <2>1, <2>3
  <2>6. QED
    BY <2>1, <2>3, <2>4, <2>5
<1>12. ASSUME NEW j \in 1..m + 1
       PROVE  pa2[ks2[p][j]] = p /\ pr2[ks2[p][j]] = At(ks2[p], j - 1) /\ nx2[ks2[p][j]] = At(ks2[p], j + 1)
  <2>1. j \in Int /\ j >= 1 /\ j <= m + 1
    BY <1>1
  <2>2. ks2[p][j] = At(ks2[p], j)
    BY <1>2, <2>1 DEF At
  <2>3. \A x \in 1..m : At(s, x) \in Node /\ At(s, x) # k /\ pa[At(s, x)] = p
          /\ pr[At(s, x)] = At(s, x - 1) /\ nx[At(s, x)] = At(s, x + 1)
    BY <1>1, <1>6, <1>8 DEF At, s, m
  <2>4. \A x \in 1..m : (At(s, x) = a <=> x = i - 1) /\ (At(s, x) = b <=> x = i)
    BY <1>1, <1>5, <1>7, <2>3 DEF a, b
  <2>5. k # a /\ k # b
    BY <1>1, <1>5, <1>7, <2>3 DEF a, b
  <2>6. CASE j < i
    <3>1. j \in 1..m /\ At(ks2[p], j) = At(s, j) /\ At(ks2[p], j - 1) = At(s, j - 1)
      BY <1>1, <1>4, <2>1, <2>6
    <3>2. At(ks2[p], j + 1) = IF j = i - 1 THEN k ELSE At(s, j + 1)
      BY <1>1, <1>4, <2>1, <2>6
    <3>3. At(s, j) \in Node /\ At(s, j) # k /\ At(s, j) # b /\ (At(s, j) = a <=> j = i - 1)
      BY <1>1, <2>1, <2>3, <2>4, <2>6, <3>1
    <3>4. QED
      BY <1>3, <2>2, <2>3, <3>1, <3>2, <3>3
  <2>7. CASE j = i
    <3>1. At(ks2[p], j) = k /\ At(ks2[p], j - 1) = a
      BY <1>1, <1>4, <2>7 DEF a
    <3>2. At(ks2[p], j + 1) = b
      <4>1. At(ks2[p], j + 1) = At(s, j + 1 - 1) /\ j + 1 - 1 = i
        BY <1>1, <1>4, <2>7
      <4>2. QED
        BY <4>1 DEF b
    <3>3. QED
      BY <1>1, <1>3, <2>2, <2>5, <3>1, <3>2
  <2>8. CASE j > i
    <3>1. j - 1 \in 1..m /\ At(ks2[p], j) = At(s, j - 1) /\ At(ks2[p], j + 1) = At(s, j)
      <4>1. At(ks2[p], j + 1) = At(s, j + 1 - 1) /\ j + 1 - 1 = j
        BY <1>1, <1>4, <2>1, <2>8
      <4>2. QED
        BY <1>1, <1>4, <2>1, <2>8, <4>1
    <3>2. At(ks2[p], j - 1) = IF j - 1 = i THEN k ELSE At(s, j - 1 - 1)
      BY <1>1, <1>4, <2>1, <2>8
    <3>3. At(s, j - 1) \in Node /\ At(s, j - 1) # k /\ At(s, j - 1) # a /\ (At(s, j - 1) = b <=> j - 1 = i)
      BY <1>1, <2>1, <2>3, <2>4, <2>8, <3>1
    <3>4. pr[At(s, j - 1)] = At(s, j - 1 - 1) /\ nx[At(s, j - 1)] = At(s, j) /\ pa[At(s, j - 1)] = p
      <4>1. j - 1 + 1 = j
        BY <2>1
      <4>2. QED
        BY <2>3, <3>1, <4>1
    <3>5. QED
      BY <1>3, <2>2, <3>1, <3>2, <3>3, <3>4
  <2>9. QED
    BY <1>1, <2>1, <2>6, <2>7, <2>8
<1>13. \A n \in Node : Top(On(ks2), n) => pa2[n] = NoNode /\ pr2[n] = NoNode /\ nx2[n] = NoNode
  <2>1. SUFFICES ASSUME NEW n \in Node, Top(On(ks2), n)
                 PROVE  pa2[n] = NoNode /\ pr2[n] = NoNode /\ nx2[n] = NoNode
    OBVIOUS
  <2>2. \A q \in Node : On(ks)[q] \subseteq On(ks2)[q] /\ k \in On(ks2)[p]
    <3>1. Range(ks2[p]) = Range(s) \cup {k}
      BY ONLY <1>0, <1>1, InsFacts DEF s
    <3>2. On(ks2)[p] = Range(s) \cup {k} /\ On(ks)[p] = Range(s)
      BY <1>1, <3>1 DEF On, s
    <3>3. \A q \in Node : q # p => On(ks2)[q] = On(ks)[q]
      BY <1>2 DEF On
    <3>4. QED
      BY <1>1, <3>2, <3>3
  <2>3. Top(On(ks), n) /\ n # k
    BY <1>1, <2>1, <2>2 DEF Top
  <2>4. \A j \in 1..m : s[j] # n
    BY <1>1, <2>3, ListsFacts DEF s, m
  <2>5. n # a /\ n # b
    BY <1>1, <1>5, <1>7, <2>4 DEF a, b
  <2>6. QED
    BY <1>3, <1>6, <2>3, <2>5
<1>14. /\ pa2 \in [Node -> Node \cup {NoNode}]
       /\ \A f \in {fc2, lc2, pr2, nx2} : f \in [Node -> Node \cup {NoNode}]
  BY DEF Linked
<1>15. \A n \in Node : \A j \in 1..Len(ks2[n]) :
         pa2[ks2[n][j]] = n /\ pr2[ks2[n][j]] = At(ks2[n], j - 1) /\ nx2[ks2[n][j]] = At(ks2[n], j + 1)
  BY <1>2, <1>11, <1>12
<1>16. QED
  BY <1>10, <1>13, <1>14, <1>15 DEF Links

(* The i-th child of p, between a and b, becomes nobody's.                   *)
Taken(l, ks, p, i, ks2) ==
  /\ p \in l /\ i \in 1..Len(ks[p])
  /\ ks2 \in [Node -> Seq(Node)]
  /\ ks2[p] = Rem(ks[p], i)
  /\ \A n \in Node : n # p => ks2[n] = ks[n]

Unlinked(ks, pa, fc, lc, pr, nx, p, i, pa2, fc2, lc2, pr2, nx2) ==
  LET r == ks[p][i]
      a == At(ks[p], i - 1)
      b == At(ks[p], i + 1)
  IN /\ pa2 \in [Node -> Node \cup {NoNode}]
     /\ \A f \in {fc2, lc2, pr2, nx2} : f \in [Node -> Node \cup {NoNode}]
     /\ \A n \in Node :
          /\ pa2[n] = IF n = r THEN NoNode ELSE pa[n]
          /\ pr2[n] = IF n = r THEN NoNode ELSE IF n = b THEN a ELSE pr[n]
          /\ nx2[n] = IF n = r THEN NoNode ELSE IF n = a THEN b ELSE nx[n]
          /\ fc2[n] = IF n = p /\ a = NoNode THEN b ELSE fc[n]
          /\ lc2[n] = IF n = p /\ b = NoNode THEN a ELSE lc[n]

LEMMA TakenLists ==
  ASSUME NEW l, NEW ks, NEW p, NEW i, NEW ks2, Lists(l, ks), Taken(l, ks, p, i, ks2)
  PROVE  /\ Lists(l, ks2)
         /\ Top(On(ks2), ks[p][i])
         /\ \A n \in Node : On(ks2)[n] = On(ks)[n] \ {ks[p][i]}
<1> DEFINE r == ks[p][i]
<1>0. /\ p \in l /\ i \in 1..Len(ks[p])
      /\ ks2 \in [Node -> Seq(Node)] /\ ks2[p] = Rem(ks[p], i)
      /\ \A n \in Node : n # p => ks2[n] = ks[n]
  BY DEF Taken
<1>1. p \in Node /\ ks[p] \in Seq(Node) /\ Distinct(ks[p])
  BY <1>0, ListsFacts
<1>2. Range(Rem(ks[p], i)) = Range(ks[p]) \ {r} /\ Distinct(Rem(ks[p], i))
  BY ONLY <1>0, <1>1, RemFacts
<1>3. \A n \in Node : n # p => r \notin On(ks)[n]
  <2>1. TAKE n \in Node
  <2>2. r \in On(ks)[p]
    BY <1>0, <1>1, ListsFacts
  <2>3. QED
    BY <1>1, <2>2 DEF Lists, Shape
<1>4. \A n \in Node : On(ks2)[n] = On(ks)[n] \ {r}
  <2>1. TAKE n \in Node
  <2>2. CASE n = p
    BY <1>0, <1>1, <1>2, <2>2 DEF On
  <2>3. CASE n # p
    <3>1. On(ks2)[n] = On(ks)[n]
      BY <1>0, <2>3 DEF On
    <3>2. QED
      BY <1>3, <2>3, <3>1
  <2>4. QED
    BY <2>2, <2>3
<1>5. On(ks2) \in [Node -> SUBSET Node]
  BY <1>0, RangeFacts DEF On
<1>6. Shape(l, On(ks2))
  <2> DEFINE c == On(ks)
             c2 == On(ks2)
  <2>1. Shape(l, c) /\ c2 \in [Node -> SUBSET Node] /\ \A q \in Node : c2[q] \subseteq c[q]
    BY <1>4, <1>5 DEF Lists
  <2> HIDE DEF c, c2
  <2>2. Shape(l, c2)
    BY <2>1, ShapeLoosen
  <2>3. QED
    BY <2>2 DEF c2
<1>7. \A n \in Node : Distinct(ks2[n])
  <2>1. TAKE n \in Node
  <2>2. CASE n = p
    BY <1>0, <1>2, <2>2
  <2>3. CASE n # p
    BY <1>0, <2>3, ListsFacts
  <2>4. QED
    BY <2>2, <2>3
<1>8. Top(On(ks2), r)
  BY <1>4 DEF Top
<1>9. Lists(l, ks2)
  BY <1>0, <1>6, <1>7 DEF Lists
<1>10. QED
  BY <1>4, <1>8, <1>9

LEMMA UnlinkLinks ==
  ASSUME NEW l, NEW ks, NEW pa, NEW fc, NEW lc, NEW pr, NEW nx, Lists(l, ks), Links(ks, pa, fc, lc, pr, nx),
         NEW p, NEW i, NEW ks2, Taken(l, ks, p, i, ks2),
         NEW pa2, NEW fc2, NEW lc2, NEW pr2, NEW nx2,
         Unlinked(ks, pa, fc, lc, pr, nx, p, i, pa2, fc2, lc2, pr2, nx2)
  PROVE  Links(ks2, pa2, fc2, lc2, pr2, nx2)
<1> DEFINE s == ks[p]
           m == Len(s)
           r == s[i]
           a == At(s, i - 1)
           b == At(s, i + 1)
<1>0. /\ p \in l /\ i \in 1..Len(ks[p])
      /\ ks2 \in [Node -> Seq(Node)] /\ ks2[p] = Rem(ks[p], i)
      /\ \A n \in Node : n # p => ks2[n] = ks[n]
  BY DEF Taken
<1>1. /\ p \in Node /\ s \in Seq(Node) /\ Distinct(s)
      /\ m \in Nat /\ i \in Int /\ i >= 1 /\ i <= m /\ r \in Node
  <2>1. p \in Node /\ s \in Seq(Node) /\ Distinct(s)
    BY <1>0, ListsFacts
  <2>2. m \in Nat /\ r \in Node
    BY <1>0, <2>1, RangeFacts
  <2>3. QED
    BY <1>0, <2>1, <2>2
<1>2. /\ ks2 \in [Node -> Seq(Node)]
      /\ \A n \in Node : n # p => ks2[n] = ks[n]
      /\ ks2[p] = Rem(s, i) /\ Len(ks2[p]) = m - 1
  <2>1. Len(Rem(s, i)) = m - 1
    BY <1>1, RemFacts
  <2>2. QED
    BY <1>0, <2>1
<1>3. /\ \A n \in Node : pa2[n] = IF n = r THEN NoNode ELSE pa[n]
      /\ \A n \in Node : pr2[n] = IF n = r THEN NoNode ELSE IF n = b THEN a ELSE pr[n]
      /\ \A n \in Node : nx2[n] = IF n = r THEN NoNode ELSE IF n = a THEN b ELSE nx[n]
      /\ \A n \in Node : fc2[n] = IF n = p /\ a = NoNode THEN b ELSE fc[n]
      /\ \A n \in Node : lc2[n] = IF n = p /\ b = NoNode THEN a ELSE lc[n]
  BY DEF Unlinked
<1>4. \A j \in Int : At(ks2[p], j) = IF j < i THEN At(s, j) ELSE At(s, j + 1)
  <2>1. \A j \in Int : At(Rem(s, i), j) = IF j < i THEN At(s, j) ELSE At(s, j + 1)
    <3>1. i \in 1..Len(s)
      BY <1>1
    <3>2. QED
      BY ONLY <1>1, <3>1, AtRem
  <2>2. QED
    BY ONLY <1>2, <2>1
<1>5. /\ \A j \in Int : At(s, j) \in Node \cup {NoNode}
      /\ \A j \in Int : At(s, j) = NoNode <=> j \notin 1..m
      /\ \A j \in Int : At(s, j) # NoNode => At(s, j) = s[j] /\ j \in 1..m
      /\ \A j, x \in Int : At(s, j) = At(s, x) /\ At(s, j) # NoNode => j = x
  BY <1>1, AtFacts
<1>6. /\ \A n \in Node : fc[n] = At(ks[n], 1) /\ lc[n] = At(ks[n], Len(ks[n]))
      /\ \A n \in Node : \A j \in 1..Len(ks[n]) :
           pa[ks[n][j]] = n /\ pr[ks[n][j]] = At(ks[n], j - 1) /\ nx[ks[n][j]] = At(ks[n], j + 1)
      /\ \A n \in Node : Top(On(ks), n) => pa[n] = NoNode /\ pr[n] = NoNode /\ nx[n] = NoNode
  BY DEF Links
<1>7. NoNode \notin Node
  BY TreeAssumption
<1>8. \A n \in Node : \A j \in 1..Len(ks[n]) : ks[n][j] \in Node
  BY <1>1, ListsFacts
<1>9. r = At(s, i)
  BY <1>1 DEF At
<1>10. \A n \in Node : \A j \in 1..Len(ks[n]) : n # p => ks[n][j] # a /\ ks[n][j] # b /\ ks[n][j] # r
  <2>1. TAKE n \in Node
  <2>2. TAKE j \in 1..Len(ks[n])
  <2>3. ASSUME NEW x \in Int, ks[n][j] = At(s, x) PROVE n = p
    <3>1. x \in 1..m /\ ks[n][j] = s[x]
      BY <1>5, <1>7, <1>8, <2>3
    <3>2. QED
      BY <1>1, <3>1, ListsFacts
  <2>4. QED
    BY <1>1, <1>9, <2>3
<1> HIDE DEF s, m, r, a, b
<1>11. \A n \in Node : fc2[n] = At(ks2[n], 1) /\ lc2[n] = At(ks2[n], Len(ks2[n]))
  <2>1. \A n \in Node : n # p => fc2[n] = At(ks2[n], 1) /\ lc2[n] = At(ks2[n], Len(ks2[n]))
    BY <1>2, <1>3, <1>6
  <2>2. fc2[p] = At(ks2[p], 1)
    <3>1. a = NoNode <=> i = 1
      BY <1>1, <1>5 DEF a
    <3>2. fc[p] = At(s, 1)
      BY <1>1, <1>6 DEF s
    <3>3. At(ks2[p], 1) = IF i = 1 THEN b ELSE At(s, 1)
      BY <1>1, <1>4 DEF b
    <3>4. QED
      BY <1>1, <1>3, <3>1, <3>2, <3>3
  <2>3. lc2[p] = At(ks2[p], m - 1)
    <3>1. b = NoNode <=> i = m
      BY <1>1, <1>5 DEF b
    <3>2. lc[p] = At(s, m)
      BY <1>1, <1>6 DEF s, m
    <3>3. At(ks2[p], m - 1) = IF i = m THEN a ELSE At(s, m)
      <4>1. m - 1 + 1 = m /\ m - 1 \in Int /\ (m - 1 < i <=> i = m)
        BY <1>1
      <4>2. i = m => At(s, m - 1) = a
        BY DEF a
      <4>3. QED
        BY <1>4, <4>1, <4>2
    <3>4. QED
      BY <1>1, <1>3, <3>1, <3>2, <3>3
  <2>4. QED
    BY <1>2, <2>1, <2>2, <2>3
<1>12. ASSUME NEW n \in Node, n # p, NEW j \in 1..Len(ks2[n])
       PROVE  pa2[ks2[n][j]] = n /\ pr2[ks2[n][j]] = At(ks2[n], j - 1) /\ nx2[ks2[n][j]] = At(ks2[n], j + 1)
  <2>1. ks2[n] = ks[n] /\ j \in 1..Len(ks[n])
    BY <1>2, <1>12
  <2>2. ks[n][j] \in Node /\ ks[n][j] # r /\ ks[n][j] # a /\ ks[n][j] # b
    BY <1>8, <1>10, <1>12, <2>1
  <2>3. PICK x \in Node : x = ks[n][j]
    BY <2>2
  <2>4. pa2[x] = pa[x] /\ pr2[x] = pr[x] /\ nx2[x] = nx[x]
    BY <1>3, <2>2, <2>3
  <2>5. pa[x] = n /\ pr[x] = At(ks[n], j - 1) /\ nx[x] = At(ks[n], j + 1)
    BY <1>6, <2>1, <2>3
  <2>6. QED
    BY <2>1, <2>3, <2>4, <2>5
<1>13. ASSUME NEW j \in 1..m - 1
       PROVE  pa2[ks2[p][j]] = p /\ pr2[ks2[p][j]] = At(ks2[p], j - 1) /\ nx2[ks2[p][j]] = At(ks2[p], j + 1)
  <2>1. j \in Int /\ j >= 1 /\ j <= m - 1
    BY <1>1
  <2>2. ks2[p][j] = At(ks2[p], j)
    BY <1>2, <2>1 DEF At
  <2>3. \A x \in 1..m : At(s, x) \in Node /\ pa[At(s, x)] = p
          /\ pr[At(s, x)] = At(s, x - 1) /\ nx[At(s, x)] = At(s, x + 1)
    BY <1>1, <1>6, <1>8 DEF At, s, m
  <2>4. \A x \in 1..m : (At(s, x) = a <=> x = i - 1) /\ (At(s, x) = b <=> x = i + 1) /\ (At(s, x) = r <=> x = i)
    BY <1>1, <1>5, <1>7, <1>9, <2>3 DEF a, b
  <2>5. CASE j < i
    <3>1. j \in 1..m /\ At(ks2[p], j) = At(s, j) /\ At(ks2[p], j - 1) = At(s, j - 1)
      BY <1>1, <1>4, <2>1, <2>5
    <3>2. At(ks2[p], j + 1) = IF j = i - 1 THEN b ELSE At(s, j + 1)
      BY <1>1, <1>4, <2>1, <2>5 DEF b
    <3>3. At(s, j) \in Node /\ At(s, j) # r /\ At(s, j) # b /\ (At(s, j) = a <=> j = i - 1)
      BY <1>1, <2>1, <2>3, <2>4, <2>5, <3>1
    <3>4. QED
      BY <1>3, <2>2, <2>3, <3>1, <3>2, <3>3
  <2>6. CASE j >= i
    <3>1. j + 1 \in 1..m /\ At(ks2[p], j) = At(s, j + 1) /\ At(ks2[p], j + 1) = At(s, j + 1 + 1)
      BY <1>1, <1>4, <2>1, <2>6
    <3>2. At(ks2[p], j - 1) = IF j = i THEN a ELSE At(s, j)
      <4>1. j - 1 + 1 = j /\ (j - 1 < i <=> j = i) /\ j - 1 \in Int
        BY <1>1, <2>1, <2>6
      <4>2. QED
        BY <1>4, <4>1 DEF a
    <3>3. At(s, j + 1) \in Node /\ At(s, j + 1) # r /\ At(s, j + 1) # a /\ (At(s, j + 1) = b <=> j = i)
      BY <1>1, <2>1, <2>3, <2>4, <2>6, <3>1
    <3>4. pr[At(s, j + 1)] = At(s, j) /\ nx[At(s, j + 1)] = At(s, j + 1 + 1) /\ pa[At(s, j + 1)] = p
      <4>1. j + 1 - 1 = j
        BY <2>1
      <4>2. QED
        BY <2>3, <3>1, <4>1
    <3>5. QED
      BY <1>3, <2>2, <3>1, <3>2, <3>3, <3>4
  <2>7. QED
    BY <1>1, <2>1, <2>5, <2>6
<1>14. \A n \in Node : Top(On(ks2), n) => pa2[n] = NoNode /\ pr2[n] = NoNode /\ nx2[n] = NoNode
  <2>1. SUFFICES ASSUME NEW n \in Node, Top(On(ks2), n), n # r
                 PROVE  pa2[n] = NoNode /\ pr2[n] = NoNode /\ nx2[n] = NoNode
    BY <1>3
  <2>2. \A q \in Node : On(ks2)[q] = On(ks)[q] \ {r}
    BY TakenLists DEF r, s
  <2>3. Top(On(ks), n)
    BY <2>1, <2>2 DEF Top
  <2>4. \A j \in 1..m : s[j] # n
    BY <1>1, <2>3, ListsFacts DEF s, m
  <2>5. n # a /\ n # b
    BY <1>1, <1>5, <1>7, <2>4 DEF a, b
  <2>6. QED
    BY <1>3, <1>6, <2>1, <2>3, <2>5
<1>15. /\ pa2 \in [Node -> Node \cup {NoNode}]
       /\ \A f \in {fc2, lc2, pr2, nx2} : f \in [Node -> Node \cup {NoNode}]
  BY DEF Unlinked
<1>16. \A n \in Node : \A j \in 1..Len(ks2[n]) :
         pa2[ks2[n][j]] = n /\ pr2[ks2[n][j]] = At(ks2[n], j - 1) /\ nx2[ks2[n][j]] = At(ks2[n], j + 1)
  BY <1>2, <1>12, <1>13
<1>17. QED
  BY <1>11, <1>14, <1>15, <1>16 DEF Links

(* p's children become nobody's.                                             *)
Cut(l, ks, pa, fc, lc, pr, nx, p, ks2, pa2, fc2, lc2, pr2, nx2) ==
  /\ p \in l /\ ks2 \in [Node -> Seq(Node)] /\ ks2[p] = <<>>
  /\ \A n \in Node : n # p => ks2[n] = ks[n]
  /\ pa2 \in [Node -> Node \cup {NoNode}]
  /\ \A f \in {fc2, lc2, pr2, nx2} : f \in [Node -> Node \cup {NoNode}]
  /\ fc2[p] = NoNode /\ lc2[p] = NoNode
  /\ \A n \in Node : n # p => fc2[n] = fc[n] /\ lc2[n] = lc[n]
  /\ \A n \in On(ks)[p] : pa2[n] = NoNode /\ pr2[n] = NoNode /\ nx2[n] = NoNode
  /\ \A n \in Node \ On(ks)[p] : pa2[n] = pa[n] /\ pr2[n] = pr[n] /\ nx2[n] = nx[n]

ListCut(ks, p, ks2) ==
  /\ On(ks2)[p] = {}
  /\ \A n \in Node : n # p => On(ks2)[n] = On(ks)[n]

LEMMA CutSound ==
  ASSUME NEW l, NEW ks, NEW pa, NEW fc, NEW lc, NEW pr, NEW nx, Lists(l, ks), Links(ks, pa, fc, lc, pr, nx),
         NEW p, NEW ks2, NEW pa2, NEW fc2, NEW lc2, NEW pr2, NEW nx2,
         Cut(l, ks, pa, fc, lc, pr, nx, p, ks2, pa2, fc2, lc2, pr2, nx2)
  PROVE  Lists(l, ks2) /\ Links(ks2, pa2, fc2, lc2, pr2, nx2) /\ ListCut(ks, p, ks2)
<1>0. /\ p \in l /\ ks2 \in [Node -> Seq(Node)] /\ ks2[p] = <<>>
      /\ \A n \in Node : n # p => ks2[n] = ks[n]
      /\ pa2 \in [Node -> Node \cup {NoNode}]
      /\ \A f \in {fc2, lc2, pr2, nx2} : f \in [Node -> Node \cup {NoNode}]
      /\ fc2[p] = NoNode /\ lc2[p] = NoNode
      /\ \A n \in Node : n # p => fc2[n] = fc[n] /\ lc2[n] = lc[n]
      /\ \A n \in On(ks)[p] : pa2[n] = NoNode /\ pr2[n] = NoNode /\ nx2[n] = NoNode
      /\ \A n \in Node \ On(ks)[p] : pa2[n] = pa[n] /\ pr2[n] = pr[n] /\ nx2[n] = nx[n]
  BY DEF Cut
<1> USE <1>0
<1>1. p \in Node /\ ks \in [Node -> Seq(Node)] /\ On(ks) \in [Node -> SUBSET Node] /\ Len(<<>>) = 0
  BY ListsFacts
<1>2. On(ks2)[p] = {} /\ \A n \in Node : n # p => On(ks2)[n] = On(ks)[n]
  <2>1. Range(<<>>) = {}
    BY DEF Range
  <2>2. QED
    BY <1>1, <2>1 DEF On
<1>3. On(ks2) \in [Node -> SUBSET Node]
  BY RangeFacts DEF On
<1>4. Shape(l, On(ks2))
  <2> DEFINE c == On(ks)
             c2 == On(ks2)
  <2>1. Shape(l, c) /\ c2 \in [Node -> SUBSET Node] /\ \A q \in Node : c2[q] \subseteq c[q]
    BY <1>1, <1>2, <1>3 DEF Lists
  <2> HIDE DEF c, c2
  <2>2. Shape(l, c2)
    BY <2>1, ShapeLoosen
  <2>3. QED
    BY <2>2 DEF c2
<1>5. \A n \in Node : Distinct(ks2[n])
  <2>1. TAKE n \in Node
  <2>2. CASE n = p
    BY <1>1, <2>2 DEF Distinct
  <2>3. CASE n # p
    BY <2>3, ListsFacts
  <2>4. QED
    BY <2>2, <2>3
<1>6. \A n \in Node : fc2[n] = At(ks2[n], 1) /\ lc2[n] = At(ks2[n], Len(ks2[n]))
  <2>1. TAKE n \in Node
  <2>2. CASE n = p
    BY <1>1, <2>2 DEF At
  <2>3. CASE n # p
    BY <2>3 DEF Links
  <2>4. QED
    BY <2>2, <2>3
<1>7. ASSUME NEW n \in Node, NEW j \in 1..Len(ks2[n])
      PROVE  pa2[ks2[n][j]] = n /\ pr2[ks2[n][j]] = At(ks2[n], j - 1) /\ nx2[ks2[n][j]] = At(ks2[n], j + 1)
  <2>1. n # p
    BY <1>1
  <2>2. ks2[n] = ks[n] /\ j \in 1..Len(ks[n])
    BY <2>1
  <2>3. ks[n][j] \in Node /\ ks[n][j] \in On(ks)[n]
    BY <2>2, ListsFacts
  <2>4. ks[n][j] \notin On(ks)[p]
    BY <1>1, <2>1, <2>3 DEF Lists, Shape
  <2>5. PICK x \in Node \ On(ks)[p] : x = ks[n][j]
    BY <2>3, <2>4
  <2>6. pa[x] = n /\ pr[x] = At(ks[n], j - 1) /\ nx[x] = At(ks[n], j + 1)
    BY <2>2, <2>5 DEF Links
  <2>7. QED
    BY <2>2, <2>5, <2>6
<1>8. ASSUME NEW n \in Node, Top(On(ks2), n) PROVE pa2[n] = NoNode /\ pr2[n] = NoNode /\ nx2[n] = NoNode
  <2>1. CASE n \in On(ks)[p]
    BY <2>1
  <2>2. CASE n \notin On(ks)[p]
    <3>1. Top(On(ks), n)
      BY <1>2, <1>8, <2>2 DEF Top
    <3>2. QED
      BY <2>2, <3>1 DEF Links
  <2>3. QED
    BY <2>1, <2>2
<1>9. Lists(l, ks2)
  BY <1>4, <1>5 DEF Lists
<1>10. Links(ks2, pa2, fc2, lc2, pr2, nx2)
  BY <1>6, <1>7, <1>8 DEF Links
<1>11. ListCut(ks, p, ks2)
  BY <1>2 DEF ListCut
<1>12. QED
  BY <1>9, <1>10, <1>11

(* Whole trees are returned.                                                 *)
Returned(D, ks, pa, fc, lc, pr, nx, ks2, pa2, fc2, lc2, pr2, nx2) ==
  /\ D \in SUBSET Node /\ Closed(On(ks), D) /\ \A q \in Node \ D : On(ks)[q] \cap D = {}
  /\ ks2 \in [Node -> Seq(Node)]
  /\ (\A n \in D : ks2[n] = <<>>) /\ \A n \in Node \ D : ks2[n] = ks[n]
  /\ pa2 \in [Node -> Node \cup {NoNode}]
  /\ \A f \in {fc2, lc2, pr2, nx2} : f \in [Node -> Node \cup {NoNode}]
  /\ \A n \in D : /\ pa2[n] = NoNode /\ fc2[n] = NoNode /\ lc2[n] = NoNode
                  /\ pr2[n] = NoNode /\ nx2[n] = NoNode
  /\ \A n \in Node \ D : /\ pa2[n] = pa[n] /\ fc2[n] = fc[n] /\ lc2[n] = lc[n]
                         /\ pr2[n] = pr[n] /\ nx2[n] = nx[n]

Fewer(ks, ks2) == \A n \in Node : On(ks2)[n] \subseteq On(ks)[n]

LEMMA PruneSound ==
  ASSUME NEW l, NEW ks, NEW pa, NEW fc, NEW lc, NEW pr, NEW nx, Lists(l, ks), Links(ks, pa, fc, lc, pr, nx),
         NEW D, NEW ks2, NEW pa2, NEW fc2, NEW lc2, NEW pr2, NEW nx2,
         Returned(D, ks, pa, fc, lc, pr, nx, ks2, pa2, fc2, lc2, pr2, nx2)
  PROVE  /\ Lists(l \ D, ks2) /\ Links(ks2, pa2, fc2, lc2, pr2, nx2)
         /\ Fewer(ks, ks2)
<1>0. /\ D \in SUBSET Node /\ Closed(On(ks), D) /\ \A q \in Node \ D : On(ks)[q] \cap D = {}
      /\ ks2 \in [Node -> Seq(Node)]
      /\ (\A n \in D : ks2[n] = <<>>) /\ \A n \in Node \ D : ks2[n] = ks[n]
      /\ pa2 \in [Node -> Node \cup {NoNode}]
      /\ \A f \in {fc2, lc2, pr2, nx2} : f \in [Node -> Node \cup {NoNode}]
      /\ \A n \in D : /\ pa2[n] = NoNode /\ fc2[n] = NoNode /\ lc2[n] = NoNode
                      /\ pr2[n] = NoNode /\ nx2[n] = NoNode
      /\ \A n \in Node \ D : /\ pa2[n] = pa[n] /\ fc2[n] = fc[n] /\ lc2[n] = lc[n]
                             /\ pr2[n] = pr[n] /\ nx2[n] = nx[n]
  BY DEF Returned
<1> USE <1>0
<1>1. ks \in [Node -> Seq(Node)] /\ On(ks) \in [Node -> SUBSET Node] /\ Len(<<>>) = 0
  BY ListsFacts
<1>2. (\A n \in D : On(ks2)[n] = {}) /\ \A n \in Node \ D : On(ks2)[n] = On(ks)[n]
  <2>1. Range(<<>>) = {}
    BY DEF Range
  <2>2. QED
    BY <1>1, <2>1 DEF On
<1>3. On(ks2) \in [Node -> SUBSET Node]
  BY RangeFacts DEF On
<1>4. Shape(l \ D, On(ks2))
  <2> DEFINE c == On(ks)
             c2 == On(ks2)
  <2>1. Shape(l, c) /\ Closed(c, D) /\ (\A q \in Node \ D : c[q] \cap D = {})
        /\ c2 \in [Node -> SUBSET Node]
        /\ (\A q \in D : c2[q] = {}) /\ \A q \in Node \ D : c2[q] = c[q]
    BY <1>1, <1>2, <1>3 DEF Lists
  <2> HIDE DEF c, c2
  <2>2. Shape(l \ D, c2)
    BY <2>1, ShapePrune
  <2>3. QED
    BY <2>2 DEF c2
<1>5. \A n \in Node : Distinct(ks2[n])
  <2>1. TAKE n \in Node
  <2>2. CASE n \in D
    BY <1>1, <2>2 DEF Distinct
  <2>3. CASE n \notin D
    BY <2>3, ListsFacts
  <2>4. QED
    BY <2>2, <2>3
<1>6. \A n \in Node : fc2[n] = At(ks2[n], 1) /\ lc2[n] = At(ks2[n], Len(ks2[n]))
  <2>1. TAKE n \in Node
  <2>2. CASE n \in D
    BY <1>1, <2>2 DEF At
  <2>3. CASE n \notin D
    BY <2>3 DEF Links
  <2>4. QED
    BY <2>2, <2>3
<1>7. ASSUME NEW n \in Node, NEW j \in 1..Len(ks2[n])
      PROVE  pa2[ks2[n][j]] = n /\ pr2[ks2[n][j]] = At(ks2[n], j - 1) /\ nx2[ks2[n][j]] = At(ks2[n], j + 1)
  <2>1. n \notin D
    BY <1>1
  <2>2. ks2[n] = ks[n] /\ j \in 1..Len(ks[n])
    BY <2>1
  <2>3. ks[n][j] \in Node /\ ks[n][j] \in On(ks)[n]
    BY <2>2, ListsFacts
  <2>4. PICK x \in Node \ D : x = ks[n][j]
    BY <2>1, <2>3
  <2>5. pa[x] = n /\ pr[x] = At(ks[n], j - 1) /\ nx[x] = At(ks[n], j + 1)
    BY <2>2, <2>4 DEF Links
  <2>6. QED
    BY <2>2, <2>4, <2>5
<1>8. ASSUME NEW n \in Node, Top(On(ks2), n) PROVE pa2[n] = NoNode /\ pr2[n] = NoNode /\ nx2[n] = NoNode
  <2>1. CASE n \in D
    BY <2>1
  <2>2. CASE n \notin D
    <3>1. Top(On(ks), n)
      BY <1>2, <1>8, <2>2 DEF Top, Closed
    <3>2. QED
      BY <2>2, <3>1 DEF Links
  <2>3. QED
    BY <2>1, <2>2
<1>9. Lists(l \ D, ks2)
  BY <1>4, <1>5 DEF Lists
<1>10. Links(ks2, pa2, fc2, lc2, pr2, nx2)
  BY <1>6, <1>7, <1>8 DEF Links
<1>11. Fewer(ks, ks2)
  BY <1>2 DEF Fewer
<1>12. QED
  BY <1>9, <1>10, <1>11

(* -------------------- copies ---------------------------------------------- *)

CopiedLists(ks, D, copy, R, ks2) ==
  /\ ks2 \in [Node -> Seq(Node)]
  /\ \A x \in D : ks2[copy[x]] = [j \in 1..Len(ks[x]) |-> copy[ks[x][j]]]
  /\ \A q \in Node \ R : ks2[q] = ks[q]

CopiedPointer(D, copy, R, f, f2) ==
  /\ f2 \in [Node -> Node \cup {NoNode}]
  /\ \A x \in D : f2[copy[x]] = IF f[x] \in D THEN copy[f[x]] ELSE NoNode
  /\ \A q \in Node \ R : f2[q] = f[q]

LEMMA CopyingFacts ==
  ASSUME NEW l, NEW ks, NEW n, NEW copy, NEW R, Lists(l, ks), Copying(l, On(ks), n, copy, R),
         NEW D, D = Below(On(ks), n)
  PROVE  /\ n \in l /\ n \in D /\ D \subseteq l /\ l \subseteq Node /\ R \subseteq Node /\ R \cap l = {}
         /\ Closed(On(ks), D)
         /\ \A x \in D : copy[x] \in R /\ copy[x] \in Node /\ copy[x] \notin l
         /\ \A q \in R : \E x \in D : q = copy[x]
         /\ \A x, y \in D : copy[x] = copy[y] => x = y
<1>1. n \in l /\ l \subseteq Node /\ On(ks) \in [Node -> SUBSET Node] /\ Shape(l, On(ks))
  BY ListsFacts DEF Copying, Lists
<1>2. n \in D /\ Closed(On(ks), D)
  BY <1>1, BelowFacts
<1>3. D \subseteq l
  BY <1>1, ShapeBelow
<1>4. /\ copy \in [D -> Node \ l]
      /\ \A x, y \in D : copy[x] = copy[y] => x = y
      /\ R = {copy[x] : x \in D}
  BY DEF Copying
<1>5. QED
  BY <1>1, <1>2, <1>3, <1>4

LEMMA CopyLists ==
  ASSUME NEW l, NEW ks, NEW n, NEW copy, NEW R, Lists(l, ks), Copying(l, On(ks), n, copy, R),
         NEW ks2, CopiedLists(ks, Below(On(ks), n), copy, R, ks2)
  PROVE  /\ Lists(l \cup R, ks2)
         /\ Top(On(ks2), copy[n])
         /\ Below(On(ks2), copy[n]) \subseteq R
         /\ CopiedSets(On(ks), Below(On(ks), n), copy, R, On(ks2))
<1> DEFINE c == On(ks)
           c2 == On(ks2)
           D == Below(c, n)
<1>1. /\ n \in l /\ n \in D /\ D \subseteq l /\ l \subseteq Node /\ R \subseteq Node /\ R \cap l = {}
      /\ Closed(c, D)
      /\ \A x \in D : copy[x] \in R /\ copy[x] \in Node /\ copy[x] \notin l
      /\ \A q \in R : \E x \in D : q = copy[x]
      /\ \A x, y \in D : copy[x] = copy[y] => x = y
  BY CopyingFacts
<1>2. /\ ks2 \in [Node -> Seq(Node)]
      /\ \A x \in D : ks2[copy[x]] = [j \in 1..Len(ks[x]) |-> copy[ks[x][j]]]
      /\ \A q \in Node \ R : ks2[q] = ks[q]
  BY DEF CopiedLists
<1>3. \A x \in D : ks[x] \in Seq(Node) /\ Distinct(ks[x]) /\ c[x] = Range(ks[x]) /\ Len(ks[x]) \in Nat
  BY <1>1, ListsFacts, RangeFacts
<1>4. \A x \in D : \A j \in 1..Len(ks[x]) : ks[x][j] \in c[x] /\ ks[x][j] \in D
  BY <1>1, <1>3, RangeFacts DEF Closed
<1>5. \A x \in D : Len(ks2[copy[x]]) = Len(ks[x])
                   /\ \A j \in 1..Len(ks[x]) : ks2[copy[x]][j] = copy[ks[x][j]]
  <2>1. TAKE x \in D
  <2>2. ks2[copy[x]] \in Seq(Node) /\ DOMAIN ks2[copy[x]] = 1..Len(ks[x])
    BY <1>1, <1>2
  <2>3. DOMAIN ks2[copy[x]] = 1..Len(ks2[copy[x]]) /\ Len(ks2[copy[x]]) \in Nat
    BY <2>2, LenProperties
  <2>4. Len(ks2[copy[x]]) = Len(ks[x])
    BY SMTT(30), <1>3, <2>2, <2>3
  <2>5. ks2[copy[x]] = [j \in 1..Len(ks[x]) |-> copy[ks[x][j]]]
    BY <1>2
  <2>6. \A j \in 1..Len(ks[x]) : ks2[copy[x]][j] = copy[ks[x][j]]
    BY ONLY <2>5
  <2>7. QED
    BY <2>4, <2>6
<1>6. \A x \in D : c2[copy[x]] = {copy[y] : y \in c[x]}
  <2>1. TAKE x \in D
  <2>2. c2[copy[x]] = Range(ks2[copy[x]]) /\ ks2[copy[x]] \in Seq(Node)
    BY <1>1, <1>2 DEF On
  <2>3. c2[copy[x]] = {ks2[copy[x]][j] : j \in 1..Len(ks[x])}
    BY <1>5, <2>2, RangeFacts
  <2>4. c[x] = {ks[x][j] : j \in 1..Len(ks[x])}
    BY <1>3, RangeFacts
  <2>5. \A j \in 1..Len(ks[x]) : ks2[copy[x]][j] = copy[ks[x][j]]
    BY <1>5
  <2> HIDE DEF c, c2
  <2>6. QED
    BY <2>3, <2>4, <2>5
<1>7. \A q \in Node \ R : c2[q] = c[q]
  BY <1>2 DEF On
<1>8. c2 \in [Node -> SUBSET Node]
  BY <1>2, RangeFacts DEF On
<1>9. Shape(l, c) /\ Copying(l, c, n, copy, R) /\ CopiedSets(c, D, copy, R, c2)
  BY <1>6, <1>7, <1>8 DEF Lists, CopiedSets
<1>10. \A q \in Node : Distinct(ks2[q])
  <2>1. ASSUME NEW x \in D PROVE Distinct(ks2[copy[x]])
    <3>1. ASSUME NEW i \in 1..Len(ks[x]), NEW j \in 1..Len(ks[x]), ks2[copy[x]][i] = ks2[copy[x]][j]
          PROVE  i = j
      <4>1. copy[ks[x][i]] = copy[ks[x][j]]
        BY <1>5, <3>1
      <4>2. ks[x][i] = ks[x][j]
        BY <1>1, <1>4, <4>1
      <4>3. QED
        BY <1>3, <4>2 DEF Distinct
    <3>2. QED
      BY <1>5, <3>1 DEF Distinct
  <2>2. \A q \in Node \ R : Distinct(ks2[q])
    BY <1>2, ListsFacts
  <2>3. QED
    BY <1>1, <2>1, <2>2
<1> HIDE DEF c, c2
<1>11. Shape(l \cup R, c2) /\ Top(c2, copy[n]) /\ Below(c2, copy[n]) \subseteq R
  BY ONLY <1>9, ShapeCopy
<1>12. Lists(l \cup R, ks2)
  BY <1>2, <1>10, <1>11 DEF Lists, c2
<1>13. QED
  BY <1>9, <1>11, <1>12 DEF c, c2

LEMMA CopyLinks ==
  ASSUME NEW l, NEW ks, NEW pa, NEW fc, NEW lc, NEW pr, NEW nx, Lists(l, ks), Links(ks, pa, fc, lc, pr, nx),
         NEW n, NEW copy, NEW R, Copying(l, On(ks), n, copy, R),
         NEW D, D = Below(On(ks), n),
         NEW ks2, CopiedLists(ks, D, copy, R, ks2),
         NEW pa2, NEW fc2, NEW lc2, NEW pr2, NEW nx2,
         CopiedPointer(D, copy, R, pa, pa2), CopiedPointer(D, copy, R, fc, fc2),
         CopiedPointer(D, copy, R, lc, lc2), CopiedPointer(D, copy, R, pr, pr2),
         CopiedPointer(D, copy, R, nx, nx2)
  PROVE  Links(ks2, pa2, fc2, lc2, pr2, nx2)
<1> DEFINE Img(v) == IF v \in D THEN copy[v] ELSE NoNode
<1>1. /\ n \in l /\ n \in D /\ D \subseteq l /\ l \subseteq Node /\ R \subseteq Node /\ R \cap l = {}
      /\ Closed(On(ks), D)
      /\ \A x \in D : copy[x] \in R /\ copy[x] \in Node /\ copy[x] \notin l
      /\ \A q \in R : \E x \in D : q = copy[x]
      /\ \A x, y \in D : copy[x] = copy[y] => x = y
  BY CopyingFacts
<1>2. /\ ks2 \in [Node -> Seq(Node)]
      /\ \A x \in D : ks2[copy[x]] = [j \in 1..Len(ks[x]) |-> copy[ks[x][j]]]
      /\ \A q \in Node \ R : ks2[q] = ks[q]
  BY DEF CopiedLists
<1>3. \A x \in D : ks[x] \in Seq(Node) /\ Distinct(ks[x]) /\ On(ks)[x] = Range(ks[x]) /\ Len(ks[x]) \in Nat
  BY <1>1, ListsFacts, RangeFacts
<1>4. \A x \in D : \A j \in 1..Len(ks[x]) : ks[x][j] \in On(ks)[x] /\ ks[x][j] \in D
  BY <1>1, <1>3, RangeFacts DEF Closed
<1>5. \A x \in D : Len(ks2[copy[x]]) = Len(ks[x])
                   /\ \A j \in 1..Len(ks[x]) : ks2[copy[x]][j] = copy[ks[x][j]]
  <2>1. TAKE x \in D
  <2>2. ks2[copy[x]] \in Seq(Node) /\ DOMAIN ks2[copy[x]] = 1..Len(ks[x])
    BY <1>1, <1>2
  <2>3. DOMAIN ks2[copy[x]] = 1..Len(ks2[copy[x]]) /\ Len(ks2[copy[x]]) \in Nat
    BY <2>2, LenProperties
  <2>4. Len(ks2[copy[x]]) = Len(ks[x])
    BY SMTT(30), <1>3, <2>2, <2>3
  <2>5. ks2[copy[x]] = [j \in 1..Len(ks[x]) |-> copy[ks[x][j]]]
    BY <1>2
  <2>6. \A j \in 1..Len(ks[x]) : ks2[copy[x]][j] = copy[ks[x][j]]
    BY <2>5
  <2>7. QED
    BY <2>4, <2>6
<1>6. NoNode \notin Node /\ NoNode \notin D
  BY <1>1, TreeAssumption
<1>7. \A x \in D : \A j \in Int : At(ks2[copy[x]], j) = Img(At(ks[x], j))
  BY <1>4, <1>5, <1>6 DEF At
<1>8. \A x \in D : /\ pa2[copy[x]] = Img(pa[x]) /\ fc2[copy[x]] = Img(fc[x]) /\ lc2[copy[x]] = Img(lc[x])
                   /\ pr2[copy[x]] = Img(pr[x]) /\ nx2[copy[x]] = Img(nx[x])
  BY DEF CopiedPointer
<1>9. \A q \in Node \ R : /\ pa2[q] = pa[q] /\ fc2[q] = fc[q] /\ lc2[q] = lc[q]
                          /\ pr2[q] = pr[q] /\ nx2[q] = nx[q]
  BY DEF CopiedPointer
<1>10. /\ \A q \in Node : fc[q] = At(ks[q], 1) /\ lc[q] = At(ks[q], Len(ks[q]))
       /\ \A q \in Node : \A j \in 1..Len(ks[q]) :
            pa[ks[q][j]] = q /\ pr[ks[q][j]] = At(ks[q], j - 1) /\ nx[ks[q][j]] = At(ks[q], j + 1)
       /\ \A q \in Node : Top(On(ks), q) => pa[q] = NoNode /\ pr[q] = NoNode /\ nx[q] = NoNode
  BY DEF Links
<1> HIDE DEF Img
<1>11. \A q \in Node : fc2[q] = At(ks2[q], 1) /\ lc2[q] = At(ks2[q], Len(ks2[q]))
  <2>1. ASSUME NEW x \in D PROVE fc2[copy[x]] = At(ks2[copy[x]], 1)
                                 /\ lc2[copy[x]] = At(ks2[copy[x]], Len(ks2[copy[x]]))
    <3>1. fc[x] = At(ks[x], 1) /\ lc[x] = At(ks[x], Len(ks[x])) /\ Len(ks[x]) \in Int
      BY <1>1, <1>3, <1>10
    <3>2. At(ks2[copy[x]], 1) = Img(At(ks[x], 1)) /\ At(ks2[copy[x]], Len(ks[x])) = Img(At(ks[x], Len(ks[x])))
      BY <1>7, <3>1
    <3>3. QED
      BY <1>5, <1>8, <3>1, <3>2
  <2>2. \A q \in Node \ R : fc2[q] = At(ks2[q], 1) /\ lc2[q] = At(ks2[q], Len(ks2[q]))
    BY <1>2, <1>9, <1>10
  <2>3. QED
    BY <1>1, <2>1, <2>2
<1>12. ASSUME NEW x \in D, NEW j \in 1..Len(ks[x])
       PROVE  LET y == ks2[copy[x]][j] IN
              /\ pa2[y] = copy[x] /\ pr2[y] = At(ks2[copy[x]], j - 1) /\ nx2[y] = At(ks2[copy[x]], j + 1)
  <2>1. PICK y \in D : y = ks[x][j]
    BY <1>4
  <2>2. pa[y] = x /\ pr[y] = At(ks[x], j - 1) /\ nx[y] = At(ks[x], j + 1)
    BY <1>1, <1>10, <2>1
  <2>3. ks2[copy[x]][j] = copy[y]
    BY <1>5, <2>1
  <2>4. j - 1 \in Int /\ j + 1 \in Int
    OBVIOUS
  <2>5. Img(x) = copy[x]
    BY DEF Img
  <2>6. QED
    BY <1>7, <1>8, <2>2, <2>3, <2>4, <2>5
<1>13. ASSUME NEW q \in Node \ R, NEW j \in 1..Len(ks[q])
       PROVE  LET y == ks2[q][j] IN
              /\ pa2[y] = q /\ pr2[y] = At(ks2[q], j - 1) /\ nx2[y] = At(ks2[q], j + 1)
  <2>1. ks[q][j] \in l
    BY ListsFacts
  <2>2. PICK y \in Node \ R : y = ks[q][j]
    BY <1>1, <2>1
  <2>3. pa[y] = q /\ pr[y] = At(ks[q], j - 1) /\ nx[y] = At(ks[q], j + 1)
    BY <1>10, <2>2
  <2>4. QED
    BY <1>2, <1>9, <2>2, <2>3
<1>14. \A q \in Node : \A j \in 1..Len(ks2[q]) :
         pa2[ks2[q][j]] = q /\ pr2[ks2[q][j]] = At(ks2[q], j - 1) /\ nx2[ks2[q][j]] = At(ks2[q], j + 1)
  <2>1. TAKE q \in Node
  <2>2. CASE q \in R
    <3>1. PICK x \in D : q = copy[x]
      BY <1>1, <2>2
    <3>2. QED
      BY <1>5, <1>12, <3>1
  <2>3. CASE q \notin R
    BY <1>2, <1>13, <2>3
  <2>4. QED
    BY <2>2, <2>3
<1>15. Img(pa[n]) = NoNode /\ Img(pr[n]) = NoNode /\ Img(nx[n]) = NoNode
  <2>1. n \in Node
    BY <1>1
  <2>2. CASE Top(On(ks), n)
    BY <1>6, <1>10, <2>1, <2>2 DEF Img
  <2>3. ASSUME NEW q \in Node, NEW i \in 1..Len(ks[q]), ks[q][i] = n
        PROVE  pa[n] \notin D /\ pr[n] \notin D /\ nx[n] \notin D
    <3>1. n \in On(ks)[q]
      BY <2>3, ListsFacts
    <3>2. q \notin D
      BY <3>1, ShapeAcyclic DEF Lists
    <3>3. ASSUME NEW j \in Int, j # i, At(ks[q], j) \in D PROVE FALSE
      <4>1. At(ks[q], j) # NoNode /\ ks[q] \in Seq(Node) /\ Distinct(ks[q])
        BY <1>6, <3>3, ListsFacts
      <4>2. PICK z \in D : z = At(ks[q], j)
        BY <3>3
      <4>3. z = ks[q][j] /\ j \in 1..Len(ks[q])
        BY <4>1, <4>2 DEF At
      <4>4. z # n
        BY <2>3, <3>3, <4>1, <4>3 DEF Distinct
      <4>5. PICK w \in D : z \in On(ks)[w]
        <5>1. On(ks) \in [Node -> SUBSET Node] /\ z \in Below(On(ks), n)
          BY <4>2, ListsFacts
        <5>2. QED
          BY <2>1, <4>4, <5>1, BelowParent
      <4>6. z \in On(ks)[q] /\ w \in Node
        BY <1>1, <4>3, ListsFacts
      <4>7. w = q
        BY <4>5, <4>6 DEF Lists, Shape
      <4>8. QED
        BY <3>2, <4>7
    <3>4. pa[n] = q /\ pr[n] = At(ks[q], i - 1) /\ nx[n] = At(ks[q], i + 1)
      BY <1>10, <2>3
    <3>5. i - 1 \in Int /\ i + 1 \in Int /\ i - 1 # i /\ i + 1 # i
      OBVIOUS
    <3>6. QED
      BY <3>2, <3>3, <3>4, <3>5
  <2>4. Top(On(ks), n) \/ \E q \in Node : \E i \in 1..Len(ks[q]) : ks[q][i] = n
    BY <2>1, ListsFacts
  <2>5. QED
    BY <2>2, <2>3, <2>4 DEF Img
<1>16. \A q \in Node : Top(On(ks2), q) => pa2[q] = NoNode /\ pr2[q] = NoNode /\ nx2[q] = NoNode
  <2>1. SUFFICES ASSUME NEW q \in Node, Top(On(ks2), q)
                 PROVE  pa2[q] = NoNode /\ pr2[q] = NoNode /\ nx2[q] = NoNode
    OBVIOUS
  <2>2. /\ \A x \in D : On(ks2)[copy[x]] = {copy[y] : y \in On(ks)[x]}
        /\ \A x \in Node \ R : On(ks2)[x] = On(ks)[x]
    <3>1. CopiedLists(ks, Below(On(ks), n), copy, R, ks2)
      OBVIOUS
    <3>2. CopiedSets(On(ks), D, copy, R, On(ks2))
      BY <3>1, CopyLists
    <3>3. QED
      BY <3>2 DEF CopiedSets
  <2>3. CASE q \in R
    <3>1. PICK y \in D : q = copy[y]
      BY <1>1, <2>3
    <3>2. ASSUME y # n PROVE FALSE
      <4>1. PICK x \in D : y \in On(ks)[x]
        BY <1>1, <3>1, <3>2, BelowParent, ListsFacts
      <4>2. copy[y] \in On(ks2)[copy[x]] /\ copy[x] \in Node
        BY <1>1, <2>2, <4>1
      <4>3. QED
        BY <2>1, <3>1, <4>2 DEF Top
    <3>3. QED
      BY <1>8, <1>15, <3>1, <3>2
  <2>4. CASE q \notin R
    <3>1. \A x \in R : On(ks)[x] = {}
      BY <1>1 DEF Lists, Shape
    <3>2. Top(On(ks), q)
      BY <2>1, <2>2, <3>1 DEF Top
    <3>3. QED
      BY <1>9, <1>10, <2>4, <3>2
  <2>5. QED
    BY <2>3, <2>4
<1>17. /\ pa2 \in [Node -> Node \cup {NoNode}]
       /\ \A f \in {fc2, lc2, pr2, nx2} : f \in [Node -> Node \cup {NoNode}]
  BY DEF CopiedPointer
<1>18. QED
  BY <1>11, <1>14, <1>16, <1>17 DEF Links

(* -------------------- following pointers --------------------------------- *)

LEMMA SameCardinality == \A S : Nodes!Cardinality(S) = Cardinality(S)
  BY DEF Nodes!Cardinality, Cardinality

LEMMA UpTo == \A m \in Nat : Cardinality(1..m) = m
  BY FS_Interval

LEMMA DistinctLength ==
  ASSUME NEW S, IsFiniteSet(S), NEW s \in Seq(S), Distinct(s)
  PROVE  Len(s) \in Nat /\ Cardinality(S) \in Nat /\ Len(s) <= Cardinality(S)
<1>1. Len(s) \in Nat /\ s \in [1..Len(s) -> S]
  BY LenProperties
<1>2. s \in Injection(1..Len(s), S)
  BY <1>1 DEF Injection, IsInjective, Distinct
<1>3. Cardinality(1..Len(s)) <= Cardinality(S)
  BY <1>2, FS_Injection
<1>4. Cardinality(1..Len(s)) = Len(s)
  BY <1>1, FS_Interval
<1>5. Cardinality(S) \in Nat
  BY FS_CardinalityType
<1>6. QED
  BY <1>1, <1>3, <1>4, <1>5

(* Who follows pointers that go through a sequence of different nodes meets  *)
(* these, in this order.                                                     *)
LEMMA ChainIs ==
  ASSUME NEW s \in Seq(Node), Distinct(s), NEW start, start = At(s, 1),
         NEW via, \A j \in 1..Len(s) : via[s[j]] = At(s, j + 1)
  PROVE  Nodes!Chain(start, via) = s
<1> DEFINE N == Nodes!Cardinality(Node)
           body(c, k) == IF k = 1 THEN start ELSE IF c[k - 1] = NoNode THEN NoNode ELSE via[c[k - 1]]
           w == [k \in 1..N |-> At(s, k)]
           c0 == CHOOSE c : c = [k \in 1..N |-> body(c, k)]
           m == Len(s)
<1>1. m \in Nat /\ N \in Nat /\ m <= N
  BY DistinctLength, SameCardinality, TreeAssumption
<1>2. /\ \A j \in Int : At(s, j) = NoNode <=> j \notin 1..m
      /\ \A j \in 1..m : At(s, j) = s[j]
  BY AtFacts DEF At
<1>3. \A k \in 1..N : body(w, k) = At(s, k)
  <2>1. TAKE k \in 1..N
  <2>2. CASE k = 1
    BY <2>2
  <2>3. CASE k # 1
    <3>1. k - 1 \in 1..N /\ k - 1 \in Int /\ k \in Int /\ k - 1 + 1 = k
      BY <1>1, <2>3
    <3>2. w[k - 1] = At(s, k - 1)
      BY <3>1
    <3>3. CASE k - 1 \in 1..m
      <4>1. w[k - 1] = s[k - 1] /\ w[k - 1] # NoNode
        BY <1>2, <3>1, <3>2, <3>3
      <4>2. via[s[k - 1]] = At(s, k)
        BY <3>1, <3>3
      <4>3. QED
        BY <2>3, <4>1, <4>2
    <3>4. CASE k - 1 \notin 1..m
      <4>1. w[k - 1] = NoNode
        BY <1>2, <3>1, <3>2, <3>4
      <4>2. At(s, k) = NoNode
        BY <1>1, <1>2, <2>3, <3>1, <3>4
      <4>3. QED
        BY <2>3, <4>1, <4>2
    <3>5. QED
      BY <3>3, <3>4
  <2>4. QED
    BY <2>2, <2>3
<1>4. w = [k \in 1..N |-> body(w, k)]
  BY <1>3
<1>5. c0 = [k \in 1..N |-> body(c0, k)]
  <2> HIDE DEF body, w, N
  <2>1. \E c : c = [k \in 1..N |-> body(c, k)]
    BY <1>4
  <2>2. QED
    BY <2>1
<1> HIDE DEF c0, w
<1>6. \A k \in 1..N : c0[k] = At(s, k)
  <2> DEFINE T == {k \in 1..N : c0[k] # At(s, k)}
  <2>1. SUFFICES ASSUME T # {} PROVE FALSE
    OBVIOUS
  <2>2. T \subseteq Nat
    BY <1>1
  <2>3. PICK k \in T : \A y \in T : k <= y
    <3> HIDE DEF T
    <3>1. QED
      BY <2>1, <2>2, LeastNumber
  <2>4. k \in 1..N /\ c0[k] # At(s, k)
    OBVIOUS
  <2>5. c0[k] = body(c0, k)
    <3> HIDE DEF body
    <3>1. QED
      BY <1>5, <2>4
  <2>6. k # 1
    BY <2>4, <2>5
  <2>7. k - 1 \in 1..N /\ k - 1 \notin T
    BY <1>1, <2>3, <2>4, <2>6
  <2>8. c0[k - 1] = At(s, k - 1)
    BY <2>7
  <2>9. w[k - 1] = At(s, k - 1)
    BY <2>7 DEF w
  <2>10. body(c0, k) = body(w, k)
    BY <2>8, <2>9
  <2>11. QED
    BY <1>3, <2>4, <2>5, <2>10
<1>7. Nodes!Chain(start, via) =
        [k \in 1..Nodes!Cardinality({j \in 1..N : c0[j] # NoNode}) |-> c0[k]]
  BY DEF Nodes!Chain, c0
<1>8. {j \in 1..N : c0[j] # NoNode} = 1..m
  <2>1. \A j \in 1..N : c0[j] # NoNode <=> j \in 1..m
    BY <1>1, <1>2, <1>6
  <2>2. QED
    BY <1>1, <2>1
<1>9. Nodes!Cardinality(1..m) = m
  BY <1>1, UpTo, SameCardinality
<1>10. Nodes!Chain(start, via) = [k \in 1..m |-> c0[k]]
  BY <1>7, <1>8, <1>9
<1>11. \A k \in 1..m : c0[k] = s[k]
  BY <1>1, <1>2, <1>6
<1>12. s = [k \in 1..m |-> s[k]]
  BY LenProperties
<1>13. QED
  BY <1>10, <1>11, <1>12

LEMMA ChainKids ==
  ASSUME NEW l, NEW ks, NEW pa, NEW fc, NEW lc, NEW pr, NEW nx, Lists(l, ks), Links(ks, pa, fc, lc, pr, nx)
  PROVE  ks = [n \in Node |-> Nodes!Chain(fc[n], nx)]
<1>1. ASSUME NEW n \in Node PROVE Nodes!Chain(fc[n], nx) = ks[n]
  <2>1. ks[n] \in Seq(Node) /\ Distinct(ks[n])
    BY ListsFacts
  <2>2. fc[n] = At(ks[n], 1) /\ \A j \in 1..Len(ks[n]) : nx[ks[n][j]] = At(ks[n], j + 1)
    BY DEF Links
  <2>3. QED
    BY <2>1, <2>2, ChainIs
<1>2. ks \in [Node -> Seq(Node)]
  BY ListsFacts
<1>3. QED
  BY <1>1, <1>2

(* -------------------- the invariant -------------------------------------- *)

(* The pointers are those of the sequences ks, and no document is a child.   *)
Rep(ks, ty, va, pa, fc, lc, pr, nx) ==
  /\ Lists(DOMAIN ty, ks)
  /\ Links(ks, pa, fc, lc, pr, nx)
  /\ DOMAIN va = DOMAIN ty
  /\ \A n \in DOMAIN ty : ty[n] = "document" => Top(On(ks), n)

kidsOf == [n \in Node |-> Nodes!Kids(n)]

NodesInv == Rep(kidsOf, type, value, up, firstChild, lastChild, prev, next)

(* Whatever sequences the pointers are those of, they are those of Kids.     *)
LEMMA RepInv ==
  ASSUME NEW ks, Rep(ks, type', value', up', firstChild', lastChild', prev', next')
  PROVE  NodesInv' /\ kidsOf' = ks
<1>1. Lists(DOMAIN type', ks) /\ Links(ks, up', firstChild', lastChild', prev', next')
  BY DEF Rep
<1>2. ks = [n \in Node |-> Nodes!Chain(firstChild'[n], next')]
  BY <1>1, ChainKids
<1>3. kidsOf' = ks
  BY <1>2 DEF kidsOf, Nodes!Kids
<1>4. QED
  BY <1>3 DEF NodesInv

LEMMA SameRange == \A f : Nodes!Range(f) = Range(f) /\ Tree!Range(f) = Range(f)
  BY DEF Nodes!Range, Tree!Range, Range

LEMMA InvFacts ==
  ASSUME NodesInv
  PROVE  /\ Lists(Nodes!live, kidsOf) /\ Links(kidsOf, up, firstChild, lastChild, prev, next)
         /\ Nodes!live = DOMAIN type /\ Tree!live = DOMAIN type /\ DOMAIN value = DOMAIN type
         /\ \A n \in Node : /\ Nodes!Kids(n) = kidsOf[n]
                            /\ Nodes!Below(n) = Below(On(kidsOf), n)
                            /\ Tree!Below(n) = Below(On(kidsOf), n)
         /\ \A n \in Nodes!live : type[n] = "document" => Top(On(kidsOf), n)
<1>1. Nodes!live = DOMAIN type /\ Tree!live = DOMAIN value /\ DOMAIN value = DOMAIN type
  BY DEF NodesInv, Rep, Nodes!live, Tree!live
<1>2. \A n \in Node : Nodes!Kids(n) = kidsOf[n]
  BY DEF kidsOf
<1>3. \A n \in Node : Nodes!Below(n) = Below(On(kidsOf), n)
  <2> DEFINE k == [p \in Node |-> Nodes!Range(Nodes!Kids(p))]
  <2>1. k = On(kidsOf)
    BY <1>2, SameRange DEF On
  <2>2. \A n \in Node : Nodes!Below(n) =
          {m \in Node : \A S \in SUBSET Node : n \in S /\ (\A p \in S : k[p] \subseteq S) => m \in S}
    BY DEF Nodes!Below
  <2> HIDE DEF k
  <2>3. QED
    BY <2>1, <2>2 DEF Below, Closed
<1>4. \A n \in Node : Tree!Below(n) = Below(On(kidsOf), n)
  <2> DEFINE k == [p \in Node |-> Tree!Range(kidsOf[p])]
  <2>1. k = On(kidsOf)
    BY SameRange DEF On
  <2>2. \A n \in Node : Tree!Below(n) =
          {m \in Node : \A S \in SUBSET Node : n \in S /\ (\A p \in S : k[p] \subseteq S) => m \in S}
    BY DEF Tree!Below, kidsOf
  <2> HIDE DEF k
  <2>3. QED
    BY <2>1, <2>2 DEF Below, Closed
<1>5. QED
  BY <1>1, <1>2, <1>3, <1>4 DEF NodesInv, Rep

(* -------------------- the operations on pointers -------------------------- *)

LEMMA SetFacts ==
  ASSUME NEW f \in [Node -> Node \cup {NoNode}], NEW n \in Node \cup {NoNode}, NEW m \in Node \cup {NoNode}
  PROVE  /\ Nodes!Set(f, n, m) \in [Node -> Node \cup {NoNode}]
         /\ \A x \in Node : Nodes!Set(f, n, m)[x] = IF x = n THEN m ELSE f[x]
  BY TreeAssumption DEF Nodes!Set

IsSet(f, n, m, g) ==
  /\ g \in [Node -> Node \cup {NoNode}]
  /\ \A x \in Node : g[x] = IF x = n THEN m ELSE f[x]

LEMMA SetIs ==
  ASSUME NEW f \in [Node -> Node \cup {NoNode}], NEW n \in Node \cup {NoNode}, NEW m \in Node \cup {NoNode}
  PROVE  IsSet(f, n, m, Nodes!Set(f, n, m))
  BY TreeAssumption DEF Nodes!Set, IsSet

LEMMA FreedFacts ==
  ASSUME NEW f \in [Node -> Node \cup {NoNode}], NEW D
  PROVE  /\ Nodes!Freed(f, D) \in [Node -> Node \cup {NoNode}]
         /\ \A x \in Node : Nodes!Freed(f, D)[x] = IF x \in D THEN NoNode ELSE f[x]
  BY DEF Nodes!Freed

LEMMA PointerTypes ==
  ASSUME NEW l, NEW ks, NEW pa, NEW fc, NEW lc, NEW pr, NEW nx, Links(ks, pa, fc, lc, pr, nx)
  PROVE  /\ pa \in [Node -> Node \cup {NoNode}] /\ fc \in [Node -> Node \cup {NoNode}]
         /\ lc \in [Node -> Node \cup {NoNode}] /\ pr \in [Node -> Node \cup {NoNode}]
         /\ nx \in [Node -> Node \cup {NoNode}]
  BY DEF Links

LEMMA SequenceCalls ==
  ASSUME NEW s \in Seq(Node)
  PROVE  /\ \A i \in 1..Len(s) + 1, e \in Node : Tree!InsertAt(s, i, e) = Ins(s, i, e)
         /\ \A i \in 1..Len(s) : Tree!RemoveAt(s, i) = Rem(s, i)
         /\ \A e \in Node : Append(s, e) = Ins(s, Len(s) + 1, e)
<1>1. Len(s) \in Nat /\ s \in [1..Len(s) -> Node]
  BY LenProperties
<1> DEFINE m == Len(s)
           part(i, j) == SubSeq(s, i, j)
<1>2. ASSUME NEW i \in 1..m + 1, NEW j \in 0..m
      PROVE  /\ part(i, j) \in Seq(Node)
             /\ Len(part(i, j)) = IF i <= j THEN j - i + 1 ELSE 0
             /\ \A x \in 1..(j - i + 1) : part(i, j)[x] = s[i + x - 1]
  <2>1. i \in Int /\ j \in Int /\ \A x \in i..j : s[x] \in Node
    BY <1>1
  <2>2. QED
    BY <2>1, SubSeqProperties
<1>3. ASSUME NEW i \in 1..m + 1, NEW e \in Node PROVE Tree!InsertAt(s, i, e) = Ins(s, i, e)
  <2> DEFINE a == part(1, i - 1)
             b == part(i, m)
             one == <<e>>
             ab == a \o one
  <2>1. 1 \in 1..m + 1 /\ i - 1 \in 0..m /\ m \in 0..m /\ i \in Int /\ m \in Int /\ i - 1 - 1 + 1 = i - 1
    BY <1>1
  <2>2. /\ a \in Seq(Node) /\ Len(a) = i - 1 /\ \A x \in 1..i - 1 : a[x] = s[x]
    <3>1. /\ a \in Seq(Node) /\ Len(a) = IF 1 <= i - 1 THEN i - 1 - 1 + 1 ELSE 0
          /\ \A x \in 1..(i - 1 - 1 + 1) : a[x] = s[1 + x - 1]
      BY <1>2, <2>1
    <3>2. Len(a) = i - 1
      BY <2>1, <3>1
    <3>3. \A x \in 1..i - 1 : 1 + x - 1 = x
      BY <2>1
    <3>4. QED
      BY <2>1, <3>1, <3>2, <3>3
  <2>3. /\ b \in Seq(Node) /\ Len(b) = m - i + 1 /\ \A x \in 1..(m - i + 1) : b[x] = s[i + x - 1]
    <3>1. /\ b \in Seq(Node) /\ Len(b) = (IF i <= m THEN m - i + 1 ELSE 0)
          /\ \A x \in 1..(m - i + 1) : b[x] = s[i + x - 1]
      BY <1>2, <2>1
    <3>2. (IF i <= m THEN m - i + 1 ELSE 0) = m - i + 1
      BY <2>1
    <3>3. QED
      BY <3>1, <3>2
  <2>4. one \in Seq(Node) /\ Len(one) = 1 /\ one[1] = e
    OBVIOUS
  <2> HIDE DEF a, b, one, part
  <2>5. /\ ab \in Seq(Node) /\ Len(ab) = i /\ \A x \in 1..i : ab[x] = IF x < i THEN s[x] ELSE e
    <3>1. /\ ab \in Seq(Node) /\ Len(ab) = Len(a) + Len(one)
          /\ \A x \in 1..Len(a) + Len(one) : ab[x] = IF x <= Len(a) THEN a[x] ELSE one[x - Len(a)]
      BY <2>2, <2>4, ConcatProperties
    <3>2. QED
      BY <2>1, <2>2, <2>4, <3>1
  <2> HIDE DEF ab
  <2>6. /\ ab \o b \in Seq(Node) /\ Len(ab \o b) = m + 1
        /\ \A x \in 1..m + 1 : (ab \o b)[x] = IF x < i THEN s[x] ELSE IF x = i THEN e ELSE s[x - 1]
    <3>1. /\ ab \o b \in Seq(Node) /\ Len(ab \o b) = Len(ab) + Len(b)
          /\ \A x \in 1..Len(ab) + Len(b) : (ab \o b)[x] = IF x <= Len(ab) THEN ab[x] ELSE b[x - Len(ab)]
      BY <2>3, <2>5, ConcatProperties
    <3>2. Len(ab) + Len(b) = m + 1
      BY <1>1, <2>1, <2>3, <2>5
    <3>3. ASSUME NEW x \in 1..m + 1, x > i PROVE b[x - i] = s[x - 1]
      <4>1. x - i \in 1..(m - i + 1) /\ i + (x - i) - 1 = x - 1
        BY <1>1, <2>1, <3>3
      <4>2. QED
        BY <2>3, <4>1
    <3>4. ASSUME NEW x \in 1..m + 1, x <= i PROVE ab[x] = IF x < i THEN s[x] ELSE e
      BY <1>1, <2>1, <2>5, <3>4
    <3>5. ASSUME NEW x \in 1..m + 1
          PROVE  (ab \o b)[x] = IF x < i THEN s[x] ELSE IF x = i THEN e ELSE s[x - 1]
      BY <1>1, <2>1, <2>5, <3>1, <3>2, <3>3, <3>4
    <3>6. QED
      BY <3>1, <3>2, <3>5
  <2>7. Ins(s, i, e) \in Seq(Node) /\ Len(Ins(s, i, e)) = m + 1
        /\ \A x \in 1..m + 1 : Ins(s, i, e)[x] = IF x < i THEN s[x] ELSE IF x = i THEN e ELSE s[x - 1]
    BY InsFacts
  <2>8. ab \o b = Ins(s, i, e)
    <3> DEFINE u == ab \o b
               w == Ins(s, i, e)
    <3>1. u \in Seq(Node) /\ w \in Seq(Node) /\ Len(u) = Len(w) /\ \A x \in 1..Len(u) : u[x] = w[x]
      BY <2>6, <2>7
    <3> HIDE DEF u, w
    <3>2. u = w
      BY <3>1, SeqEqual
    <3>3. QED
      BY <3>2 DEF u, w
  <2>9. QED
    BY <2>8 DEF Tree!InsertAt, ab, a, b, one, part
<1>4. ASSUME NEW i \in 1..m PROVE Tree!RemoveAt(s, i) = Rem(s, i)
  <2> DEFINE a == part(1, i - 1)
             b == part(i + 1, m)
  <2>1. 1 \in 1..m + 1 /\ i - 1 \in 0..m /\ m \in 0..m /\ i + 1 \in 1..m + 1 /\ i \in Int /\ m \in Int
        /\ i - 1 - 1 + 1 = i - 1 /\ m - (i + 1) + 1 = m - i
    BY <1>1
  <2>2. /\ a \in Seq(Node) /\ Len(a) = i - 1 /\ \A x \in 1..i - 1 : a[x] = s[x]
    <3>1. /\ a \in Seq(Node) /\ Len(a) = IF 1 <= i - 1 THEN i - 1 - 1 + 1 ELSE 0
          /\ \A x \in 1..(i - 1 - 1 + 1) : a[x] = s[1 + x - 1]
      BY <1>2, <2>1
    <3>2. Len(a) = i - 1
      BY <2>1, <3>1
    <3>3. \A x \in 1..i - 1 : 1 + x - 1 = x
      BY <2>1
    <3>4. QED
      BY <2>1, <3>1, <3>2, <3>3
  <2>3. /\ b \in Seq(Node) /\ Len(b) = m - i /\ \A x \in 1..m - i : b[x] = s[i + x]
    <3>1. /\ b \in Seq(Node) /\ Len(b) = (IF i + 1 <= m THEN m - (i + 1) + 1 ELSE 0)
          /\ \A x \in 1..(m - (i + 1) + 1) : b[x] = s[i + 1 + x - 1]
      BY <1>2, <2>1
    <3>2. (IF i + 1 <= m THEN m - (i + 1) + 1 ELSE 0) = m - i /\ \A x \in 1..m - i : i + 1 + x - 1 = i + x
      <4>1. m - (i + 1) + 1 = m - i
        BY <2>1
      <4>2. i <= m
        BY <2>1
      <4>3. ~ (i + 1 <= m) => m - i = 0
        <5>1. i + 1 <= m \/ i = m
          <6>1. \A x, y \in Int : x <= y => x + 1 <= y \/ x = y
            OBVIOUS
          <6>2. QED
            BY <2>1, <4>2, <6>1
        <5>2. m - m = 0
          BY <2>1
        <5>3. QED
          BY <5>1, <5>2
      <4>4. (IF i + 1 <= m THEN m - (i + 1) + 1 ELSE 0) = m - i
        BY <4>1, <4>3
      <4>5. \A x \in 1..m - i : i + 1 + x - 1 = i + x
        BY <2>1
      <4>6. QED
        BY <4>4, <4>5
    <3>3. QED
      BY <2>1, <3>1, <3>2
  <2> HIDE DEF a, b, part
  <2>4. /\ a \o b \in Seq(Node) /\ Len(a \o b) = m - 1
        /\ \A x \in 1..m - 1 : (a \o b)[x] = IF x < i THEN s[x] ELSE s[x + 1]
    <3>1. /\ a \o b \in Seq(Node) /\ Len(a \o b) = Len(a) + Len(b)
          /\ \A x \in 1..Len(a) + Len(b) : (a \o b)[x] = IF x <= Len(a) THEN a[x] ELSE b[x - Len(a)]
      BY <2>2, <2>3, ConcatProperties
    <3>2. Len(a) + Len(b) = m - 1
      BY <2>1, <2>2, <2>3
    <3>3. ASSUME NEW x \in 1..m - 1, x >= i PROVE b[x - (i - 1)] = s[x + 1]
      <4>1. x - (i - 1) \in 1..m - i /\ i + (x - (i - 1)) = x + 1
        BY <2>1, <3>3
      <4>2. QED
        BY <2>3, <4>1
    <3>4. \A x \in 1..m - 1 : (a \o b)[x] = IF x <= i - 1 THEN a[x] ELSE b[x - (i - 1)]
      BY <2>2, <3>1, <3>2
    <3>5. \A x \in 1..m - 1 : (x <= i - 1 <=> x < i) /\ (x < i => x \in 1..i - 1) /\ (~ (x < i) => x >= i)
      BY <2>1
    <3>6. \A x \in 1..m - 1 : (a \o b)[x] = IF x < i THEN s[x] ELSE s[x + 1]
      BY <2>2, <3>3, <3>4, <3>5
    <3>7. QED
      BY <3>1, <3>2, <3>6
  <2>5. Rem(s, i) \in Seq(Node) /\ Len(Rem(s, i)) = m - 1
        /\ \A x \in 1..m - 1 : Rem(s, i)[x] = IF x < i THEN s[x] ELSE s[x + 1]
    BY RemFacts
  <2>6. a \o b = Rem(s, i)
    <3> DEFINE u == a \o b
               w == Rem(s, i)
    <3>1. u \in Seq(Node) /\ w \in Seq(Node) /\ Len(u) = Len(w) /\ \A x \in 1..Len(u) : u[x] = w[x]
      BY <2>4, <2>5
    <3> HIDE DEF u, w
    <3>2. u = w
      BY <3>1, SeqEqual
    <3>3. QED
      BY <3>2 DEF u, w
  <2>7. QED
    BY <2>6 DEF Tree!RemoveAt, a, b, part
<1>5. ASSUME NEW e \in Node PROVE Append(s, e) = Ins(s, m + 1, e)
  <2>1. m + 1 \in 1..m + 1
    BY <1>1
  <2> DEFINE u == Append(s, e)
             w == Ins(s, m + 1, e)
  <2>2. /\ u \in Seq(Node) /\ Len(u) = m + 1
        /\ (\A x \in 1..m : u[x] = s[x]) /\ u[m + 1] = e
    BY AppendProperties
  <2>3. w \in Seq(Node) /\ Len(w) = m + 1
        /\ \A x \in 1..m + 1 : w[x] = IF x < m + 1 THEN s[x] ELSE IF x = m + 1 THEN e ELSE s[x - 1]
    BY <2>1, InsFacts
  <2> HIDE DEF u, w
  <2>4. \A x \in 1..m + 1 : u[x] = w[x]
    BY <1>1, <2>2, <2>3
  <2>5. u = w
    BY <2>2, <2>3, <2>4, SeqEqual
  <2>6. QED
    BY <2>5 DEF u, w
<1>6. QED
  BY <1>3, <1>4, <1>5

(* copy is a way of copying n: what the pointers and the sequences become.   *)
CopyOf(n, copy, D, R) ==
  /\ n \in Nodes!live /\ copy \in Nodes!Copies(n)
  /\ D = Below(On(kidsOf), n) /\ R = Range(copy)

LEMMA CopiesAre ==
  ASSUME NodesInv, NEW n, NEW copy, NEW D, NEW R, CopyOf(n, copy, D, R)
  PROVE  /\ Copying(Nodes!live, On(kidsOf), n, copy, R)
         /\ copy \in Tree!Copies(n)
         /\ copy \in [D -> Node \ Nodes!live] /\ Nodes!Range(copy) = R /\ Tree!Range(copy) = R
         /\ \A x \in D : Nodes!Source(copy, copy[x]) = x /\ Tree!Original(copy, copy[x]) = x
<1>1. n \in Node /\ n \in Nodes!live
  BY InvFacts, ListsFacts DEF CopyOf
<1>2. Nodes!Below(n) = D /\ Tree!Below(n) = D /\ Nodes!live = Tree!live
  BY <1>1, InvFacts DEF CopyOf
<1>3. Nodes!Range(copy) = R /\ Tree!Range(copy) = R
  BY SameRange DEF CopyOf
<1>4. copy \in Nodes!Injection(D, Node \ Nodes!live)
  BY <1>2 DEF CopyOf, Nodes!Copies
<1>5. copy \in [D -> Node \ Nodes!live] /\ \A x, y \in D : copy[x] = copy[y] => x = y
  BY <1>4 DEF Nodes!Injection, Nodes!IsInjective
<1>6. copy \in Tree!Copies(n)
  <2>1. copy \in Tree!Injection(D, Node \ Nodes!live)
    BY <1>5 DEF Tree!Injection, Tree!IsInjective
  <2>2. QED
    BY <1>2, <2>1 DEF Tree!Copies
<1>7. R = {copy[x] : x \in D}
  BY <1>5 DEF CopyOf, Range
<1>8. Copying(Nodes!live, On(kidsOf), n, copy, R)
  BY <1>1, <1>5, <1>7 DEF Copying, CopyOf
<1>9. \A x \in D : Nodes!Source(copy, copy[x]) = x /\ Tree!Original(copy, copy[x]) = x
  BY <1>5 DEF Nodes!Source, Tree!Original
<1>10. QED
  BY <1>3, <1>5, <1>6, <1>8, <1>9

LEMMA CopiedIs ==
  ASSUME NodesInv, NEW n, NEW copy, NEW D, NEW R, CopyOf(n, copy, D, R),
         NEW f \in [Node -> Node \cup {NoNode}]
  PROVE  CopiedPointer(D, copy, R, f, Nodes!Copied(f, copy))
<1>1. /\ copy \in [D -> Node \ Nodes!live] /\ Nodes!Range(copy) = R
      /\ \A x \in D : Nodes!Source(copy, copy[x]) = x
      /\ Copying(Nodes!live, On(kidsOf), n, copy, R)
  BY CopiesAre
<1>2. /\ D \subseteq Node /\ R \subseteq Node
      /\ \A x \in D : copy[x] \in R /\ copy[x] \in Node
      /\ \A q \in R : \E x \in D : q = copy[x]
  <2>1. Lists(Nodes!live, kidsOf)
    BY InvFacts
  <2>2. QED
    BY <1>1, <2>1, CopyingFacts DEF CopyOf
<1> DEFINE f2 == Nodes!Copied(f, copy)
<1>3. f2 = [m \in Node |->
              IF m \notin R THEN f[m]
              ELSE IF f[Nodes!Source(copy, m)] \in D THEN copy[f[Nodes!Source(copy, m)]] ELSE NoNode]
  BY <1>1 DEF Nodes!Copied
<1> HIDE DEF f2
<1>4. \A x \in D : f2[copy[x]] = IF f[x] \in D THEN copy[f[x]] ELSE NoNode
  BY <1>1, <1>2, <1>3
<1>5. \A q \in Node \ R : f2[q] = f[q]
  BY <1>3
<1>6. f2 \in [Node -> Node \cup {NoNode}]
  <2>1. ASSUME NEW m \in Node PROVE f2[m] \in Node \cup {NoNode}
    <3>1. CASE m \notin R
      BY <1>5, <3>1
    <3>2. CASE m \in R
      BY <1>2, <1>4, <3>2
    <3>3. QED
      BY <3>1, <3>2
  <2>2. QED
    BY <1>3, <2>1
<1>7. QED
  BY <1>4, <1>5, <1>6 DEF f2, CopiedPointer

LEMMA CopiedKidsAre ==
  ASSUME NodesInv, NEW n, NEW copy, NEW D, NEW R, CopyOf(n, copy, D, R)
  PROVE  CopiedLists(kidsOf, D, copy, R, Tree!CopiedKids(copy))
<1>1. /\ copy \in [D -> Node \ Nodes!live] /\ Tree!Range(copy) = R
      /\ \A x \in D : Tree!Original(copy, copy[x]) = x
      /\ Copying(Nodes!live, On(kidsOf), n, copy, R)
  BY CopiesAre
<1>2. Lists(Nodes!live, kidsOf)
  BY InvFacts
<1>3. /\ D \subseteq Node /\ R \subseteq Node /\ Closed(On(kidsOf), D)
      /\ \A x \in D : copy[x] \in R /\ copy[x] \in Node
      /\ \A q \in R : \E x \in D : q = copy[x]
  <2>1. D \subseteq Nodes!live /\ Nodes!live \subseteq Node
    BY <1>1, <1>2, CopyingFacts DEF CopyOf
  <2>2. QED
    BY <1>1, <1>2, <2>1, CopyingFacts DEF CopyOf
<1> DEFINE k2 == Tree!CopiedKids(copy)
<1>4. k2 = [m \in Node |->
              IF m \in R
                THEN [i \in DOMAIN kidsOf[Tree!Original(copy, m)] |-> copy[kidsOf[Tree!Original(copy, m)][i]]]
              ELSE kidsOf[m]]
  BY <1>1 DEF Tree!CopiedKids, kidsOf
<1> HIDE DEF k2
<1>5. \A q \in Node \ R : k2[q] = kidsOf[q]
  BY <1>4
<1>6. ASSUME NEW x \in D
      PROVE  k2[copy[x]] = [j \in 1..Len(kidsOf[x]) |-> copy[kidsOf[x][j]]] /\ k2[copy[x]] \in Seq(Node)
  <2>1. x \in Node /\ copy[x] \in Node /\ copy[x] \in R /\ Tree!Original(copy, copy[x]) = x
    BY <1>1, <1>3
  <2>2. kidsOf[x] \in Seq(Node)
    BY <1>2, <2>1, ListsFacts
  <2>3. Len(kidsOf[x]) \in Nat /\ DOMAIN kidsOf[x] = 1..Len(kidsOf[x])
    BY <2>2, RangeFacts
  <2>4. k2[copy[x]] = [j \in DOMAIN kidsOf[x] |-> copy[kidsOf[x][j]]]
    BY <1>4, <2>1
  <2>5. \A j \in 1..Len(kidsOf[x]) : copy[kidsOf[x][j]] \in Node
    <3>1. TAKE j \in 1..Len(kidsOf[x])
    <3>2. kidsOf[x][j] \in On(kidsOf)[x]
      BY <1>2, <2>1, ListsFacts
    <3>3. kidsOf[x][j] \in D
      BY <1>3, <3>2 DEF Closed
    <3>4. QED
      BY <1>3, <3>3
  <2>6. [j \in 1..Len(kidsOf[x]) |-> copy[kidsOf[x][j]]] \in Seq(Node)
    BY <2>3, <2>5
  <2>7. QED
    BY <2>3, <2>4, <2>6
<1>7. k2 \in [Node -> Seq(Node)]
  <2>1. ASSUME NEW m \in Node PROVE k2[m] \in Seq(Node)
    <3>1. CASE m \notin R
      BY <1>2, <1>5, <3>1, ListsFacts
    <3>2. CASE m \in R
      <4>1. PICK x \in D : m = copy[x]
        BY <1>3, <3>2
      <4>2. QED
        BY <1>6, <4>1
    <3>3. QED
      BY <3>1, <3>2
  <2>2. QED
    BY <1>4, <2>1
<1>8. QED
  BY <1>5, <1>6, <1>7 DEF k2, CopiedLists

(* A node that has a parent has a place among its children.                  *)
LEMMA ChildPlace ==
  ASSUME NodesInv, NEW r \in Nodes!live, up[r] # NoNode
  PROVE  /\ up[r] \in Nodes!live /\ up[r] \in Node /\ r \in Node
         /\ \E i \in 1..Len(kidsOf[up[r]]) :
              /\ kidsOf[up[r]][i] = r
              /\ prev[r] = At(kidsOf[up[r]], i - 1)
              /\ next[r] = At(kidsOf[up[r]], i + 1)
<1>1. Lists(Nodes!live, kidsOf) /\ Links(kidsOf, up, firstChild, lastChild, prev, next)
  BY InvFacts
<1>2. r \in Node
  BY <1>1, ListsFacts
<1>3. ~ Top(On(kidsOf), r)
  BY <1>1, <1>2 DEF Links
<1>4. PICK p \in Node : \E i \in 1..Len(kidsOf[p]) : kidsOf[p][i] = r
  BY <1>1, <1>2, <1>3, ListsFacts
<1>5. PICK i \in 1..Len(kidsOf[p]) : kidsOf[p][i] = r
  BY <1>4
<1>6. up[r] = p /\ prev[r] = At(kidsOf[p], i - 1) /\ next[r] = At(kidsOf[p], i + 1)
  BY <1>1, <1>5 DEF Links
<1>7. p \in Nodes!live
  <2>1. r \in On(kidsOf)[p]
    BY <1>1, <1>5, ListsFacts
  <2>2. QED
    BY <1>1, <2>1 DEF Lists, Shape
<1>8. QED
  BY <1>2, <1>5, <1>6, <1>7

(* A node without a parent is nobody's child.                                *)
LEMMA NoParent ==
  ASSUME NodesInv, NEW n \in Nodes!live
  PROVE  /\ n \in Node
         /\ up[n] = NoNode <=> Top(On(kidsOf), n)
         /\ Tree!Alone(n) <=> Top(On(kidsOf), n)
<1>1. Lists(Nodes!live, kidsOf) /\ Links(kidsOf, up, firstChild, lastChild, prev, next)
  BY InvFacts
<1>2. n \in Node
  BY <1>1, ListsFacts
<1>3. up[n] = NoNode <=> Top(On(kidsOf), n)
  <2>1. ASSUME NEW p \in Node, NEW i \in 1..Len(kidsOf[p]), kidsOf[p][i] = n PROVE up[n] # NoNode
    <3>1. up[n] = p
      BY <1>1, <2>1 DEF Links
    <3>2. QED
      BY <3>1, TreeAssumption
  <2>2. QED
    BY <1>1, <1>2, <2>1, ListsFacts DEF Links
<1>4. Tree!Alone(n) <=> \A m \in Nodes!live : n \notin On(kidsOf)[m]
  <2>1. \A m \in Nodes!live : m \in Node
    BY <1>1, ListsFacts
  <2>2. \A m \in Nodes!live : On(kidsOf)[m] = Range(kidsOf[m])
    BY <2>1 DEF On
  <2>3. Tree!Alone(n) <=> \A m \in Nodes!live : n \notin Tree!Range(kidsOf[m])
    BY InvFacts DEF Tree!Alone, kidsOf
  <2>4. QED
    BY <2>2, <2>3, SameRange
<1>5. (\A m \in Nodes!live : n \notin On(kidsOf)[m]) <=> Top(On(kidsOf), n)
  BY <1>1 DEF Top, Lists, Shape
<1>6. QED
  BY <1>2, <1>3, <1>4, <1>5

(* What was below a node is by itself when the node is nobody's child.       *)
LEMMA LooseBelow ==
  ASSUME NEW l0, NEW c0, Shape(l0, c0), NEW r \in Node, NEW D, D = Below(c0, r),
         NEW l, NEW c, Shape(l, c), Top(c, r), \A q \in D : c[q] = c0[q]
  PROVE  D \in SUBSET Node /\ Closed(c, D) /\ \A q \in Node \ D : c[q] \cap D = {}
<1>1. c0 \in [Node -> SUBSET Node] /\ c \in [Node -> SUBSET Node]
  BY DEF Shape
<1>2. D \in SUBSET Node /\ Closed(c0, D)
  BY <1>1, BelowFacts
<1>3. Closed(c, D)
  BY <1>2 DEF Closed
<1>4. ASSUME NEW q \in Node \ D, NEW x \in D, x \in c[q] PROVE FALSE
  <2>1. x # r
    BY <1>4 DEF Top
  <2>2. PICK y \in D : x \in c0[y]
    BY <1>1, <2>1, BelowParent
  <2>3. x \in c[y] /\ y \in Node
    BY <1>2, <2>2
  <2>4. y = q
    BY <1>4, <2>3 DEF Shape
  <2>5. QED
    BY <2>4
<1>5. QED
  BY <1>2, <1>3, <1>4

(* Nothing is above a node and below it.                                     *)
LEMMA NotBelow ==
  ASSUME NodesInv, NEW r \in Nodes!live, up[r] # NoNode
  PROVE  up[r] \notin Below(On(kidsOf), r)
<1>1. PICK i \in 1..Len(kidsOf[up[r]]) : kidsOf[up[r]][i] = r
  BY ChildPlace
<1>2. up[r] \in Node /\ Lists(Nodes!live, kidsOf)
  BY ChildPlace, InvFacts
<1>3. r \in On(kidsOf)[up[r]]
  BY <1>1, <1>2, ListsFacts
<1>4. QED
  BY <1>2, <1>3, ShapeAcyclic DEF Lists

(* -------------------- one lemma for each operation ------------------------ *)

LEMMA StepNew ==
  ASSUME NodesInv, NEW n \in Node, NEW t, NEW v, Nodes!New(n, t, v)
  PROVE  NodesInv' /\ Tree!Make(n, v)
<1>1. /\ n \in Node \ Nodes!live
      /\ type' = [m \in Nodes!live \cup {n} |-> IF m = n THEN t ELSE type[m]]
      /\ value' = [m \in Nodes!live \cup {n} |-> IF m = n THEN v ELSE value[m]]
      /\ up' = up /\ firstChild' = firstChild /\ lastChild' = lastChild /\ prev' = prev /\ next' = next
  BY DEF Nodes!New, Nodes!pointers
<1>2. /\ Lists(Nodes!live, kidsOf) /\ Links(kidsOf, up, firstChild, lastChild, prev, next)
      /\ Nodes!live = Tree!live
      /\ \A m \in Nodes!live : type[m] = "document" => Top(On(kidsOf), m)
  BY InvFacts
<1>3. Lists(Nodes!live \cup {n}, kidsOf)
  <2>1. Shape(Nodes!live \cup {n}, On(kidsOf))
    BY <1>2, ShapeNew DEF Lists
  <2>2. QED
    BY <1>2, <2>1 DEF Lists
<1>4. Top(On(kidsOf), n)
  BY <1>1, <1>2 DEF Top, Lists, Shape
<1>5. Rep(kidsOf, type', value', up', firstChild', lastChild', prev', next')
  BY <1>1, <1>2, <1>3, <1>4 DEF Rep
<1>6. NodesInv' /\ kidsOf' = kidsOf
  BY <1>5, RepInv
<1>7. Tree!Make(n, v)
  BY <1>1, <1>2, <1>6 DEF Tree!Make, kidsOf
<1>8. QED
  BY <1>6, <1>7

(* Trees that are deleted: D is what is below nodes that nothing is above.   *)
Pruned(D, ks1, pa1, fc1, lc1, pr1, nx1) ==
  /\ \A n \in Node :
       /\ up'[n] = IF n \in D THEN NoNode ELSE pa1[n]
       /\ firstChild'[n] = IF n \in D THEN NoNode ELSE fc1[n]
       /\ lastChild'[n] = IF n \in D THEN NoNode ELSE lc1[n]
       /\ prev'[n] = IF n \in D THEN NoNode ELSE pr1[n]
       /\ next'[n] = IF n \in D THEN NoNode ELSE nx1[n]
  /\ up' \in [Node -> Node \cup {NoNode}]
  /\ \A f \in {firstChild', lastChild', prev', next'} : f \in [Node -> Node \cup {NoNode}]

LEMMA PrunedStep ==
  ASSUME NEW l, NEW ks1, NEW pa1, NEW fc1, NEW lc1, NEW pr1, NEW nx1,
         Lists(l, ks1), Links(ks1, pa1, fc1, lc1, pr1, nx1),
         NEW ty1, NEW D \in SUBSET Node, Closed(On(ks1), D), \A q \in Node \ D : On(ks1)[q] \cap D = {},
         \A n \in l : ty1[n] = "document" => Top(On(ks1), n),
         DOMAIN type' = l \ D, DOMAIN value' = l \ D,
         \A n \in l \ D : type'[n] = ty1[n],
         Pruned(D, ks1, pa1, fc1, lc1, pr1, nx1)
  PROVE  NodesInv' /\ kidsOf' = Tree!Emptied(ks1, D)
<1> DEFINE ks2 == Tree!Emptied(ks1, D)
<1>1. ks1 \in [Node -> Seq(Node)]
  BY DEF Lists
<1>2. /\ ks2 \in [Node -> Seq(Node)]
      /\ (\A n \in D : ks2[n] = <<>>) /\ \A n \in Node \ D : ks2[n] = ks1[n]
  BY <1>1 DEF Tree!Emptied
<1> HIDE DEF ks2
<1>3. /\ \A f \in {firstChild', lastChild', prev', next'} : f \in [Node -> Node \cup {NoNode}]
      /\ up' \in [Node -> Node \cup {NoNode}]
      /\ \A n \in D : /\ up'[n] = NoNode /\ firstChild'[n] = NoNode /\ lastChild'[n] = NoNode
                      /\ prev'[n] = NoNode /\ next'[n] = NoNode
      /\ \A n \in Node \ D : /\ up'[n] = pa1[n] /\ firstChild'[n] = fc1[n] /\ lastChild'[n] = lc1[n]
                             /\ prev'[n] = pr1[n] /\ next'[n] = nx1[n]
  BY DEF Pruned
<1>4. /\ Lists(l \ D, ks2) /\ Links(ks2, up', firstChild', lastChild', prev', next')
      /\ Fewer(ks1, ks2)
  <2> DEFINE pa2 == up'
             fc2 == firstChild'
             lc2 == lastChild'
             pr2 == prev'
             nx2 == next'
  <2>1. /\ pa2 \in [Node -> Node \cup {NoNode}]
        /\ \A f \in {fc2, lc2, pr2, nx2} : f \in [Node -> Node \cup {NoNode}]
        /\ \A n \in D : /\ pa2[n] = NoNode /\ fc2[n] = NoNode /\ lc2[n] = NoNode
                        /\ pr2[n] = NoNode /\ nx2[n] = NoNode
        /\ \A n \in Node \ D : /\ pa2[n] = pa1[n] /\ fc2[n] = fc1[n] /\ lc2[n] = lc1[n]
                               /\ pr2[n] = pr1[n] /\ nx2[n] = nx1[n]
        /\ Returned(D, ks1, pa1, fc1, lc1, pr1, nx1, ks2, pa2, fc2, lc2, pr2, nx2)
    BY <1>2, <1>3 DEF Returned
  <2> HIDE DEF pa2, fc2, lc2, pr2, nx2
  <2>4. /\ Lists(l, ks1) /\ Links(ks1, pa1, fc1, lc1, pr1, nx1)
        /\ Returned(D, ks1, pa1, fc1, lc1, pr1, nx1, ks2, pa2, fc2, lc2, pr2, nx2)
    BY <2>1
  <2>2. /\ Lists(l \ D, ks2) /\ Links(ks2, pa2, fc2, lc2, pr2, nx2)
        /\ Fewer(ks1, ks2)
    BY ONLY <2>4, PruneSound
  <2>3. QED
    BY <2>2 DEF pa2, fc2, lc2, pr2, nx2
<1>5. \A n \in l \ D : type'[n] = "document" => Top(On(ks2), n)
  BY <1>4 DEF Top, Fewer
<1>6. Rep(ks2, type', value', up', firstChild', lastChild', prev', next')
  BY <1>4, <1>5 DEF Rep
<1>7. QED
  BY <1>6, RepInv DEF ks2

LEMMA StepDeleted ==
  ASSUME NodesInv, NEW n \in Nodes!live, up[n] = NoNode, Nodes!Deleted(n)
  PROVE  NodesInv' /\ Tree!Drop(n)
<1> DEFINE D == Below(On(kidsOf), n)
           l == Nodes!live
<1>1. /\ Lists(l, kidsOf) /\ Links(kidsOf, up, firstChild, lastChild, prev, next)
      /\ l = DOMAIN type /\ Tree!live = l /\ DOMAIN value = l
      /\ \A m \in l : type[m] = "document" => Top(On(kidsOf), m)
      /\ n \in Node /\ Top(On(kidsOf), n) /\ Tree!Alone(n)
      /\ Nodes!Below(n) = D /\ Tree!Below(n) = D
  BY InvFacts, NoParent
<1>2. D \in SUBSET Node /\ Closed(On(kidsOf), D) /\ \A q \in Node \ D : On(kidsOf)[q] \cap D = {}
  <2>1. Shape(l, On(kidsOf))
    BY <1>1 DEF Lists
  <2>2. QED
    BY <1>1, <2>1, LooseBelow
<1>3. /\ type' = Nodes!Without(type, D) /\ value' = Nodes!Without(value, D)
      /\ up' = Nodes!Freed(up, D) /\ firstChild' = Nodes!Freed(firstChild, D)
      /\ lastChild' = Nodes!Freed(lastChild, D)
      /\ prev' = Nodes!Freed(prev, D) /\ next' = Nodes!Freed(next, D)
  BY <1>1 DEF Nodes!Deleted
<1>4. /\ up \in [Node -> Node \cup {NoNode}] /\ firstChild \in [Node -> Node \cup {NoNode}]
      /\ lastChild \in [Node -> Node \cup {NoNode}] /\ prev \in [Node -> Node \cup {NoNode}]
      /\ next \in [Node -> Node \cup {NoNode}]
  BY <1>1, PointerTypes
<1> HIDE DEF D, l
<1>5. Pruned(D, kidsOf, up, firstChild, lastChild, prev, next)
  BY <1>3, <1>4, FreedFacts DEF Pruned
<1>6. DOMAIN type' = l \ D /\ DOMAIN value' = l \ D /\ \A m \in l \ D : type'[m] = type[m]
  BY <1>3 DEF Nodes!Without, l
<1>7. NodesInv' /\ kidsOf' = Tree!Emptied(kidsOf, D)
  BY <1>1, <1>2, <1>5, <1>6, PrunedStep
<1>8. Tree!Drop(n)
  <2>1. value' = Tree!Without(value, D)
    BY <1>1, <1>3 DEF Nodes!Without, Tree!Without, l
  <2>2. QED
    BY <1>1, <1>7, <2>1 DEF Tree!Drop, kidsOf, l
<1>9. QED
  BY <1>7, <1>8

LEMMA StepLink ==
  ASSUME NodesInv, NEW p, NEW n, Nodes!LinkEndChild(p, n)
  PROVE  /\ NodesInv'
         /\ p \in Nodes!live /\ n \in Nodes!live
         /\ Tree!Drop(n) \/ Tree!LinkLast(p, n)
<1>1. p \in Nodes!live /\ n \in Nodes!live /\ up[n] = NoNode /\ p \notin Nodes!Below(n)
  BY DEF Nodes!LinkEndChild
<1>2. CASE type[n] = "document"
  <2>1. Nodes!Deleted(n)
    BY <1>2 DEF Nodes!LinkEndChild
  <2>2. QED
    BY <1>1, <2>1, StepDeleted
<1>3. CASE type[n] # "document"
  <2> DEFINE s == kidsOf[p]
             m == Len(s)
             l == Nodes!live
             ks2 == [kidsOf EXCEPT ![p] = Ins(s, m + 1, n)]
  <2>1. /\ Lists(l, kidsOf) /\ Links(kidsOf, up, firstChild, lastChild, prev, next)
        /\ l = DOMAIN type /\ l = DOMAIN value /\ Tree!live = l
        /\ p \in Node /\ n \in Node /\ Top(On(kidsOf), n) /\ Tree!Alone(n)
        /\ Nodes!Below(n) = Below(On(kidsOf), n) /\ Tree!Below(n) = Below(On(kidsOf), n)
        /\ \A x \in l : type[x] = "document" => Top(On(kidsOf), x)
    BY <1>1, InvFacts, NoParent
  <2>2. /\ up' = [up EXCEPT ![n] = p]
        /\ prev' = [prev EXCEPT ![n] = lastChild[p]]
        /\ next' = Nodes!Set([next EXCEPT ![n] = NoNode], lastChild[p], n)
        /\ firstChild' = Nodes!Set(firstChild, IF lastChild[p] = NoNode THEN p ELSE NoNode, n)
        /\ lastChild' = [lastChild EXCEPT ![p] = n]
        /\ type' = type /\ value' = value
    BY <1>3 DEF Nodes!LinkEndChild
  <2>3. /\ up \in [Node -> Node \cup {NoNode}] /\ firstChild \in [Node -> Node \cup {NoNode}]
        /\ lastChild \in [Node -> Node \cup {NoNode}] /\ prev \in [Node -> Node \cup {NoNode}]
        /\ next \in [Node -> Node \cup {NoNode}]
    BY <2>1, PointerTypes
  <2>4. kidsOf \in [Node -> Seq(Node)] /\ s \in Seq(Node) /\ Distinct(s) /\ m \in Nat /\ m + 1 \in 1..m + 1
    BY <2>1, ListsFacts, RangeFacts
  <2>5. lastChild[p] = At(s, m + 1 - 1) /\ At(s, m + 1) = NoNode
    <3>1. lastChild[p] = At(s, m)
      BY <2>1 DEF Links
    <3>2. m + 1 - 1 = m /\ m + 1 \in Int /\ m + 1 \notin 1..m
      BY <2>4
    <3>3. QED
      BY <2>4, <3>1, <3>2, AtFacts
  <2>6. /\ ks2 \in [Node -> Seq(Node)] /\ ks2[p] = Ins(s, m + 1, n)
        /\ \A x \in Node : x # p => ks2[x] = kidsOf[x]
    BY <2>1, <2>4, InsFacts
  <2> DEFINE a == At(s, m + 1 - 1)
             b == At(s, m + 1)
             pa2 == up'
             fc2 == firstChild'
             lc2 == lastChild'
             pr2 == prev'
             nx2 == next'
  <2>7. a \in Node \cup {NoNode} /\ b = NoNode /\ n # NoNode /\ NoNode \notin Node
    BY <2>1, <2>3, <2>5, TreeAssumption
  <2>8. Put(l, kidsOf, p, m + 1, n, ks2)
    BY <1>1, <2>1, <2>4, <2>6 DEF Put
  <2> HIDE DEF ks2, s
  <2>9. /\ pa2 = [up EXCEPT ![n] = p] /\ pr2 = [prev EXCEPT ![n] = a]
        /\ nx2 = Nodes!Set([next EXCEPT ![n] = NoNode], a, n)
        /\ fc2 = Nodes!Set(firstChild, IF a = NoNode THEN p ELSE NoNode, n)
        /\ lc2 = [lastChild EXCEPT ![p] = n]
    BY <2>2, <2>5
  <2> HIDE DEF a, b, pa2, fc2, lc2, pr2, nx2
  <2>10. /\ nx2 \in [Node -> Node \cup {NoNode}]
         /\ \A x \in Node : nx2[x] = IF x = a THEN n ELSE IF x = n THEN b ELSE next[x]
    <3> DEFINE f == [next EXCEPT ![n] = NoNode]
    <3>1. f \in [Node -> Node \cup {NoNode}] /\ \A x \in Node : f[x] = IF x = n THEN b ELSE next[x]
      BY <2>3, <2>7
    <3>2. nx2 = Nodes!Set(f, a, n) /\ n \in Node \cup {NoNode} /\ a \in Node \cup {NoNode}
      BY <2>1, <2>7, <2>9
    <3> HIDE DEF f
    <3>3. /\ nx2 \in [Node -> Node \cup {NoNode}]
          /\ \A x \in Node : nx2[x] = IF x = a THEN n ELSE f[x]
      BY <3>1, <3>2, SetFacts
    <3>4. QED
      BY <3>1, <3>3
  <2>11. /\ fc2 \in [Node -> Node \cup {NoNode}]
         /\ \A x \in Node : fc2[x] = IF x = p /\ a = NoNode THEN n ELSE firstChild[x]
    <3> DEFINE y == IF a = NoNode THEN p ELSE NoNode
    <3>1. y \in Node \cup {NoNode} /\ \A x \in Node : x = y <=> x = p /\ a = NoNode
      BY <2>1, <2>7
    <3>2. fc2 = Nodes!Set(firstChild, y, n) /\ n \in Node \cup {NoNode}
      BY <2>1, <2>9
    <3> HIDE DEF y
    <3>3. /\ fc2 \in [Node -> Node \cup {NoNode}]
          /\ \A x \in Node : fc2[x] = IF x = y THEN n ELSE firstChild[x]
      BY <2>3, <3>1, <3>2, SetFacts
    <3>4. QED
      BY <3>1, <3>3
  <2>12. Linked(kidsOf, up, firstChild, lastChild, prev, next, p, m + 1, n, pa2, fc2, lc2, pr2, nx2)
    <3>1. pa2 \in [Node -> Node \cup {NoNode}] /\ pr2 \in [Node -> Node \cup {NoNode}]
          /\ lc2 \in [Node -> Node \cup {NoNode}]
      BY <2>1, <2>3, <2>7, <2>9
    <3>2. \A x \in Node :
            /\ pa2[x] = IF x = n THEN p ELSE up[x]
            /\ pr2[x] = IF x = b THEN n ELSE IF x = n THEN a ELSE prev[x]
            /\ lc2[x] = IF x = p /\ b = NoNode THEN n ELSE lastChild[x]
      BY <2>3, <2>7, <2>9
    <3>3. QED
      BY <2>10, <2>11, <3>1, <3>2 DEF Linked, a, b, s
  <2>13. Lists(l, ks2)
    BY <1>1, <2>1, <2>8, PutLists
  <2>14. Links(ks2, pa2, fc2, lc2, pr2, nx2)
    BY ONLY <2>1, <2>8, <2>12, LinkLinks
  <2>15. \A x \in l : type[x] = "document" => Top(On(ks2), x)
    <3>1. SUFFICES ASSUME NEW x \in l, type[x] = "document" PROVE Top(On(ks2), x)
      OBVIOUS
    <3>2. x # n /\ Top(On(kidsOf), x)
      BY <1>3, <2>1, <3>1
    <3>3. On(ks2)[p] = On(kidsOf)[p] \cup {n} /\ \A q \in Node : q # p => On(ks2)[q] = On(kidsOf)[q]
      <4>1. Range(Ins(s, m + 1, n)) = Range(s) \cup {n}
        BY ONLY <2>1, <2>4, InsFacts
      <4>2. QED
        BY <2>1, <2>6, <4>1 DEF On, s
    <3>4. QED
      BY <3>2, <3>3 DEF Top
  <2>16. Rep(ks2, type', value', up', firstChild', lastChild', prev', next')
    BY <2>1, <2>2, <2>13, <2>14, <2>15 DEF Rep, pa2, fc2, lc2, pr2, nx2
  <2>17. NodesInv' /\ kidsOf' = ks2
    BY <2>16, RepInv
  <2>18. Tree!LinkLast(p, n)
    <3>1. kidsOf' = [kidsOf EXCEPT ![p] = Append(kidsOf[p], n)]
      BY <2>1, <2>4, <2>17, SequenceCalls DEF ks2, s
    <3>2. p \notin Tree!Below(n)
      BY <1>1, <2>1
    <3>3. QED
      BY <1>1, <2>1, <2>2, <3>1, <3>2 DEF Tree!LinkLast, kidsOf
  <2>19. QED
    BY <1>1, <2>17, <2>18
<1>4. QED
  BY <1>2, <1>3

LEMMA StepRemove ==
  ASSUME NodesInv, NEW r \in Nodes!live, Nodes!RemoveChild(r)
  PROVE  NodesInv' /\ Tree!Drop(r)
<1> DEFINE p == up[r]
           s == kidsOf[p]
           l == Nodes!live
           D == Below(On(kidsOf), r)
           f0 == <<>>
<1>1. up[r] # NoNode
  BY DEF Nodes!RemoveChild
<1>2. p \in l /\ p \in Node /\ r \in Node
      /\ \E i \in 1..Len(s) : s[i] = r /\ prev[r] = At(s, i - 1) /\ next[r] = At(s, i + 1)
  BY <1>1, ChildPlace
<1>3. PICK i \in 1..Len(s) : s[i] = r /\ prev[r] = At(s, i - 1) /\ next[r] = At(s, i + 1)
  BY <1>2
<1>4. /\ Lists(l, kidsOf) /\ Links(kidsOf, up, firstChild, lastChild, prev, next)
      /\ l = DOMAIN type /\ l = DOMAIN value /\ Tree!live = l
      /\ Nodes!Below(r) = D /\ Tree!Below(r) = D
      /\ \A x \in l : type[x] = "document" => Top(On(kidsOf), x)
  BY <1>2, InvFacts
<1> DEFINE a == At(s, i - 1)
           b == At(s, i + 1)
           pa1 == [x \in Node |-> IF x = r THEN NoNode ELSE up[x]]
           pr1 == [x \in Node |-> IF x = r THEN NoNode ELSE IF x = b THEN a ELSE prev[x]]
           nx1 == [x \in Node |-> IF x = r THEN NoNode ELSE IF x = a THEN b ELSE next[x]]
           fc1 == [x \in Node |-> IF x = p /\ a = NoNode THEN b ELSE firstChild[x]]
           lc1 == [x \in Node |-> IF x = p /\ b = NoNode THEN a ELSE lastChild[x]]
           ks1 == [kidsOf EXCEPT ![p] = Rem(s, i)]
<1>5. kidsOf \in [Node -> Seq(Node)] /\ s \in Seq(Node) /\ Distinct(s) /\ i \in Int /\ i - 1 \in Int /\ i + 1 \in Int
  BY <1>2, <1>4, ListsFacts, RangeFacts
<1>6. a \in Node \cup {NoNode} /\ b \in Node \cup {NoNode} /\ NoNode \notin Node
  BY <1>5, AtFacts, TreeAssumption
<1>7. /\ up \in [Node -> Node \cup {NoNode}] /\ firstChild \in [Node -> Node \cup {NoNode}]
      /\ lastChild \in [Node -> Node \cup {NoNode}] /\ prev \in [Node -> Node \cup {NoNode}]
      /\ next \in [Node -> Node \cup {NoNode}]
  BY <1>4, PointerTypes
<1>8. /\ ks1 \in [Node -> Seq(Node)] /\ ks1[p] = Rem(s, i)
      /\ \A x \in Node : x # p => ks1[x] = kidsOf[x]
  BY <1>2, <1>5, RemFacts
<1>9. Taken(l, kidsOf, p, i, ks1)
  BY <1>2, <1>8 DEF Taken
<1>10. /\ type' = Nodes!Without(type, D) /\ value' = Nodes!Without(value, D)
       /\ up' = Nodes!Freed(up, D)
       /\ prev' = Nodes!Freed(Nodes!Set(prev, b, a), D)
       /\ next' = Nodes!Freed(Nodes!Set(next, a, b), D)
       /\ lastChild' = Nodes!Freed(Nodes!Set(lastChild, IF b = NoNode THEN p ELSE NoNode, a), D)
       /\ firstChild' = Nodes!Freed(Nodes!Set(firstChild, IF a = NoNode THEN p ELSE NoNode, b), D)
  BY <1>3, <1>4 DEF Nodes!RemoveChild
<1> HIDE DEF p, s, l, D, a, b, ks1
<1>11. r \in D /\ D \in SUBSET Node
  BY <1>2, <1>4, BelowFacts, ListsFacts DEF D
<1>12. Unlinked(kidsOf, up, firstChild, lastChild, prev, next, p, i, pa1, fc1, lc1, pr1, nx1)
  <2>1. /\ pa1 \in [Node -> Node \cup {NoNode}]
        /\ \A f \in {fc1, lc1, pr1, nx1} : f \in [Node -> Node \cup {NoNode}]
    BY <1>2, <1>6, <1>7
  <2>2. \A n \in Node :
          /\ pa1[n] = IF n = r THEN NoNode ELSE up[n]
          /\ pr1[n] = IF n = r THEN NoNode ELSE IF n = b THEN a ELSE prev[n]
          /\ nx1[n] = IF n = r THEN NoNode ELSE IF n = a THEN b ELSE next[n]
          /\ fc1[n] = IF n = p /\ a = NoNode THEN b ELSE firstChild[n]
          /\ lc1[n] = IF n = p /\ b = NoNode THEN a ELSE lastChild[n]
    OBVIOUS
  <2> HIDE DEF pa1, fc1, lc1, pr1, nx1
  <2>3. QED
    BY <1>3, <2>1, <2>2 DEF Unlinked, a, b, s
<1>13. Pruned(D, ks1, pa1, fc1, lc1, pr1, nx1)
  <2> DEFINE yl == IF b = NoNode THEN p ELSE NoNode
             yf == IF a = NoNode THEN p ELSE NoNode
             g1 == Nodes!Set(prev, b, a)
             g2 == Nodes!Set(next, a, b)
             g3 == Nodes!Set(lastChild, yl, a)
             g4 == Nodes!Set(firstChild, yf, b)
  <2>1. /\ yl \in Node \cup {NoNode} /\ \A x \in Node : x = yl <=> x = p /\ b = NoNode
        /\ yf \in Node \cup {NoNode} /\ \A x \in Node : x = yf <=> x = p /\ a = NoNode
    BY <1>2, <1>6
  <2>2. up' = Nodes!Freed(up, D) /\ prev' = Nodes!Freed(g1, D) /\ next' = Nodes!Freed(g2, D)
        /\ lastChild' = Nodes!Freed(g3, D) /\ firstChild' = Nodes!Freed(g4, D)
    BY <1>10
  <2> HIDE DEF yl, yf
  <2>3. g1 \in [Node -> Node \cup {NoNode}] /\ \A x \in Node : g1[x] = IF x = b THEN a ELSE prev[x]
    BY <1>6, <1>7, SetFacts
  <2>4. g2 \in [Node -> Node \cup {NoNode}] /\ \A x \in Node : g2[x] = IF x = a THEN b ELSE next[x]
    BY <1>6, <1>7, SetFacts
  <2>5. g3 \in [Node -> Node \cup {NoNode}] /\ \A x \in Node : g3[x] = IF x = yl THEN a ELSE lastChild[x]
    BY SMTT(30), <1>6, <1>7, <2>1, SetFacts
  <2>6. g4 \in [Node -> Node \cup {NoNode}] /\ \A x \in Node : g4[x] = IF x = yf THEN b ELSE firstChild[x]
    BY SMTT(30), <1>6, <1>7, <2>1, SetFacts
  <2> HIDE DEF g1, g2, g3, g4
  <2>7. /\ up' \in [Node -> Node \cup {NoNode}]
        /\ \A f \in {firstChild', lastChild', prev', next'} : f \in [Node -> Node \cup {NoNode}]
    BY <1>7, <2>2, <2>3, <2>4, <2>5, <2>6, FreedFacts
  <2>8. \A x \in Node :
          /\ up'[x] = IF x \in D THEN NoNode ELSE up[x]
          /\ firstChild'[x] = IF x \in D THEN NoNode ELSE g4[x]
          /\ lastChild'[x] = IF x \in D THEN NoNode ELSE g3[x]
          /\ prev'[x] = IF x \in D THEN NoNode ELSE g1[x]
          /\ next'[x] = IF x \in D THEN NoNode ELSE g2[x]
    BY <1>7, <2>2, <2>3, <2>4, <2>5, <2>6, FreedFacts
  <2>9. \A x \in Node \ D :
          /\ up[x] = pa1[x] /\ g4[x] = fc1[x] /\ g3[x] = lc1[x] /\ g1[x] = pr1[x] /\ g2[x] = nx1[x]
    BY <1>11, <2>1, <2>3, <2>4, <2>5, <2>6
  <2> HIDE DEF pa1, fc1, lc1, pr1, nx1
  <2>10. QED
    BY <2>7, <2>8, <2>9 DEF Pruned
<1> HIDE DEF pa1, fc1, lc1, pr1, nx1
<1>14. Lists(l, ks1) /\ Top(On(ks1), r) /\ \A n \in Node : On(ks1)[n] = On(kidsOf)[n] \ {r}
  <2>1. Lists(l, ks1) /\ Top(On(ks1), kidsOf[p][i]) /\ \A n \in Node : On(ks1)[n] = On(kidsOf)[n] \ {kidsOf[p][i]}
    BY <1>4, <1>9, TakenLists
  <2>2. kidsOf[p][i] = r
    BY <1>3 DEF s
  <2>3. QED
    BY <2>1, <2>2
<1>15. Links(ks1, pa1, fc1, lc1, pr1, nx1)
  BY ONLY <1>4, <1>9, <1>12, UnlinkLinks
<1>16. D \in SUBSET Node /\ Closed(On(ks1), D) /\ \A q \in Node \ D : On(ks1)[q] \cap D = {}
  <2>1. Shape(l, On(kidsOf)) /\ Shape(l, On(ks1))
    BY <1>4, <1>14 DEF Lists
  <2>2. p \notin D
    BY <1>1, NotBelow DEF p, D
  <2>3. \A q \in D : On(ks1)[q] = On(kidsOf)[q]
    BY <1>2, <1>8, <1>11, <2>2 DEF On
  <2>4. QED
    BY <1>2, <1>14, <2>1, <2>3, LooseBelow DEF D
<1>17. \A n \in l : type[n] = "document" => Top(On(ks1), n)
  BY <1>4, <1>14 DEF Top
<1>18. DOMAIN type' = l \ D /\ DOMAIN value' = l \ D /\ \A n \in l \ D : type'[n] = type[n]
  BY <1>10 DEF Nodes!Without, l
<1>19. NodesInv' /\ kidsOf' = Tree!Emptied(ks1, D)
  BY <1>13, <1>14, <1>15, <1>16, <1>17, <1>18, PrunedStep
<1>20. Tree!Drop(r)
  <2>1. value' = Tree!Without(value, D)
    BY <1>4, <1>10 DEF Nodes!Without, Tree!Without, l
  <2>2. p \in Tree!live /\ DOMAIN s = 1..Len(s)
    BY <1>2, <1>4, <1>5, RangeFacts
  <2>3. kidsOf' = [Tree!Emptied(kidsOf, D) EXCEPT ![p] = Tree!RemoveAt(s, i)]
    <3>1. p \notin D
      BY <1>1, NotBelow DEF p, D
    <3>2. Tree!RemoveAt(s, i) = Rem(s, i)
      BY <1>5, SequenceCalls
    <3>3. Tree!Emptied(ks1, D) = [Tree!Emptied(kidsOf, D) EXCEPT ![p] = Rem(s, i)]
      BY <1>2, <1>8, <3>1 DEF Tree!Emptied
    <3>4. QED
      BY <1>19, <3>2, <3>3
  <2>4. \E q \in Tree!live : \E j \in DOMAIN kidsOf[q] :
          kidsOf[q][j] = r /\ kidsOf' = [Tree!Emptied(kidsOf, D) EXCEPT ![q] = Tree!RemoveAt(kidsOf[q], j)]
    BY <1>3, <2>2, <2>3 DEF s
  <2>5. r \in Tree!live /\ value' = Tree!Without(value, Tree!Below(r))
        /\ \E q \in Tree!live : \E j \in DOMAIN kidsOf[q] :
             /\ kidsOf[q][j] = r
             /\ kidsOf' = [Tree!Emptied(kidsOf, Tree!Below(r)) EXCEPT ![q] = Tree!RemoveAt(kidsOf[q], j)]
    BY <1>4, <2>1, <2>4 DEF l
  <2>6. Tree!Drop(r) <=>
          /\ r \in Tree!live /\ value' = Tree!Without(value, Tree!Below(r))
          /\ \/ Tree!Alone(r) /\ kidsOf' = Tree!Emptied(kidsOf, Tree!Below(r))
             \/ \E q \in Tree!live : \E j \in DOMAIN kidsOf[q] :
                  /\ kidsOf[q][j] = r
                  /\ kidsOf' = [Tree!Emptied(kidsOf, Tree!Below(r)) EXCEPT ![q] = Tree!RemoveAt(kidsOf[q], j)]
    BY DEF Tree!Drop, kidsOf
  <2>7. QED
    BY <2>5, <2>6
<1>21. QED
  BY <1>19, <1>20

LEMMA StepClear ==
  ASSUME NodesInv, NEW p \in Nodes!live, Nodes!Clear(p)
  PROVE  NodesInv' /\ Tree!DropKids(p)
<1> DEFINE l == Nodes!live
           c == On(kidsOf)
           B == Below(c, p)
           D == B \ {p}
           pa1 == [x \in Node |-> IF x \in c[p] THEN NoNode ELSE up[x]]
           pr1 == [x \in Node |-> IF x \in c[p] THEN NoNode ELSE prev[x]]
           nx1 == [x \in Node |-> IF x \in c[p] THEN NoNode ELSE next[x]]
           fc1 == [x \in Node |-> IF x = p THEN NoNode ELSE firstChild[x]]
           lc1 == [x \in Node |-> IF x = p THEN NoNode ELSE lastChild[x]]
           ks1 == [x \in Node |-> IF x = p THEN <<>> ELSE kidsOf[x]]
<1>1. /\ Lists(l, kidsOf) /\ Links(kidsOf, up, firstChild, lastChild, prev, next)
      /\ l = DOMAIN type /\ l = DOMAIN value /\ Tree!live = l
      /\ p \in Node /\ Nodes!Below(p) = B /\ Tree!Below(p) = B
      /\ \A x \in l : type[x] = "document" => Top(c, x)
  <2>1. p \in Node
    BY InvFacts, ListsFacts
  <2>2. QED
    BY <2>1, InvFacts
<1>2. /\ kidsOf \in [Node -> Seq(Node)] /\ c \in [Node -> SUBSET Node] /\ Shape(l, c)
  BY <1>1, ListsFacts DEF Lists
<1>3. /\ up \in [Node -> Node \cup {NoNode}] /\ firstChild \in [Node -> Node \cup {NoNode}]
      /\ lastChild \in [Node -> Node \cup {NoNode}] /\ prev \in [Node -> Node \cup {NoNode}]
      /\ next \in [Node -> Node \cup {NoNode}]
  BY <1>1, PointerTypes
<1>4. /\ type' = Nodes!Without(type, D) /\ value' = Nodes!Without(value, D)
      /\ up' = Nodes!Freed(up, D) /\ prev' = Nodes!Freed(prev, D) /\ next' = Nodes!Freed(next, D)
      /\ firstChild' = Nodes!Freed(firstChild, D \cup {p}) /\ lastChild' = Nodes!Freed(lastChild, D \cup {p})
  BY <1>1 DEF Nodes!Clear
<1> HIDE DEF l, c, B, ks1
<1>5. p \in B /\ B \in SUBSET Node /\ Closed(c, B)
  BY <1>1, <1>2, BelowFacts DEF B
<1>6. \A q \in B : p \notin c[q]
  <2>1. ASSUME NEW q \in B, p \in c[q] PROVE FALSE
    <3>1. q \in Node /\ q \notin Below(c, p)
      BY <1>2, <1>5, <2>1, ShapeAcyclic
    <3>2. QED
      BY <3>1 DEF B
  <2>2. QED
    BY <2>1
<1>7. c[p] \subseteq D
  BY <1>5, <1>6 DEF Closed
<1>8. Pruned(D, ks1, pa1, fc1, lc1, pr1, nx1)
  <2>1. /\ up' \in [Node -> Node \cup {NoNode}]
        /\ \A f \in {firstChild', lastChild', prev', next'} : f \in [Node -> Node \cup {NoNode}]
    BY <1>3, <1>4, FreedFacts
  <2>2. \A x \in Node :
          /\ up'[x] = IF x \in D THEN NoNode ELSE up[x]
          /\ firstChild'[x] = IF x \in D \cup {p} THEN NoNode ELSE firstChild[x]
          /\ lastChild'[x] = IF x \in D \cup {p} THEN NoNode ELSE lastChild[x]
          /\ prev'[x] = IF x \in D THEN NoNode ELSE prev[x]
          /\ next'[x] = IF x \in D THEN NoNode ELSE next[x]
    BY <1>3, <1>4, FreedFacts
  <2>3. \A x \in Node \ D : up[x] = pa1[x] /\ prev[x] = pr1[x] /\ next[x] = nx1[x]
    BY <1>7
  <2>4. \A x \in Node : /\ fc1[x] = (IF x = p THEN NoNode ELSE firstChild[x])
                        /\ lc1[x] = (IF x = p THEN NoNode ELSE lastChild[x])
    OBVIOUS
  <2> HIDE DEF pa1, fc1, lc1, pr1, nx1, D
  <2>5. QED
    BY <2>1, <2>2, <2>3, <2>4 DEF Pruned
<1>9. Cut(l, kidsOf, up, firstChild, lastChild, prev, next, p, ks1, pa1, fc1, lc1, pr1, nx1)
  <2>1. <<>> \in Seq(Node) /\ p \in l
    BY DEF l
  <2>2. /\ ks1 \in [Node -> Seq(Node)] /\ ks1[p] = <<>>
        /\ \A n \in Node : n # p => ks1[n] = kidsOf[n]
    BY <1>1, <1>2, <2>1 DEF ks1
  <2>3. /\ pa1 \in [Node -> Node \cup {NoNode}]
        /\ \A f \in {fc1, lc1, pr1, nx1} : f \in [Node -> Node \cup {NoNode}]
    BY <1>3
  <2>4. /\ fc1[p] = NoNode /\ lc1[p] = NoNode
        /\ \A n \in Node : n # p => fc1[n] = firstChild[n] /\ lc1[n] = lastChild[n]
    BY <1>1
  <2>5. c[p] \subseteq Node
    BY <1>1, <1>2
  <2>6. \A n \in c[p] : pa1[n] = NoNode /\ pr1[n] = NoNode /\ nx1[n] = NoNode
    BY <2>5
  <2>7. \A n \in Node \ c[p] : pa1[n] = up[n] /\ pr1[n] = prev[n] /\ nx1[n] = next[n]
    OBVIOUS
  <2> HIDE DEF pa1, fc1, lc1, pr1, nx1
  <2>8. QED
    BY <2>1, <2>2, <2>3, <2>4, <2>6, <2>7 DEF Cut, c
<1> HIDE DEF pa1, fc1, lc1, pr1, nx1
<1>10. Lists(l, ks1) /\ Links(ks1, pa1, fc1, lc1, pr1, nx1) /\ ListCut(kidsOf, p, ks1)
  BY ONLY <1>1, <1>9, CutSound
<1>11. On(ks1)[p] = {} /\ \A n \in Node : n # p => On(ks1)[n] = c[n]
  BY <1>10 DEF ListCut, c
<1>12. D \in SUBSET Node /\ Closed(On(ks1), D) /\ \A q \in Node \ D : On(ks1)[q] \cap D = {}
  <2>1. D \in SUBSET Node
    BY <1>5
  <2>2. Closed(On(ks1), D)
    BY <1>5, <1>6, <1>11, <2>1 DEF Closed
  <2>3. ASSUME NEW q \in Node \ D, NEW x \in On(ks1)[q], x \in D PROVE FALSE
    <3>1. q # p
      BY <1>11, <2>3
    <3>2. x \in c[q] /\ q \notin B
      BY <1>11, <2>3, <3>1
    <3>3. PICK y \in B : x \in c[y]
      BY <1>1, <1>2, <2>3, BelowParent DEF B
    <3>4. y = q
      BY <1>2, <1>5, <3>2, <3>3 DEF Shape
    <3>5. QED
      BY <3>2, <3>4
  <2>4. QED
    BY <2>1, <2>2, <2>3
<1>13. \A n \in l : type[n] = "document" => Top(On(ks1), n)
  BY <1>1, <1>11 DEF Top
<1>14. DOMAIN type' = l \ D /\ DOMAIN value' = l \ D /\ \A n \in l \ D : type'[n] = type[n]
  BY <1>4 DEF Nodes!Without, l
<1>15. NodesInv' /\ kidsOf' = Tree!Emptied(ks1, D)
  <2> HIDE DEF D
  <2>1. QED
    BY <1>8, <1>10, <1>12, <1>13, <1>14, PrunedStep
<1>16. Tree!DropKids(p)
  <2>1. value' = Tree!Without(value, D)
    BY <1>1, <1>4 DEF Nodes!Without, Tree!Without, l
  <2>2. Tree!Emptied(ks1, D) = Tree!Emptied(kidsOf, D \cup {p})
    BY DEF Tree!Emptied, ks1
  <2>3. p \in Tree!live /\ D = Tree!Below(p) \ {p}
    BY <1>1 DEF l
  <2> HIDE DEF D
  <2>4. Tree!DropKids(p) <=>
          /\ p \in Tree!live
          /\ value' = Tree!Without(value, Tree!Below(p) \ {p})
          /\ kidsOf' = Tree!Emptied(kidsOf, (Tree!Below(p) \ {p}) \cup {p})
    BY DEF Tree!DropKids, kidsOf
  <2>5. QED
    BY <1>15, <2>1, <2>2, <2>3, <2>4
<1>17. QED
  BY <1>15, <1>16

(* The copy is made: a tree of its own beside what there was.                *)
LEMMA CopyMade ==
  ASSUME NodesInv, NEW n, NEW copy, NEW D, NEW R, CopyOf(n, copy, D, R)
  PROVE  LET ks1 == Tree!CopiedKids(copy)
             l == Nodes!live
         IN /\ Lists(l \cup R, ks1)
            /\ Links(ks1, Nodes!Copied(up, copy), Nodes!Copied(firstChild, copy), Nodes!Copied(lastChild, copy),
                     Nodes!Copied(prev, copy), Nodes!Copied(next, copy))
            /\ copy[n] \in R /\ R \subseteq Node /\ R \cap l = {} /\ l \subseteq Node
            /\ Top(On(ks1), copy[n])
            /\ Below(On(ks1), copy[n]) \subseteq R
            /\ \A q \in Node \ R : ks1[q] = kidsOf[q] /\ On(ks1)[q] = On(kidsOf)[q]
            /\ \A m \in l : Top(On(kidsOf), m) => Top(On(ks1), m)
<1> DEFINE ks1 == Tree!CopiedKids(copy)
           l == Nodes!live
           pa1 == Nodes!Copied(up, copy)
           fc1 == Nodes!Copied(firstChild, copy)
           lc1 == Nodes!Copied(lastChild, copy)
           pr1 == Nodes!Copied(prev, copy)
           nx1 == Nodes!Copied(next, copy)
<1>1. /\ Lists(l, kidsOf) /\ Links(kidsOf, up, firstChild, lastChild, prev, next)
      /\ D = Below(On(kidsOf), n)
  BY InvFacts DEF CopyOf
<1>2. /\ up \in [Node -> Node \cup {NoNode}] /\ firstChild \in [Node -> Node \cup {NoNode}]
      /\ lastChild \in [Node -> Node \cup {NoNode}] /\ prev \in [Node -> Node \cup {NoNode}]
      /\ next \in [Node -> Node \cup {NoNode}]
  BY <1>1, PointerTypes
<1>3. /\ CopiedPointer(D, copy, R, up, pa1) /\ CopiedPointer(D, copy, R, firstChild, fc1)
      /\ CopiedPointer(D, copy, R, lastChild, lc1) /\ CopiedPointer(D, copy, R, prev, pr1)
      /\ CopiedPointer(D, copy, R, next, nx1)
  BY <1>2, CopiedIs
<1>4. CopiedLists(kidsOf, D, copy, R, ks1) /\ Copying(l, On(kidsOf), n, copy, R)
  BY CopiedKidsAre, CopiesAre
<1> HIDE DEF ks1, l, pa1, fc1, lc1, pr1, nx1
<1>5. /\ Lists(l \cup R, ks1) /\ Top(On(ks1), copy[n]) /\ Below(On(ks1), copy[n]) \subseteq R
      /\ CopiedSets(On(kidsOf), D, copy, R, On(ks1))
  <2>1. CopiedLists(kidsOf, Below(On(kidsOf), n), copy, R, ks1)
    BY <1>1, <1>4
  <2>2. /\ Lists(l \cup R, ks1) /\ Top(On(ks1), copy[n]) /\ Below(On(ks1), copy[n]) \subseteq R
        /\ CopiedSets(On(kidsOf), Below(On(kidsOf), n), copy, R, On(ks1))
    BY ONLY <1>1, <1>4, <2>1, CopyLists
  <2>3. QED
    BY <1>1, <2>2
<1>6. Links(ks1, pa1, fc1, lc1, pr1, nx1)
  BY ONLY <1>1, <1>3, <1>4, CopyLinks
<1>7. /\ n \in D /\ D \subseteq l /\ l \subseteq Node /\ R \subseteq Node /\ R \cap l = {}
      /\ \A x \in D : copy[x] \in R
      /\ \A q \in R : \E x \in D : q = copy[x]
  BY <1>1, <1>4, CopyingFacts
<1>8. \A q \in Node \ R : ks1[q] = kidsOf[q] /\ On(ks1)[q] = On(kidsOf)[q]
  BY <1>4, <1>5 DEF CopiedLists, CopiedSets
<1>9. ASSUME NEW m \in l, Top(On(kidsOf), m) PROVE Top(On(ks1), m)
  <2>1. ASSUME NEW q \in Node, m \in On(ks1)[q] PROVE FALSE
    <3>1. q \in R
      BY <1>8, <1>9, <2>1 DEF Top
    <3>2. PICK x \in D : q = copy[x]
      BY <1>7, <3>1
    <3>3. On(ks1)[q] = {copy[y] : y \in On(kidsOf)[x]}
      BY <1>5, <3>2 DEF CopiedSets
    <3>4. PICK y \in On(kidsOf)[x] : m = copy[y]
      BY <2>1, <3>3
    <3>5. y \in D
      <4>1. Closed(On(kidsOf), D)
        BY <1>1, <1>4, CopyingFacts
      <4>2. QED
        BY <3>2, <3>4, <4>1 DEF Closed
    <3>6. m \in R
      BY <1>7, <3>4, <3>5
    <3>7. QED
      BY <1>7, <1>9, <3>6
  <2>2. QED
    BY <2>1 DEF Top
<1>10. QED
  BY <1>5, <1>6, <1>7, <1>8, <1>9 DEF ks1, l, pa1, fc1, lc1, pr1, nx1

(* What the nodes hold after a copy, when those of gone are not kept.        *)
Held(n, copy, R, gone, ty1, va1) ==
  /\ DOMAIN ty1 = (Nodes!live \cup R) \ gone /\ DOMAIN va1 = (Nodes!live \cup R) \ gone
  /\ \A m \in Nodes!live \ gone : ty1[m] = type[m]
  /\ \A m \in R : ty1[m] = "document" => m = copy[n] /\ type[n] = "document"
  /\ va1 = Tree!Without(Tree!CopiedValue(copy), gone)

LEMMA DataIs ==
  ASSUME NodesInv, NEW n, NEW copy, NEW D, NEW R, CopyOf(n, copy, D, R), NEW gone, gone \subseteq Nodes!live
  PROVE  Held(n, copy, R, gone, Nodes!Data(type, copy, gone), Nodes!Data(value, copy, gone))
<1> DEFINE l == Nodes!live
<1>1. /\ Lists(l, kidsOf) /\ Tree!live = l
      /\ \A m \in l : type[m] = "document" => Top(On(kidsOf), m)
  BY InvFacts
<1>2. /\ Nodes!Range(copy) = R /\ Tree!Range(copy) = R
      /\ \A x \in D : Nodes!Source(copy, copy[x]) = x /\ Tree!Original(copy, copy[x]) = x
      /\ Copying(l, On(kidsOf), n, copy, R) /\ D = Below(On(kidsOf), n)
  BY CopiesAre DEF CopyOf
<1>3. /\ n \in D /\ D \subseteq l /\ l \subseteq Node /\ R \subseteq Node /\ R \cap l = {}
      /\ \A q \in R : \E x \in D : q = copy[x]
  BY <1>1, <1>2, CopyingFacts
<1>4. \A m \in R : Nodes!Source(copy, m) = Tree!Original(copy, m)
  BY <1>2, <1>3
<1>5. ASSUME NEW m \in R, Nodes!Data(type, copy, gone)[m] = "document"
      PROVE  m = copy[n] /\ type[n] = "document"
  <2>1. PICK x \in D : m = copy[x]
    BY <1>3
  <2>2. m \in (l \cup R) \ gone /\ m \notin l
    BY <1>3
  <2>3. Nodes!Data(type, copy, gone)[m] = type[x]
    BY <1>2, <2>1, <2>2 DEF Nodes!Data
  <2>4. x = n
    <3>1. SUFFICES ASSUME x # n PROVE FALSE
      OBVIOUS
    <3>2. On(kidsOf) \in [Node -> SUBSET Node] /\ n \in Node /\ D \subseteq Node
      BY <1>1, <1>3, ListsFacts
    <3>3. PICK q \in D : x \in On(kidsOf)[q]
      BY <1>2, <3>1, <3>2, BelowParent
    <3>4. QED
      BY <1>1, <1>3, <1>5, <2>3, <3>2, <3>3 DEF Top
  <2>5. QED
    BY <1>5, <2>1, <2>3, <2>4
<1>6. /\ DOMAIN Nodes!Data(type, copy, gone) = (l \cup R) \ gone
      /\ DOMAIN Nodes!Data(value, copy, gone) = (l \cup R) \ gone
      /\ \A m \in l \ gone : Nodes!Data(type, copy, gone)[m] = type[m]
  BY <1>2 DEF Nodes!Data
<1>7. Tree!CopiedValue(copy) =
        [m \in l \cup R |-> IF m \in l THEN value[m] ELSE value[Nodes!Source(copy, m)]]
  BY <1>1, <1>2, <1>4 DEF Tree!CopiedValue
<1>8. Nodes!Data(value, copy, gone) = Tree!Without(Tree!CopiedValue(copy), gone)
  BY <1>2, <1>7 DEF Nodes!Data, Tree!Without
<1>9. QED
  BY <1>5, <1>6, <1>8 DEF Held

LEMMA DataAll ==
  ASSUME NodesInv, NEW n, NEW copy, NEW D, NEW R, CopyOf(n, copy, D, R),
         type' = Nodes!Data(type, copy, {}), value' = Nodes!Data(value, copy, {})
  PROVE  /\ DOMAIN type' = Nodes!live \cup R /\ DOMAIN value' = Nodes!live \cup R
         /\ \A m \in Nodes!live : type'[m] = type[m]
         /\ \A m \in R : type'[m] = "document" => m = copy[n] /\ type[n] = "document"
         /\ value' = Tree!CopiedValue(copy)
<1> DEFINE gone == {}
           l == Nodes!live
<1>1. gone \subseteq l /\ (l \cup R) \ gone = l \cup R /\ l \ gone = l
  OBVIOUS
<1>2. type' = Nodes!Data(type, copy, gone) /\ value' = Nodes!Data(value, copy, gone)
  OBVIOUS
<1>3. DOMAIN Tree!CopiedValue(copy) = l \cup R
  <2>1. Tree!Range(copy) = R /\ Tree!live = l
    BY CopiesAre, InvFacts
  <2>2. QED
    BY <2>1 DEF Tree!CopiedValue
<1>4. Tree!Without(Tree!CopiedValue(copy), gone) = Tree!CopiedValue(copy)
  <2>1. Tree!CopiedValue(copy) = [m \in DOMAIN Tree!CopiedValue(copy) |-> Tree!CopiedValue(copy)[m]]
    BY DEF Tree!CopiedValue
  <2>2. QED
    BY <2>1 DEF Tree!Without
<1> HIDE DEF gone, l
<1>5. Held(n, copy, R, gone, type', value')
  BY <1>1, <1>2, DataIs DEF l
<1>6. QED
  BY <1>1, <1>4, <1>5 DEF Held, l

LEMMA StepClone ==
  ASSUME NodesInv, NEW n \in Nodes!live, NEW copy \in Nodes!Copies(n), Nodes!Clone(n, copy)
  PROVE  NodesInv' /\ Tree!Copy(n, copy)
<1> DEFINE D == Below(On(kidsOf), n)
           R == Range(copy)
           l == Nodes!live
           ks1 == Tree!CopiedKids(copy)
<1>1. CopyOf(n, copy, D, R)
  BY DEF CopyOf
<1>2. /\ type' = Nodes!Data(type, copy, {}) /\ value' = Nodes!Data(value, copy, {})
      /\ up' = Nodes!Copied(up, copy) /\ firstChild' = Nodes!Copied(firstChild, copy)
      /\ lastChild' = Nodes!Copied(lastChild, copy) /\ prev' = Nodes!Copied(prev, copy)
      /\ next' = Nodes!Copied(next, copy)
  BY DEF Nodes!Clone, Nodes!Cloned
<1> HIDE DEF D, R
<1>3. /\ Lists(l \cup R, ks1)
      /\ Links(ks1, up', firstChild', lastChild', prev', next')
      /\ Top(On(ks1), copy[n]) /\ \A m \in l : Top(On(kidsOf), m) => Top(On(ks1), m)
  BY <1>1, <1>2, CopyMade
<1>4. /\ DOMAIN type' = l \cup R /\ DOMAIN value' = l \cup R
      /\ \A m \in l : type'[m] = type[m]
      /\ \A m \in R : type'[m] = "document" => m = copy[n]
      /\ value' = Tree!CopiedValue(copy)
  <2>1. type' = Nodes!Data(type, copy, {}) /\ value' = Nodes!Data(value, copy, {})
    BY <1>2
  <2>2. /\ DOMAIN type' = Nodes!live \cup R /\ DOMAIN value' = Nodes!live \cup R
        /\ \A m \in Nodes!live : type'[m] = type[m]
        /\ \A m \in R : type'[m] = "document" => m = copy[n] /\ type[n] = "document"
        /\ value' = Tree!CopiedValue(copy)
    BY ONLY NodesInv, <1>1, <2>1, DataAll
  <2>3. QED
    BY <2>2
<1>5. \A m \in l : type[m] = "document" => Top(On(kidsOf), m)
  BY InvFacts
<1> HIDE DEF ks1, l
<1>6. Rep(ks1, type', value', up', firstChild', lastChild', prev', next')
  BY <1>3, <1>4, <1>5 DEF Rep
<1>7. NodesInv' /\ kidsOf' = ks1
  BY <1>6, RepInv
<1>8. n \in Tree!live
  BY InvFacts
<1>9. Tree!Copy(n, copy)
  BY <1>4, <1>7, <1>8 DEF Tree!Copy, kidsOf, ks1
<1>10. QED
  BY <1>7, <1>9

(* A copy between the children of a node.                                    *)
LEMMA StepBetween ==
  ASSUME NodesInv, NEW n \in Nodes!live, NEW copy \in Nodes!Copies(n),
         NEW p \in Nodes!live, NEW i \in 1..Len(kidsOf[p]) + 1,
         NEW a, a = At(kidsOf[p], i - 1), NEW b, b = At(kidsOf[p], i),
         type[n] # "document", Nodes!Cloned(copy), Nodes!Between(p, a, copy[n], b, copy)
  PROVE  NodesInv' /\ Tree!Copy(n, copy)
<1> DEFINE D == Below(On(kidsOf), n)
           R == Range(copy)
           l == Nodes!live
           s == kidsOf[p]
           k == copy[n]
           ks1 == Tree!CopiedKids(copy)
           ks2 == [ks1 EXCEPT ![p] = Ins(s, i, k)]
           pa1 == Nodes!Copied(up, copy)
           fc1 == Nodes!Copied(firstChild, copy)
           lc1 == Nodes!Copied(lastChild, copy)
           pr1 == Nodes!Copied(prev, copy)
           nx1 == Nodes!Copied(next, copy)
           pa2 == up'
           fc2 == firstChild'
           lc2 == lastChild'
           pr2 == prev'
           nx2 == next'
           f == [pr1 EXCEPT ![k] = a]
           g == [nx1 EXCEPT ![k] = b]
           yf == IF a = NoNode THEN p ELSE NoNode
           yl == IF b = NoNode THEN p ELSE NoNode
<1>1. CopyOf(n, copy, D, R)
  BY DEF CopyOf
<1>2. /\ type' = Nodes!Data(type, copy, {}) /\ value' = Nodes!Data(value, copy, {})
      /\ pa2 = [pa1 EXCEPT ![k] = p]
      /\ pr2 = Nodes!Set(f, b, k) /\ nx2 = Nodes!Set(g, a, k)
      /\ fc2 = Nodes!Set(fc1, yf, k) /\ lc2 = Nodes!Set(lc1, yl, k)
  BY DEF Nodes!Cloned, Nodes!Between
<1> HIDE DEF D, R
<1>3. /\ Lists(l \cup R, ks1)
      /\ Links(ks1, pa1, fc1, lc1, pr1, nx1)
      /\ k \in R /\ R \subseteq Node /\ R \cap l = {} /\ l \subseteq Node
      /\ Top(On(ks1), k)
      /\ Below(On(ks1), k) \subseteq R
      /\ \A q \in Node \ R : ks1[q] = kidsOf[q] /\ On(ks1)[q] = On(kidsOf)[q]
      /\ \A m \in l : Top(On(kidsOf), m) => Top(On(ks1), m)
  BY <1>1, CopyMade
<1>4. /\ DOMAIN type' = l \cup R /\ DOMAIN value' = l \cup R
      /\ \A m \in l : type'[m] = type[m]
      /\ \A m \in R : type'[m] # "document"
      /\ value' = Tree!CopiedValue(copy)
  <2>1. type' = Nodes!Data(type, copy, {}) /\ value' = Nodes!Data(value, copy, {})
    BY <1>2
  <2>2. /\ DOMAIN type' = Nodes!live \cup R /\ DOMAIN value' = Nodes!live \cup R
        /\ \A m \in Nodes!live : type'[m] = type[m]
        /\ \A m \in R : type'[m] = "document" => m = copy[n] /\ type[n] = "document"
        /\ value' = Tree!CopiedValue(copy)
    BY ONLY NodesInv, <1>1, <2>1, DataAll
  <2>3. QED
    BY <2>2
<1>5. \A m \in l : type[m] = "document" => Top(On(kidsOf), m)
  BY InvFacts
<1>6. /\ pa1 \in [Node -> Node \cup {NoNode}] /\ fc1 \in [Node -> Node \cup {NoNode}]
      /\ lc1 \in [Node -> Node \cup {NoNode}] /\ pr1 \in [Node -> Node \cup {NoNode}]
      /\ nx1 \in [Node -> Node \cup {NoNode}]
  BY <1>3, PointerTypes
<1>7. p \in Node /\ k \in Node /\ p \notin R /\ ks1[p] = s /\ p \in l
  BY <1>3
<1>8. s \in Seq(Node) /\ Distinct(s) /\ ks1 \in [Node -> Seq(Node)] /\ i \in Int /\ i - 1 \in Int /\ i \in 1..Len(s) + 1
  <2>1. s \in Seq(Node) /\ Distinct(s) /\ ks1 \in [Node -> Seq(Node)]
    BY <1>3, <1>7, ListsFacts
  <2>2. Len(s) \in Nat
    BY <2>1, RangeFacts
  <2>3. QED
    BY <2>1, <2>2
<1>9. a \in Node \cup {NoNode} /\ b \in Node \cup {NoNode} /\ NoNode \notin Node
  BY <1>8, AtFacts, TreeAssumption
<1> HIDE DEF ks1, l, s, k, pa1, fc1, lc1, pr1, nx1, pa2, fc2, lc2, pr2, nx2
<1>10. k # b /\ k # a
  <2>1. \A x \in Int : At(s, x) # NoNode => At(s, x) \in On(kidsOf)[p]
    <3>1. \A j \in 1..Len(s) : s[j] \in Range(s)
      BY <1>8, RangeFacts
    <3>2. On(kidsOf)[p] = Range(s)
      BY <1>7 DEF On, s
    <3>3. QED
      BY <1>8, <3>1, <3>2 DEF At
  <2>2. k \notin On(kidsOf)[p]
    BY <1>3, <1>7 DEF Top
  <2>3. QED
    BY <1>7, <1>8, <1>9, <2>1, <2>2 DEF s
<1>11. /\ ks2 \in [Node -> Seq(Node)] /\ ks2[p] = Ins(s, i, k)
       /\ \A x \in Node : x # p => ks2[x] = ks1[x]
  BY <1>7, <1>8, InsFacts
<1> HIDE DEF ks2
<1>12. Put(l \cup R, ks1, p, i, k, ks2)
  BY <1>3, <1>7, <1>8, <1>11 DEF Put
<1>13. Linked(ks1, pa1, fc1, lc1, pr1, nx1, p, i, k, pa2, fc2, lc2, pr2, nx2)
  <2>1. /\ f \in [Node -> Node \cup {NoNode}] /\ \A x \in Node : f[x] = IF x = k THEN a ELSE pr1[x]
        /\ g \in [Node -> Node \cup {NoNode}] /\ \A x \in Node : g[x] = IF x = k THEN b ELSE nx1[x]
    BY <1>6, <1>9
  <2>2. /\ yf \in Node \cup {NoNode} /\ \A x \in Node : x = yf <=> x = p /\ a = NoNode
        /\ yl \in Node \cup {NoNode} /\ \A x \in Node : x = yl <=> x = p /\ b = NoNode
    BY <1>7, <1>9
  <2>3. /\ pa2 \in [Node -> Node \cup {NoNode}] /\ \A x \in Node : pa2[x] = IF x = k THEN p ELSE pa1[x]
    BY <1>2, <1>6, <1>7
  <2> HIDE DEF f, g, yf, yl
  <2>4. k \in Node \cup {NoNode}
    BY <1>7
  <2>5. /\ pr2 \in [Node -> Node \cup {NoNode}] /\ \A x \in Node : pr2[x] = IF x = b THEN k ELSE f[x]
    BY ONLY <1>2, <1>9, <2>1, <2>4, SetFacts
  <2>6. /\ nx2 \in [Node -> Node \cup {NoNode}] /\ \A x \in Node : nx2[x] = IF x = a THEN k ELSE g[x]
    BY ONLY <1>2, <1>9, <2>1, <2>4, SetFacts
  <2>7. /\ fc2 \in [Node -> Node \cup {NoNode}] /\ \A x \in Node : fc2[x] = IF x = yf THEN k ELSE fc1[x]
    <3>1. fc2 = Nodes!Set(fc1, yf, k) /\ fc1 \in [Node -> Node \cup {NoNode}] /\ yf \in Node \cup {NoNode}
      BY <1>2, <1>6, <2>2
    <3>2. QED
      BY ONLY <2>4, <3>1, SetFacts
  <2>8. /\ lc2 \in [Node -> Node \cup {NoNode}] /\ \A x \in Node : lc2[x] = IF x = yl THEN k ELSE lc1[x]
    <3>1. lc2 = Nodes!Set(lc1, yl, k) /\ lc1 \in [Node -> Node \cup {NoNode}] /\ yl \in Node \cup {NoNode}
      BY <1>2, <1>6, <2>2
    <3>2. QED
      BY ONLY <2>4, <3>1, SetFacts
  <2>9. a = At(ks1[p], i - 1) /\ b = At(ks1[p], i)
    BY <1>7 DEF s
  <2>10. QED
    BY <2>1, <2>2, <2>3, <2>5, <2>6, <2>7, <2>8, <2>9 DEF Linked
<1>14. Links(ks2, pa2, fc2, lc2, pr2, nx2)
  BY ONLY <1>3, <1>12, <1>13, LinkLinks
<1>15. Lists(l \cup R, ks2)
  <2>1. p \notin Below(On(ks1), k)
    BY <1>3, <1>7
  <2>2. QED
    BY <1>3, <1>12, <2>1, PutLists
<1>16. \A m \in l \cup R : type'[m] = "document" => Top(On(ks2), m)
  <2>1. SUFFICES ASSUME NEW m \in l \cup R, type'[m] = "document" PROVE Top(On(ks2), m)
    OBVIOUS
  <2>2. m \in l /\ type[m] = "document" /\ Top(On(ks1), m)
    BY <1>3, <1>4, <1>5, <2>1
  <2>3. m # k
    BY <1>3, <2>2
  <2>4. Range(Ins(s, i, k)) = Range(s) \cup {k}
    BY ONLY <1>7, <1>8, InsFacts
  <2>5. On(ks2)[p] = On(ks1)[p] \cup {k} /\ \A q \in Node : q # p => On(ks2)[q] = On(ks1)[q]
    BY <1>7, <1>11, <2>4 DEF On
  <2>6. QED
    BY <1>7, <2>2, <2>3, <2>5 DEF Top
<1>17. Rep(ks2, type', value', up', firstChild', lastChild', prev', next')
  BY <1>4, <1>14, <1>15, <1>16 DEF Rep, pa2, fc2, lc2, pr2, nx2
<1>18. NodesInv' /\ kidsOf' = ks2
  BY <1>17, RepInv
<1>19. n \in Tree!live /\ p \in Tree!live
  BY InvFacts
<1>20. Tree!Copy(n, copy)
  <2>1. kidsOf' = [Tree!CopiedKids(copy) EXCEPT ![p] = Tree!InsertAt(kidsOf[p], i, copy[n])]
    BY <1>7, <1>8, <1>18, SequenceCalls DEF ks2, ks1, s, k
  <2>2. \E q \in Tree!live : \E j \in 1..Len(kidsOf[q]) + 1 :
          kidsOf' = [Tree!CopiedKids(copy) EXCEPT ![q] = Tree!InsertAt(kidsOf[q], j, copy[n])]
    BY <1>19, <2>1
  <2>3. Tree!Copy(n, copy) <=>
          /\ n \in Tree!live /\ value' = Tree!CopiedValue(copy)
          /\ \/ kidsOf' = Tree!CopiedKids(copy)
             \/ \E q \in Tree!live : \E j \in 1..Len(kidsOf[q]) + 1 :
                  kidsOf' = [Tree!CopiedKids(copy) EXCEPT ![q] = Tree!InsertAt(kidsOf[q], j, copy[n])]
    BY DEF Tree!Copy, kidsOf
  <2>4. QED
    BY <1>4, <1>19, <2>2, <2>3
<1>21. QED
  BY <1>18, <1>20

LEMMA StepNone ==
  ASSUME NodesInv, UNCHANGED <<type, value, up, firstChild, lastChild, prev, next>>
  PROVE  NodesInv' /\ UNCHANGED Tree!treeVars
<1>1. Rep(kidsOf, type', value', up', firstChild', lastChild', prev', next')
  BY DEF NodesInv
<1>2. NodesInv' /\ kidsOf' = kidsOf
  BY <1>1, RepInv
<1>3. UNCHANGED Tree!treeVars
  BY <1>2 DEF Tree!treeVars, kidsOf
<1>4. QED
  BY <1>2, <1>3

LEMMA StepRefuse ==
  ASSUME NodesInv, NEW p, Nodes!Refuse(p)
  PROVE  NodesInv' /\ UNCHANGED Tree!treeVars
  BY StepNone DEF Nodes!Refuse, Nodes!pointers

(* n is refused, or a copy of it put between the (i-1)-th child of p and the *)
(* i-th.                                                                     *)
LEMMA StepInserted ==
  ASSUME NodesInv, NEW n \in Nodes!live, NEW copy \in Nodes!Copies(n),
         NEW p \in Nodes!live, NEW i \in 1..Len(kidsOf[p]) + 1,
         NEW a, a = At(kidsOf[p], i - 1), NEW b, b = At(kidsOf[p], i),
         Nodes!Inserted(p, a, n, b, copy)
  PROVE  NodesInv' /\ (Tree!Copy(n, copy) \/ UNCHANGED Tree!treeVars)
<1>1. CASE type[n] = "document" /\ Nodes!Refuse(p)
  BY <1>1, StepRefuse
<1>2. CASE type[n] # "document" /\ Nodes!Cloned(copy) /\ Nodes!Between(p, a, copy[n], b, copy)
  BY <1>2, StepBetween
<1>3. QED
  BY <1>1, <1>2 DEF Nodes!Inserted

LEMMA StepInsertEnd ==
  ASSUME NodesInv, NEW p, NEW n, NEW copy \in Nodes!Copies(n), Nodes!InsertEndChild(p, n, copy)
  PROVE  NodesInv' /\ (Tree!Copy(n, copy) \/ UNCHANGED Tree!treeVars)
<1>1. p \in Nodes!live /\ n \in Nodes!live /\ Nodes!Inserted(p, lastChild[p], n, NoNode, copy)
  BY DEF Nodes!InsertEndChild
<1> DEFINE s == kidsOf[p]
           i == Len(s) + 1
<1>2. Lists(Nodes!live, kidsOf) /\ Links(kidsOf, up, firstChild, lastChild, prev, next) /\ p \in Node
  BY <1>1, InvFacts, ListsFacts
<1>3. s \in Seq(Node) /\ Distinct(s) /\ Len(s) \in Nat
  BY <1>2, ListsFacts, RangeFacts
<1>4. lastChild[p] = At(s, Len(s))
  BY <1>2 DEF Links
<1>5. i \in 1..Len(s) + 1 /\ i - 1 = Len(s) /\ i \in Int /\ i \notin 1..Len(s)
  BY <1>3
<1>6. At(s, i) = NoNode
  BY <1>3, <1>5, AtFacts
<1> HIDE DEF i
<1>7. i \in 1..Len(kidsOf[p]) + 1 /\ lastChild[p] = At(kidsOf[p], i - 1) /\ NoNode = At(kidsOf[p], i)
  BY <1>4, <1>5, <1>6
<1>8. QED
  BY <1>1, <1>7, StepInserted

LEMMA StepInsertBefore ==
  ASSUME NodesInv, NEW b, NEW n, NEW copy \in Nodes!Copies(n), Nodes!InsertBeforeChild(b, n, copy)
  PROVE  NodesInv' /\ (Tree!Copy(n, copy) \/ UNCHANGED Tree!treeVars)
<1>1. b \in Nodes!live /\ n \in Nodes!live /\ up[b] # NoNode /\ Nodes!Inserted(up[b], prev[b], n, b, copy)
  BY DEF Nodes!InsertBeforeChild
<1> DEFINE p == up[b]
           s == kidsOf[p]
<1>2. p \in Nodes!live /\ p \in Node /\ b \in Node
  BY <1>1, ChildPlace
<1>3. PICK i \in 1..Len(s) : s[i] = b /\ prev[b] = At(s, i - 1)
  BY <1>1, ChildPlace
<1>4. s \in Seq(Node) /\ Len(s) \in Nat
  <2>1. Lists(Nodes!live, kidsOf)
    BY InvFacts
  <2>2. QED
    BY <1>2, <2>1, ListsFacts, RangeFacts
<1>5. i \in 1..Len(s) + 1
  BY <1>4
<1>6. b = At(s, i)
  BY <1>3 DEF At
<1> HIDE DEF p
<1>7. p \in Nodes!live /\ i \in 1..Len(kidsOf[p]) + 1 /\ prev[b] = At(kidsOf[p], i - 1) /\ b = At(kidsOf[p], i)
      /\ Nodes!Inserted(p, prev[b], n, b, copy)
  BY <1>1, <1>2, <1>3, <1>5, <1>6 DEF p
<1>8. QED
  BY <1>1, <1>7, StepInserted

LEMMA StepInsertAfter ==
  ASSUME NodesInv, NEW a, NEW n, NEW copy \in Nodes!Copies(n), Nodes!InsertAfterChild(a, n, copy)
  PROVE  NodesInv' /\ (Tree!Copy(n, copy) \/ UNCHANGED Tree!treeVars)
<1>1. a \in Nodes!live /\ n \in Nodes!live /\ up[a] # NoNode /\ Nodes!Inserted(up[a], a, n, next[a], copy)
  BY DEF Nodes!InsertAfterChild
<1> DEFINE p == up[a]
           s == kidsOf[p]
<1>2. p \in Nodes!live /\ p \in Node /\ a \in Node
  BY <1>1, ChildPlace
<1>3. PICK i \in 1..Len(s) : s[i] = a /\ next[a] = At(s, i + 1)
  BY <1>1, ChildPlace
<1>4. s \in Seq(Node) /\ Len(s) \in Nat
  <2>1. Lists(Nodes!live, kidsOf)
    BY InvFacts
  <2>2. QED
    BY <1>2, <2>1, ListsFacts, RangeFacts
<1> DEFINE j == i + 1
<1>5. j \in 1..Len(s) + 1 /\ j - 1 = i
  BY <1>4
<1>6. a = At(s, i)
  BY <1>3 DEF At
<1>9. next[a] = At(s, j)
  BY <1>3
<1> HIDE DEF p, j
<1>7. p \in Nodes!live /\ j \in 1..Len(kidsOf[p]) + 1 /\ a = At(kidsOf[p], j - 1) /\ next[a] = At(kidsOf[p], j)
      /\ Nodes!Inserted(p, a, n, next[a], copy)
  BY <1>1, <1>2, <1>5, <1>6, <1>9 DEF p
<1>8. QED
  BY <1>1, <1>7, StepInserted

LEMMA ReplaceIs ==
  ASSUME NEW s \in Seq(Node), NEW i \in 1..Len(s), NEW k \in Node
  PROVE  Rem(Ins(s, i, k), i + 1) = Tree!ReplaceAt(s, i, k)
<1> DEFINE t == Ins(s, i, k)
           u == Rem(t, i + 1)
           w == Tree!ReplaceAt(s, i, k)
<1>1. Len(s) \in Nat /\ i \in 1..Len(s) + 1 /\ i \in Int /\ s \in [1..Len(s) -> Node]
  BY LenProperties
<1>2. /\ t \in Seq(Node) /\ Len(t) = Len(s) + 1
      /\ \A j \in 1..Len(s) + 1 : t[j] = IF j < i THEN s[j] ELSE IF j = i THEN k ELSE s[j - 1]
  <2>1. Ins(s, i, k) \in Seq(Node) /\ Len(Ins(s, i, k)) = Len(s) + 1
    BY <1>1, InsFacts
  <2>2. \A j \in 1..Len(s) + 1 :
          Ins(s, i, k)[j] = IF j < i THEN s[j] ELSE IF j = i THEN k ELSE s[j - 1]
    BY DEF Ins
  <2>3. QED
    BY ONLY <2>1, <2>2 DEF t
<1> HIDE DEF t
<1>3. i + 1 \in 1..Len(t) /\ Len(t) - 1 = Len(s)
  BY <1>1, <1>2
<1>4. /\ u \in Seq(Node) /\ Len(u) = Len(s)
      /\ \A j \in 1..Len(s) : u[j] = IF j < i + 1 THEN t[j] ELSE t[j + 1]
  BY <1>2, <1>3, RemFacts
<1>5. w \in Seq(Node) /\ Len(w) = Len(s) /\ \A j \in 1..Len(s) : w[j] = IF j = i THEN k ELSE s[j]
  BY ExceptSeq DEF Tree!ReplaceAt
<1> HIDE DEF u, w
<1>6. ASSUME NEW j \in 1..Len(s) PROVE u[j] = w[j]
  <2>1. j \in Int /\ j \in 1..Len(s) + 1 /\ j + 1 \in 1..Len(s) + 1 /\ j + 1 - 1 = j
    BY <1>1
  <2>2. CASE j < i
    <3>1. j < i + 1 /\ j # i
      BY <1>1, <2>1, <2>2
    <3>2. QED
      BY <1>2, <1>4, <1>5, <2>1, <2>2, <3>1
  <2>3. CASE j = i
    <3>1. j < i + 1 /\ ~ (j < i)
      BY <1>1, <2>1, <2>3
    <3>2. QED
      BY <1>2, <1>4, <1>5, <2>1, <2>3, <3>1
  <2>4. CASE j > i
    <3>1. ~ (j < i + 1) /\ ~ (j + 1 < i) /\ j + 1 # i /\ j # i
      BY <1>1, <2>1, <2>4
    <3>2. u[j] = t[j + 1]
      BY <1>4, <3>1
    <3>3. t[j + 1] = s[j + 1 - 1]
      BY <1>2, <2>1, <3>1
    <3>4. QED
      BY <1>5, <2>1, <3>1, <3>2, <3>3
  <2>5. QED
    BY <1>1, <2>1, <2>2, <2>3, <2>4
<1>7. u = w
  BY <1>4, <1>5, <1>6, SeqEqual
<1>8. QED
  BY <1>7 DEF u, w, t

LEMMA StepReplace ==
  ASSUME NodesInv, NEW r, NEW n, NEW copy \in Nodes!Copies(n), Nodes!ReplaceChild(r, n, copy),
         type[n] # "document"
  PROVE  NodesInv' /\ Tree!ReplaceByCopy(n, copy)
<1> DEFINE C == Below(On(kidsOf), n)
           D == Below(On(kidsOf), r)
           R == Range(copy)
           l == Nodes!live
           p == up[r]
           s == kidsOf[p]
           k == copy[n]
           ks1 == Tree!CopiedKids(copy)
           pa1 == Nodes!Copied(up, copy)
           fc1 == Nodes!Copied(firstChild, copy)
           lc1 == Nodes!Copied(lastChild, copy)
           pr1 == Nodes!Copied(prev, copy)
           nx1 == Nodes!Copied(next, copy)
           a == prev[r]
           b == next[r]
<1>1. r \in l /\ n \in l /\ up[r] # NoNode
  BY DEF Nodes!ReplaceChild
<1>2. p \in l /\ p \in Node /\ r \in Node
      /\ \E i \in 1..Len(s) : s[i] = r /\ prev[r] = At(s, i - 1) /\ next[r] = At(s, i + 1)
  BY <1>1, ChildPlace
<1>3. PICK i \in 1..Len(s) : s[i] = r /\ prev[r] = At(s, i - 1) /\ next[r] = At(s, i + 1)
  BY <1>2
<1>4. /\ Lists(l, kidsOf) /\ Tree!live = l
      /\ Nodes!Below(r) = D /\ Tree!Below(r) = D
      /\ \A x \in l : type[x] = "document" => Top(On(kidsOf), x)
  BY <1>2, InvFacts
<1>5. CopyOf(n, copy, C, R)
  BY <1>1 DEF CopyOf
<1> DEFINE f == [pr1 EXCEPT ![k] = a]
           g == [nx1 EXCEPT ![k] = b]
           h == [pa1 EXCEPT ![k] = p]
           yf == IF a = NoNode THEN p ELSE NoNode
           yl == IF b = NoNode THEN p ELSE NoNode
<1>6. /\ type' = Nodes!Data(type, copy, D) /\ value' = Nodes!Data(value, copy, D)
      /\ up' = Nodes!Freed(h, D)
      /\ prev' = Nodes!Freed(Nodes!Set(f, b, k), D)
      /\ next' = Nodes!Freed(Nodes!Set(g, a, k), D)
      /\ lastChild' = Nodes!Freed(Nodes!Set(lc1, yl, k), D)
      /\ firstChild' = Nodes!Freed(Nodes!Set(fc1, yf, k), D)
  BY <1>4 DEF Nodes!ReplaceChild
<1> HIDE DEF C, R
<1>7. /\ Lists(l \cup R, ks1)
      /\ Links(ks1, pa1, fc1, lc1, pr1, nx1)
      /\ k \in R /\ R \subseteq Node /\ R \cap l = {} /\ l \subseteq Node
      /\ Top(On(ks1), k)
      /\ Below(On(ks1), k) \subseteq R
      /\ \A q \in Node \ R : ks1[q] = kidsOf[q] /\ On(ks1)[q] = On(kidsOf)[q]
      /\ \A m \in l : Top(On(kidsOf), m) => Top(On(ks1), m)
  BY <1>5, CopyMade
<1>8. r \in D /\ D \subseteq l /\ D \in SUBSET Node
  <2>1. Shape(l, On(kidsOf)) /\ On(kidsOf) \in [Node -> SUBSET Node]
    BY <1>4, ListsFacts DEF Lists
  <2>2. QED
    BY <1>1, <1>2, <1>7, <2>1, ShapeBelow, BelowFacts
<1>9. p \notin D
  BY <1>1, NotBelow
<1>10. Held(n, copy, R, D, type', value')
  BY <1>5, <1>6, <1>8, DataIs
<1>11. /\ pa1 \in [Node -> Node \cup {NoNode}] /\ fc1 \in [Node -> Node \cup {NoNode}]
       /\ lc1 \in [Node -> Node \cup {NoNode}] /\ pr1 \in [Node -> Node \cup {NoNode}]
       /\ nx1 \in [Node -> Node \cup {NoNode}]
  BY <1>7, PointerTypes
<1>12. k \in Node /\ k \notin l /\ p \notin R /\ r \notin R /\ ks1[p] = s /\ k # r /\ k # p
  BY <1>1, <1>2, <1>7
<1>13. /\ s \in Seq(Node) /\ Distinct(s) /\ ks1 \in [Node -> Seq(Node)] /\ i \in Int /\ i - 1 \in Int /\ i + 1 \in Int
       /\ Len(s) \in Nat /\ i \in 1..Len(s) + 1 /\ i \in 1..Len(s)
  <2>1. s \in Seq(Node) /\ Distinct(s) /\ ks1 \in [Node -> Seq(Node)]
    BY <1>2, <1>4, <1>7, ListsFacts
  <2>2. Len(s) \in Nat
    BY <2>1, RangeFacts
  <2>3. QED
    BY <2>1, <2>2
<1>14. a \in Node \cup {NoNode} /\ b \in Node \cup {NoNode} /\ NoNode \notin Node /\ r = At(s, i)
  BY <1>3, <1>13, AtFacts, TreeAssumption DEF At
<1>15. a # k /\ b # k
  <2>1. \A x \in Int : At(s, x) # NoNode => At(s, x) \in On(kidsOf)[p]
    <3>1. \A j \in 1..Len(s) : s[j] \in Range(s)
      BY <1>13, RangeFacts
    <3>2. On(kidsOf)[p] = Range(s)
      BY <1>2 DEF On
    <3>3. QED
      BY <1>13, <3>1, <3>2 DEF At
  <2>2. k \notin On(kidsOf)[p]
    BY <1>2, <1>4, <1>12 DEF Lists, Shape
  <2>3. QED
    BY <1>3, <1>12, <1>13, <1>14, <2>1, <2>2
<1> HIDE DEF l, p, s, k, ks1, pa1, fc1, lc1, pr1, nx1, a, b, D
(* The copy is put before r. *)
<1> DEFINE ks2 == [ks1 EXCEPT ![p] = Ins(s, i, k)]
           pa2 == [x \in Node |-> IF x = k THEN p ELSE pa1[x]]
           pr2 == [x \in Node |-> IF x = r THEN k ELSE IF x = k THEN a ELSE pr1[x]]
           nx2 == [x \in Node |-> IF x = a THEN k ELSE IF x = k THEN r ELSE nx1[x]]
           fc2 == [x \in Node |-> IF x = p /\ a = NoNode THEN k ELSE fc1[x]]
           lc2 == lc1
<1>16. /\ ks2 \in [Node -> Seq(Node)] /\ ks2[p] = Ins(s, i, k)
       /\ \A x \in Node : x # p => ks2[x] = ks1[x]
  BY <1>2, <1>12, <1>13, InsFacts
<1> HIDE DEF ks2
<1>17. Put(l \cup R, ks1, p, i, k, ks2)
  BY <1>2, <1>7, <1>12, <1>13, <1>16 DEF Put
<1>18. Linked(ks1, pa1, fc1, lc1, pr1, nx1, p, i, k, pa2, fc2, lc2, pr2, nx2)
  <2>1. /\ pa2 \in [Node -> Node \cup {NoNode}]
        /\ \A x \in {fc2, lc2, pr2, nx2} : x \in [Node -> Node \cup {NoNode}]
    BY <1>2, <1>11, <1>12, <1>14
  <2>2. \A x \in Node :
          /\ pa2[x] = (IF x = k THEN p ELSE pa1[x])
          /\ pr2[x] = (IF x = r THEN k ELSE IF x = k THEN a ELSE pr1[x])
          /\ nx2[x] = (IF x = a THEN k ELSE IF x = k THEN r ELSE nx1[x])
          /\ fc2[x] = (IF x = p /\ a = NoNode THEN k ELSE fc1[x])
          /\ lc2[x] = (IF x = p /\ r = NoNode THEN k ELSE lc1[x])
    BY <1>2, <1>14
  <2>3. a = At(ks1[p], i - 1) /\ r = At(ks1[p], i)
    BY <1>3, <1>12, <1>14 DEF a
  <2> HIDE DEF pa2, fc2, lc2, pr2, nx2
  <2>4. QED
    BY <2>1, <2>2, <2>3 DEF Linked
<1>19. Links(ks2, pa2, fc2, lc2, pr2, nx2)
  <2> HIDE DEF pa2, fc2, lc2, pr2, nx2
  <2>1. QED
    BY ONLY <1>7, <1>17, <1>18, LinkLinks
<1>20. Lists(l \cup R, ks2)
  <2>1. p \notin Below(On(ks1), k)
    BY <1>7, <1>12
  <2>2. QED
    BY <1>7, <1>17, <2>1, PutLists
(* r, which is the one after it, is taken out. *)
<1> DEFINE j == i + 1
           ks3 == [ks2 EXCEPT ![p] = Rem(Ins(s, i, k), j)]
           pa3 == [x \in Node |-> IF x = r THEN NoNode ELSE pa2[x]]
           pr3 == [x \in Node |-> IF x = r THEN NoNode ELSE IF x = b THEN k ELSE pr2[x]]
           nx3 == [x \in Node |-> IF x = r THEN NoNode ELSE IF x = k THEN b ELSE nx2[x]]
           fc3 == fc2
           lc3 == [x \in Node |-> IF x = p /\ b = NoNode THEN k ELSE lc2[x]]
<1>21. /\ ks2[p] \in Seq(Node) /\ Len(ks2[p]) = Len(s) + 1
       /\ j \in 1..Len(ks2[p]) /\ ks2[p][j] = r
       /\ At(ks2[p], j - 1) = k /\ At(ks2[p], j + 1) = b
  <2>1. Ins(s, i, k) \in Seq(Node) /\ Len(Ins(s, i, k)) = Len(s) + 1
    BY <1>12, <1>13, InsFacts
  <2>2. /\ j \in Int /\ j - 1 = i /\ j + 1 \in Int /\ j + 1 - 1 = i + 1 /\ ~ (j < i) /\ j # i
        /\ ~ (j + 1 < i) /\ j + 1 # i /\ ~ (i < i) /\ j \in 1..Len(s) + 1
    BY <1>13
  <2>3. \A y \in Int : At(Ins(s, i, k), y) = IF y < i THEN At(s, y) ELSE IF y = i THEN k ELSE At(s, y - 1)
    BY <1>12, <1>13, AtIns
  <2> HIDE DEF j
  <2>4. At(Ins(s, i, k), j) = r /\ At(Ins(s, i, k), i) = k /\ At(Ins(s, i, k), j + 1) = At(s, i + 1)
    BY <1>13, <1>14, <2>2, <2>3
  <2>5. Ins(s, i, k)[j] = r
    BY <2>1, <2>2, <2>4 DEF At
  <2>6. QED
    BY <1>3, <1>16, <2>1, <2>2, <2>4, <2>5 DEF b
<1>22. /\ ks3 \in [Node -> Seq(Node)] /\ ks3[p] = Rem(ks2[p], j)
       /\ \A x \in Node : x # p => ks3[x] = ks2[x]
  <2>1. Rem(ks2[p], j) \in Seq(Node)
    BY <1>21, RemFacts
  <2>2. QED
    BY <1>2, <1>16, <2>1
<1> HIDE DEF ks3, j
<1>23. Taken(l \cup R, ks2, p, j, ks3)
  BY <1>2, <1>21, <1>22 DEF Taken
<1>24. /\ Lists(l \cup R, ks3) /\ Top(On(ks3), r)
       /\ \A x \in Node : On(ks3)[x] = On(ks2)[x] \ {r}
  <2>1. /\ Lists(l \cup R, ks3) /\ Top(On(ks3), ks2[p][j])
        /\ \A x \in Node : On(ks3)[x] = On(ks2)[x] \ {ks2[p][j]}
    BY <1>20, <1>23, TakenLists
  <2>2. QED
    BY <1>21, <2>1
<1>25. Unlinked(ks2, pa2, fc2, lc2, pr2, nx2, p, j, pa3, fc3, lc3, pr3, nx3)
  <2>0. /\ pa2 \in [Node -> Node \cup {NoNode}] /\ fc2 \in [Node -> Node \cup {NoNode}]
        /\ lc2 \in [Node -> Node \cup {NoNode}] /\ pr2 \in [Node -> Node \cup {NoNode}]
        /\ nx2 \in [Node -> Node \cup {NoNode}]
    BY <1>2, <1>11, <1>12, <1>14
  <2> HIDE DEF pa2, fc2, lc2, pr2, nx2
  <2>1. /\ pa3 \in [Node -> Node \cup {NoNode}]
        /\ \A x \in {fc3, lc3, pr3, nx3} : x \in [Node -> Node \cup {NoNode}]
    BY <1>12, <1>14, <2>0
  <2>2. \A x \in Node :
          /\ pa3[x] = (IF x = r THEN NoNode ELSE pa2[x])
          /\ pr3[x] = (IF x = r THEN NoNode ELSE IF x = b THEN k ELSE pr2[x])
          /\ nx3[x] = (IF x = r THEN NoNode ELSE IF x = k THEN b ELSE nx2[x])
          /\ fc3[x] = (IF x = p /\ k = NoNode THEN b ELSE fc2[x])
          /\ lc3[x] = (IF x = p /\ b = NoNode THEN k ELSE lc2[x])
    BY <1>12, <1>14
  <2> HIDE DEF pa3, fc3, lc3, pr3, nx3
  <2>3. QED
    BY <1>21, <2>1, <2>2 DEF Unlinked
<1>26. Links(ks3, pa3, fc3, lc3, pr3, nx3)
  <2> HIDE DEF pa3, fc3, lc3, pr3, nx3, pa2, fc2, lc2, pr2, nx2
  <2>1. QED
    BY ONLY <1>19, <1>20, <1>23, <1>25, UnlinkLinks
(* r is deleted with all below it. *)
<1>27. Pruned(D, ks3, pa3, fc3, lc3, pr3, nx3)
  <2> DEFINE pr4 == Nodes!Set(f, b, k)
             nx4 == Nodes!Set(g, a, k)
             lc4 == Nodes!Set(lc1, yl, k)
             fc4 == Nodes!Set(fc1, yf, k)
  <2>1. /\ f \in [Node -> Node \cup {NoNode}] /\ \A x \in Node : f[x] = IF x = k THEN a ELSE pr1[x]
        /\ g \in [Node -> Node \cup {NoNode}] /\ \A x \in Node : g[x] = IF x = k THEN b ELSE nx1[x]
        /\ h \in [Node -> Node \cup {NoNode}] /\ \A x \in Node : h[x] = IF x = k THEN p ELSE pa1[x]
    BY <1>2, <1>11, <1>12, <1>14
  <2>2. /\ yf \in Node \cup {NoNode} /\ \A x \in Node : x = yf <=> x = p /\ a = NoNode
        /\ yl \in Node \cup {NoNode} /\ \A x \in Node : x = yl <=> x = p /\ b = NoNode
    BY <1>2, <1>14
  <2>3. up' = Nodes!Freed(h, D) /\ prev' = Nodes!Freed(pr4, D) /\ next' = Nodes!Freed(nx4, D)
        /\ lastChild' = Nodes!Freed(lc4, D) /\ firstChild' = Nodes!Freed(fc4, D)
    BY <1>6
  <2> HIDE DEF f, g, h, yf, yl
  <2>4. k \in Node \cup {NoNode}
    BY <1>12
  <2>41. /\ pr4 = Nodes!Set(f, b, k) /\ nx4 = Nodes!Set(g, a, k)
         /\ lc4 = Nodes!Set(lc1, yl, k) /\ fc4 = Nodes!Set(fc1, yf, k)
    OBVIOUS
  <2> HIDE DEF pr4, nx4, lc4, fc4
  <2>5. pr4 \in [Node -> Node \cup {NoNode}] /\ \A x \in Node : pr4[x] = IF x = b THEN k ELSE f[x]
    BY ONLY <1>14, <2>1, <2>4, <2>41, SetFacts
  <2>6. nx4 \in [Node -> Node \cup {NoNode}] /\ \A x \in Node : nx4[x] = IF x = a THEN k ELSE g[x]
    BY ONLY <1>14, <2>1, <2>4, <2>41, SetFacts
  <2>7. lc4 \in [Node -> Node \cup {NoNode}] /\ \A x \in Node : lc4[x] = IF x = yl THEN k ELSE lc1[x]
    <3>1. lc1 \in [Node -> Node \cup {NoNode}] /\ yl \in Node \cup {NoNode} /\ lc4 = Nodes!Set(lc1, yl, k)
      BY <1>11, <2>2, <2>41
    <3>2. IsSet(lc1, yl, k, lc4)
      BY ONLY <2>4, <3>1, SetIs
    <3>3. QED
      BY <3>2 DEF IsSet
  <2>8. fc4 \in [Node -> Node \cup {NoNode}] /\ \A x \in Node : fc4[x] = IF x = yf THEN k ELSE fc1[x]
    <3>1. fc1 \in [Node -> Node \cup {NoNode}] /\ yf \in Node \cup {NoNode} /\ fc4 = Nodes!Set(fc1, yf, k)
      BY <1>11, <2>2, <2>41
    <3>2. IsSet(fc1, yf, k, fc4)
      BY ONLY <2>4, <3>1, SetIs
    <3>3. QED
      BY <3>2 DEF IsSet
  <2>9. /\ up' \in [Node -> Node \cup {NoNode}]
        /\ \A x \in {firstChild', lastChild', prev', next'} : x \in [Node -> Node \cup {NoNode}]
    BY <2>1, <2>3, <2>5, <2>6, <2>7, <2>8, FreedFacts
  <2>10. \A x \in Node :
          /\ up'[x] = IF x \in D THEN NoNode ELSE h[x]
          /\ firstChild'[x] = IF x \in D THEN NoNode ELSE fc4[x]
          /\ lastChild'[x] = IF x \in D THEN NoNode ELSE lc4[x]
          /\ prev'[x] = IF x \in D THEN NoNode ELSE pr4[x]
          /\ next'[x] = IF x \in D THEN NoNode ELSE nx4[x]
    BY <2>1, <2>3, <2>5, <2>6, <2>7, <2>8, FreedFacts
  <2>11. \A x \in Node \ D : x \in Node /\ x # r
    BY <1>8
  <2>12. \A x \in Node \ D : h[x] = pa3[x] /\ fc4[x] = fc3[x] /\ lc4[x] = lc3[x]
    BY <2>1, <2>2, <2>7, <2>8, <2>11
  <2>13. \A x \in Node \ D : pr4[x] = pr3[x]
    BY <2>1, <2>5, <2>11
  <2>14. \A x \in Node \ D : nx4[x] = nx3[x]
    BY <1>15, <2>1, <2>6, <2>11
  <2> HIDE DEF pa3, fc3, lc3, pr3, nx3
  <2>15. QED
    BY <2>9, <2>10, <2>12, <2>13, <2>14 DEF Pruned
<1> HIDE DEF pa3, fc3, lc3, pr3, nx3, pa2, fc2, lc2, pr2, nx2
<1>28. \A q \in D : On(ks3)[q] = On(kidsOf)[q]
  <2>1. TAKE q \in D
  <2>2. q \in Node /\ q # p /\ q \notin R
    BY <1>7, <1>8, <1>9
  <2>3. ks3[q] = kidsOf[q]
    BY <1>7, <1>16, <1>22, <2>2
  <2>4. QED
    BY <2>2, <2>3 DEF On
<1>29. D \in SUBSET Node /\ Closed(On(ks3), D) /\ \A q \in Node \ D : On(ks3)[q] \cap D = {}
  <2>1. Shape(l, On(kidsOf)) /\ Shape(l \cup R, On(ks3))
    BY <1>4, <1>24 DEF Lists
  <2>2. QED
    BY <1>2, <1>24, <1>28, <2>1, LooseBelow DEF D
<1> DEFINE ty1 == [m \in l \cup R |-> IF m \in l THEN type[m] ELSE type'[m]]
<1>30. \A m \in l \cup R : ty1[m] = "document" => Top(On(ks3), m)
  <2>1. SUFFICES ASSUME NEW m \in l \cup R, ty1[m] = "document" PROVE Top(On(ks3), m)
    OBVIOUS
  <2>2. m \in l /\ type[m] = "document"
    BY <1>10, <2>1 DEF Held
  <2>3. Top(On(ks1), m) /\ m # k
    BY <1>4, <1>7, <1>12, <2>2
  <2>4. Range(Ins(s, i, k)) = Range(s) \cup {k}
    BY ONLY <1>12, <1>13, InsFacts
  <2>5. On(ks2)[p] = On(ks1)[p] \cup {k} /\ \A q \in Node : q # p => On(ks2)[q] = On(ks1)[q]
    BY <1>2, <1>12, <1>16, <2>4 DEF On
  <2>6. QED
    BY <1>2, <1>24, <2>3, <2>5 DEF Top
<1>31. /\ DOMAIN type' = (l \cup R) \ D /\ DOMAIN value' = (l \cup R) \ D
       /\ \A m \in (l \cup R) \ D : type'[m] = ty1[m]
  BY <1>10 DEF Held, l
<1> HIDE DEF ty1
<1>32. NodesInv' /\ kidsOf' = Tree!Emptied(ks3, D)
  BY <1>24, <1>26, <1>27, <1>29, <1>30, <1>31, PrunedStep
<1>33. Tree!ReplaceByCopy(n, copy)
  <2>1. value' = Tree!Without(Tree!CopiedValue(copy), D)
    BY <1>10 DEF Held
  <2>2. p \in Tree!live /\ i \in DOMAIN kidsOf[p] /\ kidsOf[p][i] = r
    BY <1>2, <1>3, <1>4, <1>13, RangeFacts DEF s
  <2>3. kidsOf' = [Tree!Emptied(ks1, D) EXCEPT ![p] = Tree!ReplaceAt(kidsOf[p], i, k)]
    <3>1. Rem(Ins(s, i, k), j) = Tree!ReplaceAt(s, i, k)
      BY <1>12, <1>13, ReplaceIs DEF j
    <3>2. ks3[p] = Tree!ReplaceAt(s, i, k) /\ \A x \in Node : x # p => ks3[x] = ks1[x]
      BY <1>16, <1>22, <3>1
    <3>3. Tree!Emptied(ks3, D) = [Tree!Emptied(ks1, D) EXCEPT ![p] = Tree!ReplaceAt(s, i, k)]
      BY <1>2, <1>9, <3>2 DEF Tree!Emptied
    <3>4. QED
      BY <1>32, <3>3 DEF s
  <2>4. \E q \in Tree!live : \E y \in DOMAIN kidsOf[q] :
          /\ value' = Tree!Without(Tree!CopiedValue(copy), Tree!Below(kidsOf[q][y]))
          /\ kidsOf' = [Tree!Emptied(Tree!CopiedKids(copy), Tree!Below(kidsOf[q][y])) EXCEPT
                          ![q] = Tree!ReplaceAt(kidsOf[q], y, copy[n])]
    BY <1>4, <2>1, <2>2, <2>3 DEF ks1, k
  <2>5. Tree!ReplaceByCopy(n, copy) <=>
          \E q \in Tree!live : \E y \in DOMAIN kidsOf[q] :
          /\ value' = Tree!Without(Tree!CopiedValue(copy), Tree!Below(kidsOf[q][y]))
          /\ kidsOf' = [Tree!Emptied(Tree!CopiedKids(copy), Tree!Below(kidsOf[q][y])) EXCEPT
                          ![q] = Tree!ReplaceAt(kidsOf[q], y, copy[n])]
    BY DEF Tree!ReplaceByCopy, kidsOf
  <2>6. QED
    BY <2>4, <2>5
<1>34. QED
  BY <1>32, <1>33

(* Every call of the code on nodes is a call on trees, or changes nothing.   *)
LEMMA NodesStep ==
  ASSUME NodesInv, Nodes!Next
  PROVE  NodesInv' /\ (Tree!TreeNext \/ UNCHANGED Tree!treeVars)
<1>0. Tree!live = Nodes!live
  BY InvFacts
<1>1. ASSUME NEW n \in Node, NEW v \in Value, NEW t, Nodes!New(n, t, v)
      PROVE  NodesInv' /\ Tree!TreeNext
  <2>1. NodesInv' /\ Tree!Make(n, v)
    BY <1>1, StepNew
  <2>2. QED
    BY <2>1 DEF Tree!TreeNext
<1>2. ASSUME NEW n \in Nodes!live, Nodes!Delete(n) \/ Nodes!RemoveChild(n) \/ Nodes!Clear(n)
      PROVE  NodesInv' /\ Tree!TreeNext
  <2>1. CASE Nodes!Delete(n)
    <3>1. up[n] = NoNode /\ Nodes!Deleted(n)
      BY <2>1 DEF Nodes!Delete
    <3>2. NodesInv' /\ Tree!Drop(n)
      BY <3>1, StepDeleted
    <3>3. QED
      BY <1>0, <3>2 DEF Tree!TreeNext
  <2>2. CASE Nodes!RemoveChild(n)
    <3>1. NodesInv' /\ Tree!Drop(n)
      BY <2>2, StepRemove
    <3>2. QED
      BY <1>0, <3>1 DEF Tree!TreeNext
  <2>3. CASE Nodes!Clear(n)
    <3>1. NodesInv' /\ Tree!DropKids(n)
      BY <2>3, StepClear
    <3>2. QED
      BY <1>0, <3>1 DEF Tree!TreeNext
  <2>4. QED
    BY <1>2, <2>1, <2>2, <2>3
<1>3. ASSUME NEW p \in Nodes!live, NEW n \in Nodes!live, Nodes!LinkEndChild(p, n)
      PROVE  NodesInv' /\ Tree!TreeNext
  <2>1. NodesInv' /\ (Tree!Drop(n) \/ Tree!LinkLast(p, n))
    BY <1>3, StepLink
  <2>2. QED
    BY <1>0, <2>1 DEF Tree!TreeNext
<1>4. ASSUME NEW n \in Nodes!live, NEW copy \in Nodes!Copies(n),
             NodesInv' /\ (Tree!Copy(n, copy) \/ Tree!ReplaceByCopy(n, copy) \/ UNCHANGED Tree!treeVars)
      PROVE  Tree!TreeNext \/ UNCHANGED Tree!treeVars
  <2>1. CopyOf(n, copy, Below(On(kidsOf), n), Range(copy))
    BY DEF CopyOf
  <2>2. copy \in Tree!Copies(n)
    BY <2>1, CopiesAre
  <2>3. QED
    BY <1>0, <1>4, <2>2 DEF Tree!TreeNext
<1>5. ASSUME NEW n \in Nodes!live, NEW copy \in Nodes!Copies(n), Nodes!Clone(n, copy)
      PROVE  NodesInv' /\ (Tree!TreeNext \/ UNCHANGED Tree!treeVars)
  <2>1. NodesInv' /\ Tree!Copy(n, copy)
    BY <1>5, StepClone
  <2>2. QED
    BY <1>4, <2>1
<1>6. ASSUME NEW n \in Nodes!live, NEW copy \in Nodes!Copies(n), NEW p \in Nodes!live,
             \/ Nodes!InsertEndChild(p, n, copy)
             \/ Nodes!InsertBeforeChild(p, n, copy)
             \/ Nodes!InsertAfterChild(p, n, copy)
      PROVE  NodesInv' /\ (Tree!TreeNext \/ UNCHANGED Tree!treeVars)
  <2>1. NodesInv' /\ (Tree!Copy(n, copy) \/ UNCHANGED Tree!treeVars)
    <3>1. CASE Nodes!InsertEndChild(p, n, copy)
      BY <3>1, StepInsertEnd
    <3>2. CASE Nodes!InsertBeforeChild(p, n, copy)
      BY <3>2, StepInsertBefore
    <3>3. CASE Nodes!InsertAfterChild(p, n, copy)
      BY <3>3, StepInsertAfter
    <3>4. QED
      BY <1>6, <3>1, <3>2, <3>3
  <2>2. QED
    BY <1>4, <2>1
<1>7. ASSUME NEW n \in Nodes!live, NEW copy \in Nodes!Copies(n), NEW r \in Nodes!live,
             Nodes!ReplaceChild(r, n, copy)
      PROVE  NodesInv' /\ (Tree!TreeNext \/ UNCHANGED Tree!treeVars)
  <2>1. CASE type[n] = "document"
    <3>1. Nodes!Refuse(up[r])
      BY <1>7, <2>1 DEF Nodes!ReplaceChild
    <3>2. QED
      BY <3>1, StepRefuse
  <2>2. CASE type[n] # "document"
    <3>1. NodesInv' /\ Tree!ReplaceByCopy(n, copy)
      BY <1>7, <2>2, StepReplace
    <3>2. QED
      BY <1>4, <3>1
  <2>3. QED
    BY <2>1, <2>2
<1>8. QED
  BY <1>1, <1>2, <1>3, <1>5, <1>6, <1>7 DEF Nodes!Next

(* Nothing is there, and the pointers are those of empty sequences.          *)
LEMMA NodesStart ==
  ASSUME Nodes!Init
  PROVE  NodesInv /\ Tree!TreeInit
<1> DEFINE ks == [n \in Node |-> <<>>]
<1>1. /\ DOMAIN type = {} /\ value = type
      /\ up = [n \in Node |-> NoNode] /\ firstChild = up /\ lastChild = up /\ prev = up /\ next = up
  BY DEF Nodes!Init
<1>2. ks \in [Node -> Seq(Node)] /\ Len(<<>>) = 0 /\ Range(<<>>) = {}
  BY EmptySeq DEF Range
<1>3. On(ks) = [n \in Node |-> {}]
  BY <1>2 DEF On
<1>4. Lists({}, ks)
  <2>1. Shape({}, On(ks))
    BY <1>3 DEF Shape
  <2>2. \A p \in Node : Distinct(ks[p])
    BY <1>2 DEF Distinct
  <2>3. QED
    BY <1>2, <2>1, <2>2 DEF Lists
<1>5. Links(ks, up, firstChild, lastChild, prev, next)
  BY <1>1, <1>2 DEF Links, At
<1>6. kidsOf = ks
  BY <1>4, <1>5, ChainKids DEF kidsOf, Nodes!Kids
<1>7. NodesInv
  BY <1>1, <1>4, <1>5, <1>6 DEF NodesInv, Rep
<1>8. Tree!TreeInit
  <2>1. value = [n \in {} |-> 0]
    BY <1>1
  <2>2. QED
    BY <1>6, <2>1 DEF Tree!TreeInit, kidsOf
<1>9. QED
  BY <1>7, <1>8

(* A step of the trees, of the nodes or of the attributes keeps what the     *)
(* pointers are, and is a call on trees or none.                             *)
LEMMA AllStep ==
  ASSUME NodesInv, [AllNext]_<<used, vars, nodes, attributes>>
  PROVE  NodesInv' /\ [Tree!TreeNext]_(Tree!treeVars)
<1>1. CASE Nodes!Next
  BY <1>1, NodesStep
<1>2. CASE UNCHANGED nodes
  BY <1>2, StepNone DEF nodes
<1>3. QED
  BY <1>1, <1>2 DEF AllNext

(* However nodes are allocated, linked, unlinked, replaced, copied, cleared  *)
(* and deleted (TiXmlNode), the parent, firstChild, lastChild, prev and next *)
(* pointers are those of one sequence of children for each node: the         *)
(* sequences of a forest over the nodes that are there, in which each node   *)
(* is a child of at most one and once at most, documents are children of     *)
(* none, and nothing leads to storage that was returned.                     *)
THEOREM NodesStayLinked == AllSpec => []NodesInv
<1>1. AllInit => NodesInv
  BY NodesStart DEF AllInit
<1>2. NodesInv /\ [AllNext]_<<used, vars, nodes, attributes>> => NodesInv'
  BY AllStep
<1>3. QED
  BY <1>1, <1>2, PTL DEF AllSpec

(* Every call of TiXmlNode on its five pointers has, on the sequences of     *)
(* children these stand for, the effect of one call of the abstract trees,   *)
(* or none: a link puts one child at its place, RemoveChild takes one        *)
(* subtree, ReplaceChild puts a copy where the child was, and Clear and      *)
(* Clone take and make whole trees.                                          *)
THEOREM PointersKeepTrees == AllSpec => ImplementsNodeTree
<1>1. AllInit => Tree!TreeInit
  BY NodesStart DEF AllInit
<1>2. NodesInv /\ [AllNext]_<<used, vars, nodes, attributes>> => [Tree!TreeNext]_(Tree!treeVars)
  BY AllStep
<1>3. QED
  BY <1>1, <1>2, NodesStayLinked, PTL DEF AllSpec, ImplementsNodeTree, Tree!TreeSpec

(* -------------------- what follows for a reader -------------------------- *)

(* The lists of children are the same in both directions, end with null and  *)
(* hold the nodes with this parent.                                          *)
LEMMA MirrorFollows == NodesInv => Nodes!ListsMirror
<1> SUFFICES ASSUME NodesInv PROVE Nodes!ListsMirror
  OBVIOUS
<1> DEFINE l == Nodes!live
           ks == kidsOf
<1>1. /\ Lists(l, ks) /\ Links(ks, up, firstChild, lastChild, prev, next)
      /\ NoNode \notin Node
  BY InvFacts, TreeAssumption
<1>2. l \subseteq Node /\ \A p \in Node : ks[p] \in Seq(Node) /\ Distinct(ks[p]) /\ Len(ks[p]) \in Nat
  BY <1>1, ListsFacts, RangeFacts
<1> HIDE DEF l, ks
(* Where a child is. *)
<1>3. ASSUME NEW n \in l, up[n] # NoNode \/ next[n] # NoNode \/ prev[n] # NoNode
      PROVE  \E p \in Node : \E i \in 1..Len(ks[p]) :
               /\ ks[p][i] = n /\ up[n] = p
               /\ prev[n] = At(ks[p], i - 1) /\ next[n] = At(ks[p], i + 1)
  <2>1. n \in Node /\ ~ Top(On(ks), n)
    BY <1>1, <1>2, <1>3 DEF Links
  <2>2. PICK p \in Node : \E i \in 1..Len(ks[p]) : ks[p][i] = n
    BY <1>1, <2>1, ListsFacts
  <2>3. PICK i \in 1..Len(ks[p]) : ks[p][i] = n
    BY <2>2
  <2>4. up[n] = p /\ prev[n] = At(ks[p], i - 1) /\ next[n] = At(ks[p], i + 1)
    BY <1>1, <2>3 DEF Links
  <2>5. QED
    BY <2>3, <2>4
<1>4. ASSUME NEW p \in Node, NEW i \in 1..Len(ks[p])
      PROVE  /\ ks[p][i] \in l /\ up[ks[p][i]] = p
             /\ prev[ks[p][i]] = At(ks[p], i - 1) /\ next[ks[p][i]] = At(ks[p], i + 1)
             /\ At(ks[p], i) = ks[p][i]
  BY <1>1, ListsFacts DEF Links, At
<1>5. ASSUME NEW m \in l, NEW n \in l PROVE next[m] = n <=> prev[n] = m
  <2>1. ASSUME next[m] = n PROVE prev[n] = m
    <3>1. next[m] # NoNode
      BY <1>1, <1>2, <2>1
    <3>2. PICK p \in Node : \E i \in 1..Len(ks[p]) : ks[p][i] = m /\ next[m] = At(ks[p], i + 1)
      BY <1>3, <3>1
    <3>3. PICK i \in 1..Len(ks[p]) : ks[p][i] = m /\ next[m] = At(ks[p], i + 1)
      BY <3>2
    <3>4. i \in Int /\ i + 1 \in Int /\ i + 1 - 1 = i
      BY <1>2
    <3>5. i + 1 \in 1..Len(ks[p]) /\ ks[p][i + 1] = n
      BY <1>2, <2>1, <3>1, <3>3, <3>4, AtFacts
    <3>6. prev[n] = At(ks[p], i + 1 - 1)
      BY <1>4, <3>5
    <3>7. QED
      BY <1>4, <3>3, <3>4, <3>6
  <2>2. ASSUME prev[n] = m PROVE next[m] = n
    <3>1. prev[n] # NoNode
      BY <1>1, <1>2, <2>2
    <3>2. PICK p \in Node : \E i \in 1..Len(ks[p]) : ks[p][i] = n /\ prev[n] = At(ks[p], i - 1)
      BY <1>3, <3>1
    <3>3. PICK i \in 1..Len(ks[p]) : ks[p][i] = n /\ prev[n] = At(ks[p], i - 1)
      BY <3>2
    <3>4. i \in Int /\ i - 1 \in Int /\ i - 1 + 1 = i
      BY <1>2
    <3>5. i - 1 \in 1..Len(ks[p]) /\ ks[p][i - 1] = m
      BY <1>2, <2>2, <3>1, <3>3, <3>4, AtFacts
    <3>6. next[m] = At(ks[p], i - 1 + 1)
      BY <1>4, <3>5
    <3>7. QED
      BY <1>4, <3>3, <3>4, <3>6
  <2>3. QED
    BY <2>1, <2>2
<1>6. ASSUME NEW n \in l, next[n] # NoNode PROVE up[next[n]] = up[n] /\ up[n] # NoNode
  <2>1. PICK p \in Node : \E i \in 1..Len(ks[p]) : ks[p][i] = n /\ up[n] = p /\ next[n] = At(ks[p], i + 1)
    BY <1>3, <1>6
  <2>2. PICK i \in 1..Len(ks[p]) : ks[p][i] = n /\ up[n] = p /\ next[n] = At(ks[p], i + 1)
    BY <2>1
  <2>3. i + 1 \in 1..Len(ks[p]) /\ next[n] = ks[p][i + 1]
    BY <1>2, <1>6, <2>2, AtFacts
  <2>4. up[next[n]] = p
    BY <1>4, <2>3
  <2>5. QED
    BY <1>1, <2>2, <2>4
<1>7. ASSUME NEW n \in l, NEW p \in l, up[n] = p
      PROVE  /\ prev[n] = NoNode <=> firstChild[p] = n
             /\ next[n] = NoNode <=> lastChild[p] = n
             /\ n \in Range(ks[p])
  <2>1. p \in Node /\ p # NoNode /\ n \in Node
    BY <1>1, <1>2
  <2>2. \E q \in Node : \E i \in 1..Len(ks[q]) :
          ks[q][i] = n /\ up[n] = q /\ prev[n] = At(ks[q], i - 1) /\ next[n] = At(ks[q], i + 1)
    BY <1>3, <1>7, <2>1
  <2>3. PICK i \in 1..Len(ks[p]) : ks[p][i] = n /\ prev[n] = At(ks[p], i - 1) /\ next[n] = At(ks[p], i + 1)
    BY <1>7, <2>2
  <2> DEFINE s == ks[p]
             m == Len(s)
  <2>4. s \in Seq(Node) /\ Distinct(s) /\ m \in Nat /\ firstChild[p] = At(s, 1) /\ lastChild[p] = At(s, m)
    BY <1>1, <1>2, <2>1 DEF Links
  <2>5. i \in Int /\ i - 1 \in Int /\ i + 1 \in Int /\ i >= 1 /\ i <= m /\ 1 \in Int /\ m \in Int
    BY <2>4
  <2> HIDE DEF s
  <2>6. At(s, i) = n /\ n # NoNode
    BY <1>1, <2>1, <2>3 DEF At, s
  <2>7. At(s, i - 1) = NoNode <=> i = 1
    <3>1. At(s, i - 1) = NoNode <=> i - 1 \notin 1..m
      BY <2>4, <2>5, AtFacts
    <3>2. QED
      BY <2>5, <3>1
  <2>8. At(s, i + 1) = NoNode <=> i = m
    <3>1. At(s, i + 1) = NoNode <=> i + 1 \notin 1..m
      BY <2>4, <2>5, AtFacts
    <3>2. QED
      BY <2>5, <3>1
  <2>9. At(s, 1) = n <=> i = 1
    BY <2>4, <2>5, <2>6, AtFacts
  <2>10. At(s, m) = n <=> i = m
    BY <2>4, <2>5, <2>6, AtFacts
  <2>11. n \in Range(ks[p])
    BY <1>2, <2>1, <2>3, RangeFacts
  <2>12. QED
    BY <2>3, <2>4, <2>7, <2>8, <2>9, <2>10, <2>11 DEF s
<1>8. ASSUME NEW p \in l PROVE {n \in l : up[n] = p} = Nodes!Range(Nodes!Kids(p))
  <2>1. p \in Node
    BY <1>2
  <2>2. Nodes!Range(Nodes!Kids(p)) = Range(ks[p])
    BY <2>1, InvFacts, SameRange DEF ks
  <2>3. ASSUME NEW n \in Range(ks[p]) PROVE n \in l /\ up[n] = p
    <3>1. PICK i \in 1..Len(ks[p]) : n = ks[p][i]
      BY <1>2, <2>1, RangeFacts
    <3>2. QED
      BY <1>4, <2>1, <3>1
  <2>4. QED
    BY <1>7, <2>2, <2>3
<1>9. QED
  BY <1>5, <1>6, <1>7, <1>8 DEF Nodes!ListsMirror, l

(* What is reached from a node that is there is there, and is reached once.  *)
LEMMA WholeFollows == NodesInv => Nodes!TreesWhole
<1> SUFFICES ASSUME NodesInv PROVE Nodes!TreesWhole
  OBVIOUS
<1> DEFINE l == Nodes!live
           ks == kidsOf
           c == On(ks)
<1>1. /\ Lists(l, ks) /\ Links(ks, up, firstChild, lastChild, prev, next)
      /\ \A n \in l : type[n] = "document" => Top(c, n)
      /\ \A n \in Node : Nodes!Below(n) = Below(c, n)
      /\ \A n \in l : n \in Node /\ (up[n] = NoNode <=> Top(c, n))
  BY InvFacts, NoParent
<1>2. l \subseteq Node /\ \A p \in Node : ks[p] \in Seq(Node) /\ Distinct(ks[p]) /\ Len(ks[p]) \in Nat
  BY <1>1, ListsFacts, RangeFacts
<1> HIDE DEF l, ks
<1>3. \A p \in Node : \A i \in Int : At(ks[p], i) \in l \cup {NoNode}
  <2>1. TAKE p \in Node
  <2>2. TAKE i \in Int
  <2>3. \A j \in 1..Len(ks[p]) : ks[p][j] \in l
    BY <1>1, ListsFacts
  <2>4. QED
    BY <2>3 DEF At
<1>4. ASSUME NEW n \in l PROVE firstChild[n] \in l \cup {NoNode} /\ lastChild[n] \in l \cup {NoNode}
  <2>1. n \in Node /\ 1 \in Int /\ Len(ks[n]) \in Int
    BY <1>2
  <2>2. firstChild[n] = At(ks[n], 1) /\ lastChild[n] = At(ks[n], Len(ks[n]))
    BY <1>1, <2>1 DEF Links
  <2>3. QED
    BY <1>3, <2>1, <2>2
<1>5. ASSUME NEW n \in l
      PROVE  up[n] \in l \cup {NoNode} /\ prev[n] \in l \cup {NoNode} /\ next[n] \in l \cup {NoNode}
  <2>1. CASE Top(c, n)
    BY <1>1, <2>1 DEF Links
  <2>2. CASE ~ Top(c, n)
    <3>1. up[n] # NoNode
      BY <1>1, <2>2
    <3>2. /\ up[n] \in l /\ up[n] \in Node
          /\ \E i \in 1..Len(ks[up[n]]) : prev[n] = At(ks[up[n]], i - 1) /\ next[n] = At(ks[up[n]], i + 1)
      BY <3>1, ChildPlace DEF l, ks
    <3>3. PICK i \in 1..Len(ks[up[n]]) : prev[n] = At(ks[up[n]], i - 1) /\ next[n] = At(ks[up[n]], i + 1)
      BY <3>2
    <3>4. i - 1 \in Int /\ i + 1 \in Int
      BY <1>2, <3>2
    <3>5. QED
      BY <1>3, <3>2, <3>3, <3>4
  <2>3. QED
    BY <2>1, <2>2
<1>6. l = UNION {Nodes!Below(r) : r \in {n \in l : up[n] = NoNode}}
  <2>1. ASSUME NEW r \in l PROVE Nodes!Below(r) \subseteq l
    BY <1>1, <2>1, ShapeBelow DEF Lists
  <2>2. ASSUME NEW n \in l PROVE \E r \in l : up[r] = NoNode /\ n \in Nodes!Below(r)
    <3>1. PICK r \in l : Top(c, r) /\ n \in Below(c, r)
      BY <1>1 DEF Lists, Shape
    <3>2. QED
      BY <1>1, <3>1
  <2>3. QED
    BY <2>1, <2>2
<1>7. \A n \in l : type[n] = "document" => up[n] = NoNode
  BY <1>1
<1>8. QED
  BY <1>4, <1>5, <1>6, <1>7 DEF Nodes!TreesWhole, l

(* What stands at the first, and at the last, of a set of places.            *)
LEMMA FirstIs ==
  ASSUME NEW t, NEW P, P \subseteq Int
  PROVE  /\ P = {} => Nodes!First(t, P) = NoNode /\ Nodes!Last(t, P) = NoNode
         /\ \A x \in P : (\A y \in P : x <= y) => Nodes!First(t, P) = t[x]
         /\ \A x \in P : (\A y \in P : x >= y) => Nodes!Last(t, P) = t[x]
<1>1. ASSUME NEW x \in P, \A y \in P : x <= y PROVE Nodes!Min(P) = x
  <2>1. \A z \in P : (\A y \in P : z <= y) => z = x
    BY <1>1
  <2>2. QED
    BY <1>1, <2>1 DEF Nodes!Min
<1>2. ASSUME NEW x \in P, \A y \in P : x >= y PROVE Nodes!Max(P) = x
  <2>1. \A z \in P : (\A y \in P : z >= y) => z = x
    BY <1>2
  <2>2. QED
    BY <1>2, <2>1 DEF Nodes!Max
<1>3. QED
  BY <1>1, <1>2 DEF Nodes!First, Nodes!Last

LEMMA LeastOf ==
  ASSUME NEW P, P \subseteq Nat, P # {}
  PROVE  \E x \in P : \A y \in P : x <= y
  BY LeastNumber

LEMMA GreatestOf ==
  ASSUME NEW m \in Nat, NEW P, P \subseteq 1..m, P # {}
  PROVE  \E x \in P : \A y \in P : x >= y
<1> DEFINE T == {m - x : x \in P}
<1>1. T \subseteq Nat /\ T # {}
  <2>1. \A x \in P : x \in 1..m
    OBVIOUS
  <2>2. \A x \in 1..m : m - x \in Nat
    OBVIOUS
  <2>3. \A x \in P : m - x \in T
    OBVIOUS
  <2>4. QED
    BY <2>1, <2>2, <2>3
<1>2. PICK z \in T : \A y \in T : z <= y
  <2> HIDE DEF T
  <2>1. QED
    BY <1>1, LeastNumber
<1>3. PICK x \in P : z = m - x
  OBVIOUS
<1>4. \A y \in P : x >= y
  <2>1. TAKE y \in P
  <2>2. m - x <= m - y
    BY <1>2, <1>3
  <2>3. x \in Int /\ y \in Int
    OBVIOUS
  <2>4. QED
    BY <2>2, <2>3
<1>5. QED
  BY <1>4

(* The pointers from a child on, and back from one, and back from the last.  *)
Onward(s, i) == [j \in 1..Len(s) - i |-> s[i + j]]
Backward(s, i) == [j \in 1..i - 1 |-> s[i - j]]

LEMMA ChainOn ==
  ASSUME NEW s \in Seq(Node), Distinct(s), NEW i \in 0..Len(s), NEW via,
         \A j \in 1..Len(s) : via[s[j]] = At(s, j + 1),
         NEW start, start = At(s, i + 1)
  PROVE  Nodes!Chain(start, via) = Onward(s, i)
<1> DEFINE t == Onward(s, i)
           n == Len(s) - i
<1>1. Len(s) \in Nat /\ i \in Int /\ n \in Nat /\ \A j \in 1..Len(s) : s[j] \in Node
  BY RangeFacts
<1>2. \A j \in 1..n : i + j \in 1..Len(s)
  BY <1>1
<1>3. t \in Seq(Node) /\ Len(t) = n /\ \A j \in 1..n : t[j] = s[i + j]
  BY <1>1, <1>2 DEF Onward
<1> HIDE DEF t
<1>4. Distinct(t)
  <2>1. ASSUME NEW x \in 1..n, NEW y \in 1..n, t[x] = t[y] PROVE x = y
    <3>1. s[i + x] = s[i + y] /\ i + x \in 1..Len(s) /\ i + y \in 1..Len(s)
      BY <1>2, <1>3, <2>1
    <3>2. i + x = i + y
      BY <3>1 DEF Distinct
    <3>3. QED
      BY <1>1, <3>2
  <2>2. QED
    BY <1>3, <2>1 DEF Distinct
<1>5. \A j \in Int : j >= 1 => At(t, j) = At(s, i + j)
  <2>1. TAKE j \in Int
  <2>2. HAVE j >= 1
  <2>3. j \in 1..n <=> i + j \in 1..Len(s)
    BY <1>1, <2>2
  <2>4. QED
    BY <1>3, <2>3 DEF At
<1>6. start = At(t, 1)
  BY <1>5
<1>7. \A j \in 1..Len(t) : via[t[j]] = At(t, j + 1)
  <2>1. TAKE j \in 1..Len(t)
  <2>2. j \in Int /\ j + 1 \in Int /\ j + 1 >= 1 /\ j \in 1..n /\ i + (j + 1) = (i + j) + 1
    BY <1>1, <1>3
  <2>3. via[s[i + j]] = At(s, (i + j) + 1)
    BY <1>2, <2>2
  <2>4. QED
    BY <1>3, <1>5, <2>2, <2>3
<1>8. QED
  BY <1>3, <1>4, <1>6, <1>7, ChainIs DEF t

LEMMA ChainBack ==
  ASSUME NEW s \in Seq(Node), Distinct(s), NEW i \in 1..Len(s) + 1, NEW via,
         \A j \in 1..Len(s) : via[s[j]] = At(s, j - 1),
         NEW start, start = At(s, i - 1)
  PROVE  Nodes!Chain(start, via) = Backward(s, i)
<1> DEFINE t == Backward(s, i)
           n == i - 1
<1>1. Len(s) \in Nat /\ i \in Int /\ n \in Nat /\ \A j \in 1..Len(s) : s[j] \in Node
  BY RangeFacts
<1>2. \A j \in 1..n : i - j \in 1..Len(s)
  BY <1>1
<1>3. t \in Seq(Node) /\ Len(t) = n /\ \A j \in 1..n : t[j] = s[i - j]
  BY <1>1, <1>2 DEF Backward
<1> HIDE DEF t
<1>4. Distinct(t)
  <2>1. ASSUME NEW x \in 1..n, NEW y \in 1..n, t[x] = t[y] PROVE x = y
    <3>1. s[i - x] = s[i - y] /\ i - x \in 1..Len(s) /\ i - y \in 1..Len(s)
      BY <1>2, <1>3, <2>1
    <3>2. i - x = i - y
      BY <3>1 DEF Distinct
    <3>3. QED
      BY <1>1, <3>2
  <2>2. QED
    BY <1>3, <2>1 DEF Distinct
<1>5. \A j \in Int : j >= 1 => At(t, j) = At(s, i - j)
  <2>1. TAKE j \in Int
  <2>2. HAVE j >= 1
  <2>3. j \in 1..n <=> i - j \in 1..Len(s)
    BY <1>1, <2>2
  <2>4. QED
    BY <1>3, <2>3 DEF At
<1>6. start = At(t, 1)
  BY <1>5
<1>7. \A j \in 1..Len(t) : via[t[j]] = At(t, j + 1)
  <2>1. TAKE j \in 1..Len(t)
  <2>2. j \in Int /\ j + 1 \in Int /\ j + 1 >= 1 /\ j \in 1..n /\ i - (j + 1) = (i - j) - 1
    BY <1>1, <1>3
  <2>3. via[s[i - j]] = At(s, (i - j) - 1)
    BY <1>2, <2>2
  <2>4. QED
    BY <1>3, <1>5, <2>2, <2>3
<1>8. QED
  BY <1>3, <1>4, <1>6, <1>7, ChainIs DEF t

(* The first of those asked for on the way on, and on the way back.          *)
Hits(s, v, el) == {i \in DOMAIN s : Nodes!Asked(s[i], v, el)}
Under(H, i) == {j \in H : j < i}
Over(H, i) == {j \in H : j > i}

LEMMA AlongOn ==
  ASSUME NEW s \in Seq(Node), Distinct(s), NEW i \in 0..Len(s), NEW via,
         \A j \in 1..Len(s) : via[s[j]] = At(s, j + 1),
         NEW start, start = At(s, i + 1), NEW v, NEW el
  PROVE  Nodes!Along(start, via, v, el) = Nodes!First(s, Over(Hits(s, v, el), i))
<1> DEFINE t == Onward(s, i)
           n == Len(s) - i
           P == {j \in DOMAIN t : Nodes!Asked(t[j], v, el)}
           Q == {j \in Hits(s, v, el) : j > i}
<1>1. Len(s) \in Nat /\ i \in Int /\ n \in Nat /\ DOMAIN s = 1..Len(s) /\ DOMAIN t = 1..n
  BY RangeFacts DEF Onward
<1>2. Nodes!Along(start, via, v, el) = Nodes!First(t, P)
  BY ChainOn DEF Nodes!Along
<1>3. \A j \in 1..n : t[j] = s[i + j]
  BY DEF Onward
<1>4. \A j \in P : j \in 1..n /\ i + j \in Q /\ t[j] = s[i + j]
  <2>1. ASSUME NEW j \in P PROVE j \in 1..n /\ i + j \in Q /\ t[j] = s[i + j]
    <3>1. j \in 1..n /\ Nodes!Asked(t[j], v, el)
      BY <1>1
    <3>2. i + j \in 1..Len(s) /\ i + j > i
      BY <1>1, <3>1
    <3>3. QED
      BY <1>1, <1>3, <3>1, <3>2 DEF Hits
  <2>2. QED
    BY <2>1
<1>5. \A k \in Q : k \in Int /\ k - i \in P
  <2>1. ASSUME NEW k \in Q PROVE k \in Int /\ k - i \in P
    <3>1. k \in 1..Len(s) /\ k > i /\ Nodes!Asked(s[k], v, el)
      BY <1>1 DEF Hits
    <3>2. k - i \in 1..n /\ i + (k - i) = k
      BY <1>1, <3>1
    <3>3. QED
      BY <1>1, <1>3, <3>1, <3>2
  <2>2. QED
    BY <2>1
<1>10. Over(Hits(s, v, el), i) = Q
  BY DEF Over
<1>6. P \subseteq Nat /\ P \subseteq Int /\ Q \subseteq Int
  BY <1>4, <1>5
<1> HIDE DEF P, Q, t
<1>7. CASE P = {}
  <2>1. Q = {}
    BY <1>5, <1>7
  <2>2. Nodes!First(t, P) = NoNode /\ Nodes!First(s, Q) = NoNode
    BY <1>6, <1>7, <2>1, FirstIs
  <2>3. QED
    BY <1>2, <1>10, <2>2
<1>8. CASE P # {}
  <2>1. PICK x \in P : \A y \in P : x <= y
    BY <1>6, <1>8, LeastOf
  <2>2. Nodes!First(t, P) = t[x] /\ x \in Int /\ i + x \in Q /\ t[x] = s[i + x]
    BY <1>4, <1>6, <2>1, FirstIs
  <2>3. \A k \in Q : i + x <= k
    <3>1. TAKE k \in Q
    <3>2. k \in Int /\ x <= k - i
      BY <1>5, <2>1
    <3>3. QED
      BY <1>1, <2>2, <3>2
  <2>4. Nodes!First(s, Q) = s[i + x]
    BY <1>6, <2>2, <2>3, FirstIs
  <2>5. QED
    BY <1>2, <1>10, <2>2, <2>4
<1>9. QED
  BY <1>7, <1>8

LEMMA AlongBack ==
  ASSUME NEW s \in Seq(Node), Distinct(s), NEW i \in 1..Len(s) + 1, NEW via,
         \A j \in 1..Len(s) : via[s[j]] = At(s, j - 1),
         NEW start, start = At(s, i - 1), NEW v, NEW el
  PROVE  Nodes!Along(start, via, v, el) = Nodes!Last(s, Under(Hits(s, v, el), i))
<1> DEFINE t == Backward(s, i)
           n == i - 1
           P == {j \in DOMAIN t : Nodes!Asked(t[j], v, el)}
           Q == {j \in Hits(s, v, el) : j < i}
<1>1. Len(s) \in Nat /\ i \in Int /\ n \in Nat /\ DOMAIN s = 1..Len(s) /\ DOMAIN t = 1..n
  BY RangeFacts DEF Backward
<1>2. Nodes!Along(start, via, v, el) = Nodes!First(t, P)
  BY ChainBack DEF Nodes!Along
<1>3. \A j \in 1..n : t[j] = s[i - j]
  BY DEF Backward
<1>4. \A j \in P : j \in 1..n /\ i - j \in Q /\ t[j] = s[i - j]
  <2>1. ASSUME NEW j \in P PROVE j \in 1..n /\ i - j \in Q /\ t[j] = s[i - j]
    <3>1. j \in 1..n /\ Nodes!Asked(t[j], v, el)
      BY <1>1
    <3>2. i - j \in 1..Len(s) /\ i - j < i
      BY <1>1, <3>1
    <3>3. QED
      BY <1>1, <1>3, <3>1, <3>2 DEF Hits
  <2>2. QED
    BY <2>1
<1>5. \A k \in Q : k \in Int /\ i - k \in P
  <2>1. ASSUME NEW k \in Q PROVE k \in Int /\ i - k \in P
    <3>1. k \in 1..Len(s) /\ k < i /\ Nodes!Asked(s[k], v, el)
      BY <1>1 DEF Hits
    <3>2. i - k \in 1..n /\ i - (i - k) = k
      BY <1>1, <3>1
    <3>3. QED
      BY <1>1, <1>3, <3>1, <3>2
  <2>2. QED
    BY <2>1
<1>10. Under(Hits(s, v, el), i) = Q
  BY DEF Under
<1>6. P \subseteq Nat /\ P \subseteq Int /\ Q \subseteq Int
  BY <1>4, <1>5
<1> HIDE DEF P, Q, t
<1>7. CASE P = {}
  <2>1. Q = {}
    BY <1>5, <1>7
  <2>2. Nodes!First(t, P) = NoNode /\ Nodes!Last(s, Q) = NoNode
    BY <1>6, <1>7, <2>1, FirstIs
  <2>3. QED
    BY <1>2, <1>10, <2>2
<1>8. CASE P # {}
  <2>1. PICK x \in P : \A y \in P : x <= y
    BY <1>6, <1>8, LeastOf
  <2>2. Nodes!First(t, P) = t[x] /\ x \in Int /\ i - x \in Q /\ t[x] = s[i - x]
    BY <1>4, <1>6, <2>1, FirstIs
  <2>3. \A k \in Q : i - x >= k
    <3>1. TAKE k \in Q
    <3>2. k \in Int /\ x <= i - k
      BY <1>5, <2>1
    <3>3. QED
      BY <1>1, <2>2, <3>2
  <2>4. Nodes!Last(s, Q) = s[i - x]
    BY <1>6, <2>2, <2>3, FirstIs
  <2>5. QED
    BY <1>2, <1>10, <2>2, <2>4
<1>9. QED
  BY <1>7, <1>8

(* How many of a set of places come before one.                              *)
Rank(H, i) == Cardinality(Under(H, i))

LEMMA RankTypes ==
  ASSUME NEW m \in Nat, NEW H, H \subseteq 1..m
  PROVE  /\ IsFiniteSet(H) /\ Cardinality(H) \in Nat /\ H \subseteq Int
         /\ \A j \in H : j \in Int
         /\ \A i \in H : IsFiniteSet(Under(H, i)) /\ Rank(H, i) \in Nat
<1>1. IsFiniteSet(1..m)
  BY FS_Interval
<1>2. \A S \in SUBSET (1..m) : IsFiniteSet(S) /\ Cardinality(S) \in Nat
  BY <1>1, FS_Subset, FS_CardinalityType
<1>3. \A i \in H : Under(H, i) \in SUBSET (1..m)
  BY DEF Under
<1>4. QED
  BY <1>2, <1>3 DEF Rank

LEMMA RankNext ==
  ASSUME NEW m \in Nat, NEW H, H \subseteq 1..m, NEW x \in H, NEW y \in H, y < x,
         \A j \in H : j < x => j <= y
  PROVE  Rank(H, x) = Rank(H, y) + 1
<1>1. IsFiniteSet(Under(H, y)) /\ \A j \in H : j \in Int
  BY RankTypes
<1>6. \A i, j : j \in Under(H, i) <=> j \in H /\ j < i
  BY DEF Under
<1>2. \A j \in H : j < x <=> j < y \/ j = y
  BY <1>1
<1>3. Under(H, x) = Under(H, y) \cup {y} /\ y \notin Under(H, y)
  <2>1. y \in Int /\ ~ (y < y)
    BY <1>1
  <2>2. \A j : j \in Under(H, x) <=> j \in Under(H, y) \/ j = y
    BY <1>2, <1>6
  <2>3. QED
    BY <1>6, <2>1, <2>2
<1>4. Cardinality(Under(H, y) \cup {y}) = Cardinality(Under(H, y)) + 1
  BY <1>1, <1>3, FS_AddElement
<1>5. QED
  BY <1>3, <1>4 DEF Rank

(* Ranks grow, and stay below the number of places.                          *)
LEMMA RankGrows ==
  ASSUME NEW m \in Nat, NEW H, H \subseteq 1..m
  PROVE  /\ \A x, y \in H : y < x => Rank(H, y) < Rank(H, x)
         /\ \A x \in H : Rank(H, x) < Cardinality(H)
         /\ \A x, y \in H : Rank(H, y) = Rank(H, x) => x = y
<1>1. (\A j \in H : j \in Int) /\ IsFiniteSet(H) /\ Cardinality(H) \in Nat
      /\ \A i \in H : IsFiniteSet(Under(H, i)) /\ Rank(H, i) \in Nat
  BY RankTypes
<1>7. \A i, j : j \in Under(H, i) <=> j \in H /\ j < i
  BY DEF Under
<1>2. ASSUME NEW S, IsFiniteSet(S), NEW y \in S, NEW T \in SUBSET S, y \notin T
      PROVE  Cardinality(T) < Cardinality(S)
  <2>1. T \cup {y} \in SUBSET S /\ IsFiniteSet(T)
    BY <1>2, FS_Subset
  <2>2. Cardinality(T \cup {y}) = Cardinality(T) + 1 /\ Cardinality(T) \in Nat
    BY <1>2, <2>1, FS_AddElement, FS_CardinalityType
  <2>3. Cardinality(T \cup {y}) <= Cardinality(S) /\ Cardinality(S) \in Nat
    BY <1>2, <2>1, FS_Subset, FS_CardinalityType
  <2>4. QED
    BY <2>2, <2>3
<1>3. ASSUME NEW x \in H, NEW y \in H, y < x PROVE Rank(H, y) < Rank(H, x)
  <2>1. y \in Under(H, x) /\ y \notin Under(H, y) /\ Under(H, y) \in SUBSET Under(H, x)
    <3>1. x \in Int /\ y \in Int /\ ~ (y < y)
      BY <1>1
    <3>2. \A j \in Under(H, y) : j < x
      <4>1. TAKE j \in Under(H, y)
      <4>2. j \in Int /\ j < y /\ y < x
        BY <1>1, <1>3, <1>7
      <4>3. QED
        BY <3>1, <4>2
    <3>3. QED
      BY <1>3, <1>7, <3>1, <3>2
  <2>2. QED
    BY <1>1, <1>2, <2>1 DEF Rank
<1>4. ASSUME NEW x \in H PROVE Rank(H, x) < Cardinality(H)
  <2>1. x \notin Under(H, x) /\ Under(H, x) \in SUBSET H
    BY <1>1 DEF Under
  <2>2. QED
    BY <1>1, <1>2, <2>1 DEF Rank
<1>5. ASSUME NEW x \in H, NEW y \in H, Rank(H, y) = Rank(H, x) PROVE x = y
  <2>1. ~ (x < y) /\ ~ (y < x)
    BY <1>1, <1>3, <1>5
  <2>2. QED
    BY <1>1, <2>1
<1>6. QED
  BY <1>3, <1>4, <1>5

(* The one of rank 0, the one after another, and the one before.             *)
LEMMA RankSteps ==
  ASSUME NEW m \in Nat, NEW H, H \subseteq 1..m
  PROVE  /\ \A x \in H : (\A j \in H : x <= j) => Rank(H, x) = 0
         /\ \A y \in H : \A x \in {j \in H : j > y} :
              (\A j \in {k \in H : k > y} : x <= j) => Rank(H, x) = Rank(H, y) + 1
         /\ \A x \in H : Rank(H, x) # 0 => \E y \in H : Rank(H, x) = Rank(H, y) + 1
<1>1. (\A j \in H : j \in Int) /\ IsFiniteSet(H)
      /\ \A i \in H : IsFiniteSet(Under(H, i)) /\ Rank(H, i) \in Nat
  BY RankTypes
<1>2. ASSUME NEW x \in H, \A j \in H : x <= j PROVE Rank(H, x) = 0
  <2>1. Under(H, x) = {}
    <3>1. \A j \in H : ~ (j < x)
      BY <1>1, <1>2
    <3>2. QED
      BY <3>1 DEF Under
  <2>2. QED
    BY <2>1, FS_EmptySet DEF Rank
<1>3. ASSUME NEW y \in H, NEW x \in {j \in H : j > y}, \A j \in {k \in H : k > y} : x <= j
      PROVE  Rank(H, x) = Rank(H, y) + 1
  <2>1. x \in H /\ y < x /\ \A j \in H : j < x => j <= y
    BY <1>1, <1>3
  <2>2. QED
    BY <2>1, RankNext
<1>4. ASSUME NEW x \in H, Rank(H, x) # 0 PROVE \E y \in H : Rank(H, x) = Rank(H, y) + 1
  <2>1. Under(H, x) # {}
    BY <1>4, FS_EmptySet DEF Rank
  <2>2. Under(H, x) \subseteq 1..m
    BY DEF Under
  <2>3. PICK y \in Under(H, x) : \A j \in Under(H, x) : y >= j
    BY <2>1, <2>2, GreatestOf
  <2>4. y \in H /\ y < x /\ \A j \in H : j < x => j <= y
    BY <1>1, <2>3 DEF Under
  <2>5. QED
    BY <2>4, RankNext
<1>5. QED
  BY <1>2, <1>3, <1>4

(* Asked for the first and then for count more, the way through the children *)
(* comes to the one that has count of its kind before it, if there is one.   *)
Counted(c, start, via, v, el, count) ==
  c = [k \in 0..count |->
        IF k = 0 THEN Nodes!Along(start, via, v, el)
        ELSE IF c[k - 1] = NoNode THEN NoNode ELSE Nodes!Along(via[c[k - 1]], via, v, el)]

Count(start, via, v, el, count) == CHOOSE c : Counted(c, start, via, v, el, count)

LEMMA CountedIs ==
  ASSUME NEW s \in Seq(Node), Distinct(s), NEW via,
         \A j \in 1..Len(s) : via[s[j]] = At(s, j + 1),
         NEW start, start = At(s, 1), NEW v, NEW el, NEW count \in Nat
  PROVE  /\ \A i \in Hits(s, v, el) : Rank(Hits(s, v, el), i) = count =>
              Count(start, via, v, el, count)[count] = s[i]
         /\ (\A i \in Hits(s, v, el) : Rank(Hits(s, v, el), i) # count) =>
              Count(start, via, v, el, count)[count] = NoNode
<1> DEFINE H == Hits(s, v, el)
           m == Len(s)
           W(k) == IF \E i \in H : Rank(H, i) = k THEN s[CHOOSE i \in H : Rank(H, i) = k] ELSE NoNode
           body(c, k) == IF k = 0 THEN Nodes!Along(start, via, v, el)
                         ELSE IF c[k - 1] = NoNode THEN NoNode ELSE Nodes!Along(via[c[k - 1]], via, v, el)
           w == [k \in 0..count |-> W(k)]
           c0 == Count(start, via, v, el, count)
<1>1. m \in Nat /\ DOMAIN s = 1..m /\ \A j \in 1..m : s[j] \in Node
  BY RangeFacts
<1>2. H \subseteq 1..m /\ H \subseteq Int /\ \A j \in H : j \in Int /\ j \in Nat /\ j > 0
  BY <1>1 DEF Hits
<1>3. \A i \in H : Rank(H, i) \in Nat
  BY <1>1, <1>2, RankTypes
<1>4. /\ \A i \in H : W(Rank(H, i)) = s[i]
      /\ \A k : (\A i \in H : Rank(H, i) # k) => W(k) = NoNode
  <2> HIDE DEF H
  <2>1. ASSUME NEW i \in H PROVE W(Rank(H, i)) = s[i]
    <3>1. \A j \in H : Rank(H, j) = Rank(H, i) => j = i
      BY <1>1, <1>2, RankGrows
    <3>2. (CHOOSE j \in H : Rank(H, j) = Rank(H, i)) = i
      BY <3>1
    <3>3. QED
      BY <3>2
  <2>2. QED
    BY <2>1
<1> HIDE DEF W, H
<1>5. body(w, 0) = W(0)
  <2>1. 0 \in 0..m /\ start = At(s, 0 + 1)
    BY <1>1
  <2>2. Nodes!Along(start, via, v, el) = Nodes!First(s, Over(H, 0))
    BY <2>1, AlongOn DEF H
  <2>3. Over(H, 0) = H
    BY <1>2 DEF Over
  <2>7. Nodes!Along(start, via, v, el) = Nodes!First(s, H)
    BY <2>2, <2>3
  <2>4. CASE H = {}
    BY <1>2, <1>4, <2>7, <2>4, FirstIs
  <2>5. CASE H # {}
    <3>1. H \subseteq Nat
      BY <1>1, <1>2
    <3>2. PICK x \in H : \A y \in H : x <= y
      BY <2>5, <3>1, LeastOf
    <3>3. Nodes!First(s, H) = s[x]
      BY <1>2, <3>2, FirstIs
    <3>4. Rank(H, x) = 0
      BY <1>1, <1>2, <3>2, RankSteps
    <3>5. W(0) = s[x]
      BY <1>4, <3>4
    <3>6. QED
      BY <2>7, <3>3, <3>5
  <2>6. QED
    BY <2>4, <2>5
<1>6. ASSUME NEW i \in H PROVE Nodes!Along(via[s[i]], via, v, el) = W(Rank(H, i) + 1)
  <2> DEFINE P == {j \in H : j > i}
             start1 == via[s[i]]
  <2>1. i \in 1..m /\ i \in 0..m /\ start1 = At(s, i + 1)
    BY <1>1, <1>2
  <2> HIDE DEF start1
  <2>2. Nodes!Along(start1, via, v, el) = Nodes!First(s, Over(H, i))
    BY <2>1, AlongOn DEF H
  <2>3. Nodes!Along(start1, via, v, el) = Nodes!First(s, P)
    BY <2>2 DEF Over
  <2>4. P \subseteq Nat /\ P \subseteq Int /\ P \subseteq H
    BY <1>2
  <2>5. CASE P = {}
    <3>1. Nodes!First(s, P) = NoNode
      BY <2>4, <2>5, FirstIs
    <3>2. ASSUME NEW x \in H, Rank(H, x) = Rank(H, i) + 1 PROVE FALSE
      <4>1. x \in Int /\ i \in Int /\ ~ (x > i)
        BY <1>2, <2>5
      <4>2. x = i \/ x < i
        BY <4>1
      <4>3. Rank(H, x) = Rank(H, i) \/ Rank(H, x) < Rank(H, i)
        BY <1>1, <1>2, <4>2, RankGrows
      <4>4. QED
        BY <1>3, <3>2, <4>3
    <3>3. W(Rank(H, i) + 1) = NoNode
      BY <1>4, <3>2
    <3>4. QED
      BY <2>3, <3>1, <3>3 DEF start1
  <2>6. CASE P # {}
    <3>1. PICK x \in P : \A y \in P : x <= y
      <4> HIDE DEF P
      <4>1. QED
        BY <2>4, <2>6, LeastOf
    <3>2. Nodes!First(s, P) = s[x]
      <4> HIDE DEF P
      <4>1. QED
        BY <2>4, <3>1, FirstIs
    <3>3. Rank(H, x) = Rank(H, i) + 1
      BY <1>1, <1>2, <3>1, RankSteps
    <3>4. x \in H
      OBVIOUS
    <3>5. W(Rank(H, i) + 1) = s[x]
      BY <1>4, <3>3, <3>4
    <3>6. QED
      BY <2>3, <3>2, <3>5 DEF start1
  <2>7. QED
    BY <2>5, <2>6
<1>7. \A k \in Nat : W(k) = NoNode => W(k + 1) = NoNode
  <2>1. TAKE k \in Nat
  <2>2. HAVE W(k) = NoNode
  <2>3. ASSUME NEW x \in H, Rank(H, x) = k + 1 PROVE FALSE
    <3>1. Rank(H, x) # 0
      BY <2>3
    <3>2. PICK y \in H : Rank(H, x) = Rank(H, y) + 1
      BY <1>1, <1>2, <3>1, RankSteps
    <3>3. Rank(H, y) = k
      BY <1>3, <2>3, <3>2
    <3>4. W(k) = s[y] /\ s[y] \in Node
      BY <1>1, <1>2, <1>4, <3>3
    <3>5. QED
      BY <2>2, <3>4, TreeAssumption
  <2>4. QED
    BY <1>4, <2>3
<1>8. \A k \in Nat : W(k) # NoNode => W(k + 1) = Nodes!Along(via[W(k)], via, v, el)
  <2>1. TAKE k \in Nat
  <2>2. HAVE W(k) # NoNode
  <2>3. PICK i \in H : Rank(H, i) = k
    BY <1>4, <2>2
  <2>4. W(k) = s[i]
    BY <1>4, <2>3
  <2>5. QED
    BY <1>6, <2>3, <2>4
<1>9. \A k \in 0..count : body(w, k) = W(k)
  <2>1. TAKE k \in 0..count
  <2>2. CASE k = 0
    BY <1>5, <2>2
  <2>3. CASE k # 0
    <3>1. k - 1 \in 0..count /\ k - 1 \in Nat /\ k - 1 + 1 = k
      BY <2>3
    <3>2. w[k - 1] = W(k - 1)
      BY <3>1
    <3>3. W(k) = IF W(k - 1) = NoNode THEN NoNode ELSE Nodes!Along(via[W(k - 1)], via, v, el)
      BY <1>7, <1>8, <3>1
    <3>4. QED
      BY <2>3, <3>2, <3>3
  <2>4. QED
    BY <2>2, <2>3
<1>10. w = [k \in 0..count |-> body(w, k)]
  BY <1>9
<1>11. \A c : Counted(c, start, via, v, el, count) <=> c = [k \in 0..count |-> body(c, k)]
  BY DEF Counted
<1>12. c0 = [k \in 0..count |-> body(c0, k)]
  <2> HIDE DEF body, w
  <2>1. \E c : Counted(c, start, via, v, el, count)
    BY <1>10, <1>11
  <2>2. Counted(c0, start, via, v, el, count)
    BY <2>1 DEF Count
  <2>3. QED
    BY <1>11, <2>2
<1> HIDE DEF c0, w
<1>13. \A k \in 0..count : c0[k] = W(k)
  <2> DEFINE T == {k \in 0..count : c0[k] # W(k)}
  <2>1. SUFFICES ASSUME T # {} PROVE FALSE
    OBVIOUS
  <2>2. T \subseteq Nat
    OBVIOUS
  <2>3. PICK k \in T : \A y \in T : k <= y
    <3> HIDE DEF T
    <3>1. QED
      BY <2>1, <2>2, LeastNumber
  <2>4. k \in 0..count /\ c0[k] # W(k)
    OBVIOUS
  <2>5. c0[k] = body(c0, k)
    <3> HIDE DEF body
    <3>1. QED
      BY <1>12, <2>4
  <2>6. k # 0
    BY <1>5, <2>4, <2>5
  <2>7. k - 1 \in 0..count /\ k - 1 \notin T
    BY <2>3, <2>4, <2>6
  <2>8. c0[k - 1] = W(k - 1)
    BY <2>7
  <2>9. w[k - 1] = W(k - 1)
    BY <2>7 DEF w
  <2>10. body(c0, k) = body(w, k)
    BY <2>8, <2>9
  <2>11. QED
    BY <1>9, <2>4, <2>5, <2>10
<1>14. c0[count] = W(count)
  BY <1>13
<1>15. QED
  BY <1>4, <1>14 DEF c0, H

(* The ways through the children of a node, of the sequence s of these.      *)
Ways(s, p, v) ==
  LET hits == Hits(s, v, FALSE)
      elements == Hits(s, v, TRUE)
  IN /\ Nodes!LastChild(p, v) = Nodes!Last(s, hits)
     /\ \A i \in DOMAIN s :
          /\ Nodes!IterateChildren(p, v, s[i]) = Nodes!First(s, Over(hits, i))
          /\ Nodes!NextSiblingElement(s[i], v) = Nodes!First(s, Over(elements, i))
          /\ Nodes!PreviousSibling(s[i], v) = Nodes!Last(s, Under(hits, i))
     /\ \A i \in hits : Nodes!Child(p, v, Rank(hits, i)) = s[i]
     /\ \A i \in elements : Nodes!ChildElement(p, v, Rank(elements, i)) = s[i]
     /\ Nodes!Child(p, v, Cardinality(hits)) = NoNode
     /\ Nodes!ChildElement(p, v, Cardinality(elements)) = NoNode

(* Pointers that lead on, and back, through a sequence.                      *)
LeadsOn(s, via) == s \in Seq(Node) /\ Distinct(s) /\ \A j \in 1..Len(s) : via[s[j]] = At(s, j + 1)
LeadsBack(s, via) == s \in Seq(Node) /\ Distinct(s) /\ \A j \in 1..Len(s) : via[s[j]] = At(s, j - 1)

LEMMA FoundOn ==
  ASSUME NEW s, NEW via, LeadsOn(s, via), NEW i \in 0..Len(s), NEW v, NEW el
  PROVE  Nodes!Along(At(s, i + 1), via, v, el) = Nodes!First(s, Over(Hits(s, v, el), i))
<1>1. s \in Seq(Node) /\ Distinct(s) /\ \A j \in 1..Len(s) : via[s[j]] = At(s, j + 1)
  BY DEF LeadsOn
<1> DEFINE start == At(s, i + 1)
<1>2. start = At(s, i + 1)
  OBVIOUS
<1> HIDE DEF start
<1>3. Nodes!Along(start, via, v, el) = Nodes!First(s, Over(Hits(s, v, el), i))
  BY ONLY <1>1, <1>2, AlongOn, i \in 0..Len(s)
<1>4. QED
  BY <1>3 DEF start

LEMMA FoundBack ==
  ASSUME NEW s, NEW via, LeadsBack(s, via), NEW i \in 1..Len(s) + 1, NEW v, NEW el
  PROVE  Nodes!Along(At(s, i - 1), via, v, el) = Nodes!Last(s, Under(Hits(s, v, el), i))
<1>1. s \in Seq(Node) /\ Distinct(s) /\ \A j \in 1..Len(s) : via[s[j]] = At(s, j - 1)
  BY DEF LeadsBack
<1> DEFINE start == At(s, i - 1)
<1>2. start = At(s, i - 1)
  OBVIOUS
<1> HIDE DEF start
<1>3. Nodes!Along(start, via, v, el) = Nodes!Last(s, Under(Hits(s, v, el), i))
  BY ONLY <1>1, <1>2, AlongBack, i \in 1..Len(s) + 1
<1>4. QED
  BY <1>3 DEF start

LEMMA WaysAre ==
  ASSUME NEW p, NEW s \in Seq(Node), Distinct(s),
         \A j \in 1..Len(s) : next[s[j]] = At(s, j + 1) /\ prev[s[j]] = At(s, j - 1),
         firstChild[p] = At(s, 1), lastChild[p] = At(s, Len(s)), NEW v
  PROVE  Ways(s, p, v)
<1> DEFINE m == Len(s)
<1>1. m \in Nat /\ DOMAIN s = 1..m /\ \A j \in 1..m : s[j] \in Node /\ s[j] # NoNode
  BY RangeFacts, TreeAssumption
<1>2. LeadsOn(s, next)
  BY DEF LeadsOn
<1>3. LeadsBack(s, prev)
  BY DEF LeadsBack
<1>4. \A el : Hits(s, v, el) \subseteq 1..m /\ \A j \in Hits(s, v, el) : j \in Int /\ j < m + 1
  BY <1>1 DEF Hits
<1>5. Nodes!LastChild(p, v) = Nodes!Last(s, Hits(s, v, FALSE))
  <2>1. m + 1 \in 1..m + 1 /\ lastChild[p] = At(s, m + 1 - 1)
    BY <1>1
  <2>2. \A el : Nodes!Along(lastChild[p], prev, v, el) = Nodes!Last(s, Under(Hits(s, v, el), m + 1))
    BY <1>3, <2>1, FoundBack
  <2>3. Under(Hits(s, v, FALSE), m + 1) = Hits(s, v, FALSE)
    BY <1>4 DEF Under
  <2>4. QED
    BY <2>2, <2>3 DEF Nodes!LastChild
<1>6. ASSUME NEW i \in DOMAIN s
      PROVE  /\ Nodes!IterateChildren(p, v, s[i]) = Nodes!First(s, Over(Hits(s, v, FALSE), i))
             /\ Nodes!NextSiblingElement(s[i], v) = Nodes!First(s, Over(Hits(s, v, TRUE), i))
             /\ Nodes!PreviousSibling(s[i], v) = Nodes!Last(s, Under(Hits(s, v, FALSE), i))
  <2>1. i \in 1..m /\ i \in 0..m /\ i \in 1..m + 1 /\ s[i] # NoNode
    BY <1>1
  <2>2. next[s[i]] = At(s, i + 1) /\ prev[s[i]] = At(s, i - 1)
    BY <2>1
  <2>3. \A el : Nodes!Along(next[s[i]], next, v, el) = Nodes!First(s, Over(Hits(s, v, el), i))
    BY <1>2, <2>1, <2>2, FoundOn
  <2>4. \A el : Nodes!Along(prev[s[i]], prev, v, el) = Nodes!Last(s, Under(Hits(s, v, el), i))
    BY <1>3, <2>1, <2>2, FoundBack
  <2>5. QED
    BY <2>1, <2>3, <2>4
    DEF Nodes!IterateChildren, Nodes!NextSibling, Nodes!NextSiblingElement, Nodes!PreviousSibling
<1>7. ASSUME NEW count \in Nat
      PROVE  /\ Nodes!Child(p, v, count) =
                  Count(firstChild[p], next, v, FALSE, count)[count]
             /\ Nodes!ChildElement(p, v, count) =
                  Count(firstChild[p], next, v, TRUE, count)[count]
  BY DEF Nodes!Child, Nodes!ChildElement, Count, Counted, Nodes!FirstChild, Nodes!FirstChildElement,
         Nodes!NextSibling, Nodes!NextSiblingElement
<1>8. ASSUME NEW el, NEW count \in Nat
      PROVE  /\ \A i \in Hits(s, v, el) : Rank(Hits(s, v, el), i) = count =>
                  Count(firstChild[p], next, v, el, count)[count] = s[i]
             /\ (\A i \in Hits(s, v, el) : Rank(Hits(s, v, el), i) # count) =>
                  Count(firstChild[p], next, v, el, count)[count] = NoNode
  BY <1>2, CountedIs DEF LeadsOn
<1>9. \A el : /\ Cardinality(Hits(s, v, el)) \in Nat
              /\ \A i \in Hits(s, v, el) :
                   Rank(Hits(s, v, el), i) \in Nat /\ Rank(Hits(s, v, el), i) # Cardinality(Hits(s, v, el))
  <2>1. TAKE el
  <2>2. Hits(s, v, el) \subseteq 1..m
    BY <1>4
  <2>3. Cardinality(Hits(s, v, el)) \in Nat /\ \A i \in Hits(s, v, el) : Rank(Hits(s, v, el), i) \in Nat
    BY <1>1, <2>2, RankTypes
  <2>4. \A i \in Hits(s, v, el) : Rank(Hits(s, v, el), i) < Cardinality(Hits(s, v, el))
    BY <1>1, <2>2, RankGrows
  <2>5. QED
    BY <2>3, <2>4
<1>10. \A i \in Hits(s, v, FALSE) : Nodes!Child(p, v, Rank(Hits(s, v, FALSE), i)) = s[i]
  BY <1>7, <1>8, <1>9
<1>11. \A i \in Hits(s, v, TRUE) : Nodes!ChildElement(p, v, Rank(Hits(s, v, TRUE), i)) = s[i]
  BY <1>7, <1>8, <1>9
<1>12. /\ Nodes!Child(p, v, Cardinality(Hits(s, v, FALSE))) = NoNode
       /\ Nodes!ChildElement(p, v, Cardinality(Hits(s, v, TRUE))) = NoNode
  <2>1. ASSUME NEW el
        PROVE  Count(firstChild[p], next, v, el, Cardinality(Hits(s, v, el)))[Cardinality(Hits(s, v, el))] = NoNode
    <3>1. Cardinality(Hits(s, v, el)) \in Nat
          /\ \A i \in Hits(s, v, el) : Rank(Hits(s, v, el), i) # Cardinality(Hits(s, v, el))
      BY <1>9
    <3>2. QED
      BY <1>8, <3>1
  <2>2. QED
    BY <1>7, <1>9, <2>1
<1>13. QED
  BY <1>5, <1>6, <1>10, <1>11, <1>12 DEF Ways

(* The ways through the children of a node, on and back, by what is asked    *)
(* for, meet those children and no others, in order.                         *)
LEMMA TraversalsFollow == NodesInv => Nodes!TraversalsAgree
<1> SUFFICES ASSUME NodesInv PROVE Nodes!TraversalsAgree
  OBVIOUS
<1>1. /\ Lists(Nodes!live, kidsOf) /\ Links(kidsOf, up, firstChild, lastChild, prev, next)
      /\ \A n \in Node : Nodes!Kids(n) = kidsOf[n]
  BY InvFacts
<1>2. ASSUME NEW p \in Nodes!live, NEW v \in Value \cup {AnyValue} PROVE Ways(Nodes!Kids(p), p, v)
  <2> DEFINE s == kidsOf[p]
  <2>1. p \in Node /\ s \in Seq(Node) /\ Distinct(s) /\ Nodes!Kids(p) = s
    BY <1>1, ListsFacts
  <2>2. firstChild[p] = At(s, 1) /\ lastChild[p] = At(s, Len(s))
        /\ \A j \in 1..Len(s) : next[s[j]] = At(s, j + 1) /\ prev[s[j]] = At(s, j - 1)
    BY <1>1, <2>1 DEF Links
  <2> HIDE DEF s
  <2>3. QED
    BY <2>1, <2>2, WaysAre
<1>3. QED
  BY <1>2, SameCardinality DEF Nodes!TraversalsAgree, Ways, Hits, Rank, Under, Over

(* -------------------- what the nodes hold --------------------------------- *)

(* Every node has a type and a value, and errors are of documents.           *)
Documents == {d \in Nodes!live : type[d] = "document"}

TypesInv ==
  /\ type \in [Nodes!live -> {"document", "element", "leaf"}] /\ value \in [Nodes!live -> Value]
  /\ error \subseteq Documents

(* Who follows a pointer that leads from nodes of S to nodes of S, from one  *)
(* of these, stays there.                                                    *)
LEMMA ChainStays ==
  ASSUME NEW S, S \subseteq Node, NEW start, start \in S \cup {NoNode},
         NEW via, \A x \in S : via[x] \in S \cup {NoNode}
  PROVE  \A i \in DOMAIN Nodes!Chain(start, via) : i \in Nat /\ Nodes!Chain(start, via)[i] \in S
<1> DEFINE N == Nodes!Cardinality(Node)
           body(c, k) == IF k = 1 THEN start ELSE IF c[k - 1] = NoNode THEN NoNode ELSE via[c[k - 1]]
           c0 == CHOOSE c : c = [k \in 1..N |-> body(c, k)]
           met == {j \in 1..N : c0[j] # NoNode}
<1>1. N \in Nat
  BY SameCardinality, TreeAssumption, FS_CardinalityType
(* There is such a chain, of any length. *)
<1>2. \A m \in Nat : \E c : c = [k \in 1..m |-> body(c, k)]
  <2> DEFINE T == {m \in Nat : ~ \E c : c = [k \in 1..m |-> body(c, k)]}
  <2>1. SUFFICES ASSUME T # {} PROVE FALSE
    OBVIOUS
  <2>2. PICK m \in T : \A y \in T : m <= y
    <3>1. T \subseteq Nat
      OBVIOUS
    <3> HIDE DEF T
    <3>2. QED
      BY <2>1, <3>1, LeastNumber
  <2>3. m # 0
    <3>1. SUFFICES ASSUME m = 0 PROVE FALSE
      OBVIOUS
    <3> DEFINE e == [k \in {} |-> 0]
    <3>2. 1..0 = {} /\ e = [k \in {} |-> body(e, k)]
      OBVIOUS
    <3>3. QED
      BY <3>1, <3>2
  <2>4. m \in Nat /\ m - 1 \in Nat /\ m - 1 \notin T
    <3>1. m \in Nat /\ m - 1 \in Nat
      BY <2>3
    <3>2. SUFFICES ASSUME m - 1 \in T PROVE FALSE
      BY <3>1
    <3>3. m <= m - 1
      <4> HIDE DEF T
      <4>1. QED
        BY <2>2, <3>2
    <3>4. QED
      BY <3>1, <3>3
  <2>5. PICK c : c = [k \in 1..m - 1 |-> body(c, k)]
    BY <2>4
  <2> DEFINE d == [k \in 1..m |-> IF k < m THEN c[k] ELSE body(c, m)]
  <2>6. ASSUME NEW k \in 1..m PROVE d[k] = body(d, k)
    <3>1. k # 1 => k - 1 \in 1..m /\ k - 1 < m /\ d[k - 1] = c[k - 1]
      BY <2>4
    <3>2. body(d, k) = body(c, k)
      BY <3>1
    <3>3. CASE k < m
      <4>1. k \in 1..m - 1
        BY <2>4, <3>3
      <4>2. c[k] = body(c, k)
        <5> HIDE DEF body
        <5>1. QED
          BY <2>5, <4>1
      <4>3. d[k] = c[k]
        BY <3>3
      <4>4. QED
        BY <3>2, <4>2, <4>3
    <3>4. CASE ~ (k < m)
      <4>1. k = m
        BY <2>4, <3>4
      <4>2. d[k] = body(c, m)
        BY <3>4
      <4>3. QED
        BY <3>2, <4>1, <4>2
    <3>5. QED
      BY <3>3, <3>4
  <2>7. d = [k \in 1..m |-> body(d, k)]
    <3>1. d = [k \in 1..m |-> d[k]]
      OBVIOUS
    <3> HIDE DEF d, body
    <3>2. QED
      BY <2>6, <3>1
  <2>8. m \in T
    OBVIOUS
  <2>9. QED
    <3> HIDE DEF d, body
    <3>1. QED
      BY <2>7, <2>8
<1>3. c0 = [k \in 1..N |-> body(c0, k)]
  <2> HIDE DEF body, N
  <2>1. \E c : c = [k \in 1..N |-> body(c, k)]
    BY <1>1, <1>2
  <2>2. QED
    BY <2>1
<1>4. \A k \in 1..N : c0[k] = body(c0, k)
  <2> HIDE DEF c0, body
  <2>1. QED
    BY <1>3
<1>5. Nodes!Chain(start, via) = [k \in 1..Nodes!Cardinality(met) |-> c0[k]]
  BY DEF Nodes!Chain
<1> HIDE DEF c0
<1>6. \A k \in 1..N : c0[k] \in S \cup {NoNode}
  <2> DEFINE T == {k \in 1..N : c0[k] \notin S \cup {NoNode}}
  <2>1. SUFFICES ASSUME T # {} PROVE FALSE
    OBVIOUS
  <2>2. PICK k \in T : \A y \in T : k <= y
    <3>1. T \subseteq Nat
      BY <1>1
    <3> HIDE DEF T
    <3>2. QED
      BY <2>1, <3>1, LeastNumber
  <2>3. k \in 1..N /\ c0[k] \notin S \cup {NoNode} /\ c0[k] = body(c0, k)
    BY <1>4
  <2>4. k # 1
    BY <2>3
  <2>5. k - 1 \in 1..N /\ k - 1 \notin T
    BY <1>1, <2>2, <2>3, <2>4
  <2>6. c0[k - 1] \in S \cup {NoNode}
    BY <2>5
  <2>7. QED
    BY <2>3, <2>4, <2>6
(* It ends once and for all. *)
<1>7. \A k \in met : k # 1 => k - 1 \in met
  <2>1. TAKE k \in met
  <2>2. HAVE k # 1
  <2>3. k - 1 \in 1..N /\ c0[k] = body(c0, k)
    BY <1>1, <1>4, <2>2
  <2>4. QED
    BY <2>2, <2>3
<1> HIDE DEF N
<1>8. PICK m \in 0..N : met = 1..m
  <2> DEFINE T == {k \in Nat : k + 1 \notin met}
  <2>1. N \in T
    BY <1>1
  <2>2. PICK m \in T : \A y \in T : m <= y
    <3>1. T \subseteq Nat /\ T # {}
      BY <2>1
    <3> HIDE DEF T
    <3>2. QED
      BY <3>1, LeastNumber
  <2>3. m \in 0..N /\ m \in Nat /\ m + 1 \notin met
    BY <1>1, <2>1, <2>2
  <2>4. ASSUME NEW k \in 1..m PROVE k \in met
    <3>1. k - 1 \in Nat /\ k - 1 < m /\ k - 1 + 1 = k
      BY <2>3
    <3>2. k - 1 \notin T
      BY <2>2, <2>3, <3>1
    <3>3. QED
      BY <3>1, <3>2
  <2>5. ASSUME NEW k \in met, ~ (k \in 1..m) PROVE FALSE
    <3> DEFINE U == {x \in met : ~ (x \in 1..m)}
    <3>1. U \subseteq Nat /\ U # {}
      BY <1>1, <2>5
    <3>2. PICK x \in U : \A y \in U : x <= y
      <4> HIDE DEF U
      <4>1. QED
        BY <3>1, LeastNumber
    <3>3. x \in met /\ x \in Nat /\ x > m /\ x # m + 1
      BY <1>1, <2>3, <3>1
    <3>4. x # 1 /\ x - 1 \in Nat /\ x - 1 > m
      BY <2>3, <3>3
    <3>5. x - 1 \in met
      BY <1>7, <3>3, <3>4
    <3>6. x - 1 \in U
      BY <2>3, <3>4, <3>5
    <3>7. QED
      BY <3>2, <3>3, <3>6
  <2>6. met = 1..m
    <3>1. \A x : x \in met <=> x \in 1..m
      BY <2>4, <2>5
    <3> HIDE DEF met
    <3>2. QED
      BY <3>1
  <2>7. QED
    BY <2>3, <2>6
<1>9. Nodes!Cardinality(met) = m
  <2>1. m \in Nat
    BY <1>1, <1>8
  <2> HIDE DEF met
  <2>2. QED
    BY <1>8, <2>1, UpTo, SameCardinality
<1>10. \A i \in 1..m : i \in Nat /\ c0[i] \in S
  BY <1>1, <1>6, <1>8
<1>11. QED
  <2> HIDE DEF met
  <2>1. Nodes!Chain(start, via) = [k \in 1..m |-> c0[k]]
    BY <1>5, <1>9
  <2>2. QED
    BY <1>10, <2>1

(* The document a node is in is one that is there.                           *)
LEMMA DocumentIs ==
  ASSUME NodesInv, NEW p \in Nodes!live
  PROVE  Nodes!Document(p) \in Documents \cup {NoNode}
<1> DEFINE ch == Nodes!Chain(p, up)
           P == {i \in DOMAIN ch : type[ch[i]] = "document"}
<1>1. Nodes!live \subseteq Node /\ \A x \in Nodes!live : up[x] \in Nodes!live \cup {NoNode}
  <2>1. Lists(Nodes!live, kidsOf)
    BY InvFacts
  <2>2. QED
    BY <2>1, ListsFacts, ChildPlace
<1>2. \A i \in DOMAIN ch : i \in Nat /\ ch[i] \in Nodes!live
  BY <1>1, ChainStays
<1>3. Nodes!Document(p) = Nodes!First(ch, P)
  BY DEF Nodes!Document
<1>4. \A i \in P : ch[i] \in Documents
  BY <1>2 DEF Documents
<1>5. P \subseteq Nat /\ P \subseteq Int
  BY <1>2
<1> HIDE DEF P, ch
<1>6. CASE P = {}
  BY <1>3, <1>5, <1>6, FirstIs
<1>7. CASE P # {}
  <2>1. PICK x \in P : \A y \in P : x <= y
    BY <1>5, <1>7, LeastNumber
  <2>2. Nodes!First(ch, P) = ch[x]
    BY <1>5, <2>1, FirstIs
  <2>3. QED
    BY <1>3, <1>4, <2>2
<1>8. QED
  BY <1>6, <1>7

(* No document is below another node.                                        *)
LEMMA DocumentAlone ==
  ASSUME NodesInv, NEW n \in Node, NEW m \in Documents, m \in Below(On(kidsOf), n)
  PROVE  m = n
<1>1. On(kidsOf) \in [Node -> SUBSET Node] /\ Top(On(kidsOf), m)
  BY InvFacts, ListsFacts DEF Documents
<1>2. SUFFICES ASSUME m # n PROVE FALSE
  OBVIOUS
<1>3. PICK q \in Below(On(kidsOf), n) : m \in On(kidsOf)[q]
  BY <1>1, <1>2, BelowParent
<1>4. q \in Node
  BY <1>1, <1>3, BelowFacts
<1>5. QED
  BY <1>1, <1>3, <1>4 DEF Top

(* What stays keeps what it holds.                                           *)
LEMMA TypesKept ==
  ASSUME TypesInv, NEW D, type' = Nodes!Without(type, D), value' = Nodes!Without(value, D),
         error' \subseteq error, \A d \in error' : d \notin D
  PROVE  TypesInv'
<1>1. Nodes!live' = Nodes!live \ D
  BY DEF Nodes!live, Nodes!Without
<1>2. type' \in [Nodes!live' -> {"document", "element", "leaf"}] /\ value' \in [Nodes!live' -> Value]
  BY <1>1 DEF TypesInv, Nodes!Without
<1>3. \A d \in error' : d \in Nodes!live' /\ type'[d] = "document"
  BY <1>1 DEF TypesInv, Documents, Nodes!Without
<1>4. QED
  BY <1>2, <1>3 DEF TypesInv, Documents

(* Copies hold what they are copies of.                                      *)
LEMMA DataHeld ==
  ASSUME NodesInv, TypesInv, NEW n \in Nodes!live, NEW copy \in Nodes!Copies(n),
         NEW D, D = Below(On(kidsOf), n), NEW gone,
         type' = Nodes!Data(type, copy, gone), value' = Nodes!Data(value, copy, gone)
  PROVE  /\ D \subseteq Nodes!live /\ DOMAIN copy = D
         /\ \A x \in D : copy[x] \notin Nodes!live
         /\ Nodes!live \ gone \subseteq Nodes!live'
         /\ type' \in [Nodes!live' -> {"document", "element", "leaf"}] /\ value' \in [Nodes!live' -> Value]
         /\ \A m \in Nodes!live \ gone : type'[m] = type[m]
         /\ \A x \in D : copy[x] \notin gone => copy[x] \in Nodes!live' /\ type'[copy[x]] = type[x]
<1> DEFINE R == Range(copy)
<1>1. CopyOf(n, copy, D, R) /\ Lists(Nodes!live, kidsOf)
  BY InvFacts DEF CopyOf
<1>2. /\ copy \in [D -> Node \ Nodes!live] /\ Nodes!Range(copy) = R
      /\ \A x \in D : Nodes!Source(copy, copy[x]) = x
      /\ Copying(Nodes!live, On(kidsOf), n, copy, R)
  BY <1>1, CopiesAre
<1>3. /\ D \subseteq Nodes!live /\ R \cap Nodes!live = {}
      /\ \A x \in D : copy[x] \in R
      /\ \A q \in R : \E x \in D : q = copy[x]
  BY <1>1, <1>2, CopyingFacts
<1>4. \A m \in R : Nodes!Source(copy, m) \in Nodes!live
  BY <1>2, <1>3
<1>5. Nodes!live' = (Nodes!live \cup R) \ gone
  BY <1>2 DEF Nodes!live, Nodes!Data
<1>6. /\ type' = [m \in Nodes!live' |-> IF m \in Nodes!live THEN type[m] ELSE type[Nodes!Source(copy, m)]]
      /\ value' = [m \in Nodes!live' |-> IF m \in Nodes!live THEN value[m] ELSE value[Nodes!Source(copy, m)]]
  BY <1>2, <1>5 DEF Nodes!Data
<1> HIDE DEF R
<1>7. \A m \in Nodes!live' : m \in Nodes!live \/ Nodes!Source(copy, m) \in Nodes!live
  BY <1>4, <1>5
<1>8. type' \in [Nodes!live' -> {"document", "element", "leaf"}]
  BY <1>6, <1>7 DEF TypesInv
<1>9. value' \in [Nodes!live' -> Value]
  BY <1>6, <1>7 DEF TypesInv
<1>10. ASSUME NEW x \in D, copy[x] \notin gone PROVE copy[x] \in Nodes!live' /\ type'[copy[x]] = type[x]
  <2>1. copy[x] \in Nodes!live' /\ copy[x] \notin Nodes!live
    BY <1>3, <1>5, <1>10
  <2>2. QED
    BY <1>2, <1>6, <2>1
<1>11. \A m \in Nodes!live \ gone : m \in Nodes!live' /\ type'[m] = type[m]
  BY <1>5, <1>6
<1>12. QED
  BY <1>2, <1>3, <1>8, <1>9, <1>10, <1>11

LEMMA TypesCopied ==
  ASSUME NodesInv, TypesInv, NEW n \in Nodes!live, NEW copy \in Nodes!Copies(n), Nodes!Cloned(copy)
  PROVE  TypesInv'
<1> DEFINE gone == {}
           D == Below(On(kidsOf), n)
<1>1. /\ type' = Nodes!Data(type, copy, gone) /\ value' = Nodes!Data(value, copy, gone)
      /\ error' = error \cup {copy[x] : x \in error \cap DOMAIN copy}
  BY DEF Nodes!Cloned
<1>2. /\ DOMAIN copy = D /\ \A x : x \notin gone
      /\ type' \in [Nodes!live' -> {"document", "element", "leaf"}] /\ value' \in [Nodes!live' -> Value]
      /\ \A m \in Nodes!live : m \notin gone => m \in Nodes!live' /\ type'[m] = type[m]
      /\ \A x \in D : copy[x] \notin gone => copy[x] \in Nodes!live' /\ type'[copy[x]] = type[x]
  <2>1. \A x : x \notin gone
    OBVIOUS
  <2> HIDE DEF gone, D
  <2>2. D = Below(On(kidsOf), n)
    BY DEF D
  <2>3. QED
    BY <1>1, <2>1, <2>2, DataHeld
<1> HIDE DEF gone, D
<1>3. ASSUME NEW d \in error' PROVE d \in Nodes!live' /\ type'[d] = "document"
  <2>1. CASE d \in error
    BY <1>2, <2>1 DEF TypesInv, Documents
  <2>2. CASE d \notin error
    <3>1. PICK x \in error \cap DOMAIN copy : d = copy[x]
      BY <1>1, <1>3, <2>2
    <3>2. QED
      BY <1>2, <3>1 DEF TypesInv, Documents
  <2>3. QED
    BY <2>1, <2>2
<1>4. QED
  BY <1>2, <1>3 DEF TypesInv, Documents

LEMMA TypesReplaced ==
  ASSUME NodesInv, TypesInv, NEW n \in Nodes!live, NEW copy \in Nodes!Copies(n),
         NEW r \in Nodes!live, up[r] # NoNode, NEW gone, gone = Below(On(kidsOf), r),
         type' = Nodes!Data(type, copy, gone), value' = Nodes!Data(value, copy, gone), error' = error
  PROVE  TypesInv'
<1> DEFINE D == Below(On(kidsOf), n)
<1>1. D = Below(On(kidsOf), n)
  OBVIOUS
<1> HIDE DEF D
<1>2. /\ type' \in [Nodes!live' -> {"document", "element", "leaf"}] /\ value' \in [Nodes!live' -> Value]
      /\ Nodes!live \ gone \subseteq Nodes!live'
      /\ \A m \in Nodes!live \ gone : type'[m] = type[m]
  BY <1>1, DataHeld
<1>3. r \in Node /\ r \notin Documents
  BY NoParent, InvFacts DEF Documents
<1>4. \A d \in error : d \in Documents /\ d \notin gone
  BY <1>3, DocumentAlone DEF TypesInv
<1>5. QED
  BY <1>2, <1>4 DEF TypesInv, Documents

LEMMA TypesRefused ==
  ASSUME NodesInv, TypesInv, NEW p \in Nodes!live, Nodes!Refuse(p)
  PROVE  TypesInv'
<1>1. error' = error \cup ({Nodes!Document(p)} \ {NoNode}) /\ type' = type /\ value' = value
  BY DEF Nodes!Refuse
<1>2. error' \subseteq Documents
  BY <1>1, DocumentIs DEF TypesInv
<1>3. Nodes!live' = Nodes!live /\ Documents' = Documents
  BY <1>1 DEF Nodes!live, Documents
<1>4. QED
  BY <1>1, <1>2, <1>3 DEF TypesInv

LEMMA TypesInserted ==
  ASSUME NodesInv, TypesInv, NEW n \in Nodes!live, NEW copy \in Nodes!Copies(n), NEW p \in Nodes!live,
         NEW a, NEW b, Nodes!Inserted(p, a, n, b, copy)
  PROVE  TypesInv'
  BY TypesCopied, TypesRefused DEF Nodes!Inserted

LEMMA TypesLinked ==
  ASSUME NodesInv, TypesInv, NEW p, NEW n, Nodes!LinkEndChild(p, n)
  PROVE  TypesInv'
<1>1. p \in Nodes!live /\ n \in Nodes!live /\ p \notin Nodes!Below(n)
  BY DEF Nodes!LinkEndChild
<1>2. CASE type[n] # "document"
  <2>1. type' = type /\ value' = value /\ error' = error
    BY <1>2 DEF Nodes!LinkEndChild
  <2>2. QED
    BY <2>1 DEF TypesInv, Documents, Nodes!live
<1>3. CASE type[n] = "document"
  <2> DEFINE D == Below(On(kidsOf), n)
  <2>1. n \in Node /\ Nodes!Below(n) = D
    BY <1>1, NoParent, InvFacts
  <2>2. /\ type' = Nodes!Without(type, D) /\ value' = Nodes!Without(value, D)
        /\ error' = (error \cup ({Nodes!Document(p)} \ {NoNode})) \ {n}
    BY <1>3, <2>1 DEF Nodes!LinkEndChild, Nodes!Deleted
  <2>3. \A d \in error' : d \in Documents /\ d # n
    BY <1>1, <2>2, DocumentIs DEF TypesInv
  <2>4. \A d \in error' : d \in Documents /\ d \notin D
    BY <2>1, <2>3, DocumentAlone
  <2> HIDE DEF D
  <2>5. Nodes!live' = Nodes!live \ D
    BY <2>2 DEF Nodes!live, Nodes!Without
  <2>6. type' \in [Nodes!live' -> {"document", "element", "leaf"}] /\ value' \in [Nodes!live' -> Value]
    BY <2>2, <2>5 DEF TypesInv, Nodes!Without
  <2>7. \A d \in error' : d \in Nodes!live' /\ type'[d] = "document"
    BY <2>2, <2>4, <2>5 DEF Documents, Nodes!Without
  <2>8. QED
    BY <2>6, <2>7 DEF TypesInv, Documents
<1>4. QED
  BY <1>2, <1>3

LEMMA TypesStep ==
  ASSUME NodesInv, TypesInv, Nodes!Next
  PROVE  TypesInv'
<1>1. CASE \E n \in Node, t \in {"document", "element", "leaf"}, v \in Value : Nodes!New(n, t, v)
  <2>1. PICK n \in Node, t \in {"document", "element", "leaf"}, v \in Value : Nodes!New(n, t, v)
    BY <1>1
  <2>2. /\ n \notin Nodes!live /\ error' = error
        /\ type' = [m \in Nodes!live \cup {n} |-> IF m = n THEN t ELSE type[m]]
        /\ value' = [m \in Nodes!live \cup {n} |-> IF m = n THEN v ELSE value[m]]
    BY <2>1 DEF Nodes!New
  <2>3. Nodes!live' = Nodes!live \cup {n}
    BY <2>2 DEF Nodes!live
  <2>4. type' \in [Nodes!live' -> {"document", "element", "leaf"}] /\ value' \in [Nodes!live' -> Value]
    BY <2>2, <2>3 DEF TypesInv
  <2>5. \A d \in error' : d \in Nodes!live' /\ type'[d] = "document"
    BY <2>2, <2>3 DEF TypesInv, Documents
  <2>6. QED
    BY <2>4, <2>5 DEF TypesInv, Documents
<1>2. ASSUME NEW n \in Nodes!live, Nodes!Delete(n) PROVE TypesInv'
  <2> DEFINE D == Below(On(kidsOf), n)
  <2>1. n \in Node /\ Nodes!Below(n) = D
    BY NoParent, InvFacts
  <2>2. type' = Nodes!Without(type, D) /\ value' = Nodes!Without(value, D) /\ error' = error \ {n}
    BY <1>2, <2>1 DEF Nodes!Delete, Nodes!Deleted
  <2>3. \A d \in error' : d \notin D
    BY <2>1, <2>2, DocumentAlone DEF TypesInv
  <2> HIDE DEF D
  <2>4. QED
    BY <2>2, <2>3, TypesKept
<1>3. ASSUME NEW r \in Nodes!live, Nodes!RemoveChild(r) PROVE TypesInv'
  <2> DEFINE D == Below(On(kidsOf), r)
  <2>1. r \in Node /\ Nodes!Below(r) = D
    BY NoParent, InvFacts
  <2>2. type' = Nodes!Without(type, D) /\ value' = Nodes!Without(value, D) /\ error' = error
    BY <1>3, <2>1 DEF Nodes!RemoveChild
  <2>3. r \notin Documents
    BY <1>3, NoParent, InvFacts DEF Documents, Nodes!RemoveChild
  <2>4. \A d \in error' : d \notin D
    BY <2>1, <2>2, <2>3, DocumentAlone DEF TypesInv
  <2> HIDE DEF D
  <2>5. QED
    BY <2>2, <2>4, TypesKept
<1>4. ASSUME NEW p \in Nodes!live, Nodes!Clear(p) PROVE TypesInv'
  <2> DEFINE D == Below(On(kidsOf), p) \ {p}
  <2>1. p \in Node /\ Nodes!Below(p) \ {p} = D
    BY NoParent, InvFacts
  <2>2. type' = Nodes!Without(type, D) /\ value' = Nodes!Without(value, D) /\ error' = error
    BY <1>4, <2>1 DEF Nodes!Clear
  <2>3. \A d \in error' : d \notin D
    BY <2>1, <2>2, DocumentAlone DEF TypesInv
  <2> HIDE DEF D
  <2>4. QED
    BY <2>2, <2>3, TypesKept
<1>5. ASSUME NEW p \in Nodes!live, NEW n \in Nodes!live, Nodes!LinkEndChild(p, n) PROVE TypesInv'
  BY <1>5, TypesLinked
<1>6. ASSUME NEW n \in Nodes!live, NEW copy \in Nodes!Copies(n), Nodes!Clone(n, copy) PROVE TypesInv'
  BY <1>6, TypesCopied DEF Nodes!Clone
<1>7. ASSUME NEW n \in Nodes!live, NEW copy \in Nodes!Copies(n), NEW p \in Nodes!live,
             \/ Nodes!InsertEndChild(p, n, copy) \/ Nodes!InsertBeforeChild(p, n, copy)
             \/ Nodes!InsertAfterChild(p, n, copy)
      PROVE  TypesInv'
  <2>1. CASE Nodes!InsertEndChild(p, n, copy)
    BY <2>1, TypesInserted DEF Nodes!InsertEndChild
  <2>2. CASE Nodes!InsertBeforeChild(p, n, copy)
    BY <2>2, ChildPlace, TypesInserted DEF Nodes!InsertBeforeChild
  <2>3. CASE Nodes!InsertAfterChild(p, n, copy)
    BY <2>3, ChildPlace, TypesInserted DEF Nodes!InsertAfterChild
  <2>4. QED
    BY <1>7, <2>1, <2>2, <2>3
<1>8. ASSUME NEW n \in Nodes!live, NEW copy \in Nodes!Copies(n), NEW r \in Nodes!live,
             Nodes!ReplaceChild(r, n, copy)
      PROVE  TypesInv'
  <2>1. up[r] # NoNode /\ up[r] \in Nodes!live
    BY <1>8, ChildPlace DEF Nodes!ReplaceChild
  <2>2. CASE type[n] = "document"
    BY <1>8, <2>1, <2>2, TypesRefused DEF Nodes!ReplaceChild
  <2>3. CASE type[n] # "document"
    <3> DEFINE D == Below(On(kidsOf), r)
    <3>1. Nodes!Below(r) = D
      BY NoParent, InvFacts
    <3>2. type' = Nodes!Data(type, copy, D) /\ value' = Nodes!Data(value, copy, D) /\ error' = error
      BY <1>8, <2>3, <3>1 DEF Nodes!ReplaceChild
    <3> HIDE DEF D
    <3>3. D = Below(On(kidsOf), r)
      BY DEF D
    <3>4. QED
      BY <2>1, <3>2, <3>3, TypesReplaced
  <2>4. QED
    BY <2>2, <2>3
<1>9. QED
  BY <1>1, <1>2, <1>3, <1>4, <1>5, <1>6, <1>7, <1>8 DEF Nodes!Next

(* However nodes are made, copied, refused and deleted, every node that is   *)
(* there has a type and a value, and only a document that is there has an    *)
(* error set.                                                                *)
THEOREM NodesStayTyped == AllSpec => []TypesInv
<1>1. AllInit => TypesInv
  <2>1. SUFFICES ASSUME Nodes!Init PROVE TypesInv
    BY DEF AllInit
  <2>2. DOMAIN type = {} /\ type = [n \in {} |-> ""] /\ value = type /\ error = {}
    BY <2>1 DEF Nodes!Init
  <2>3. QED
    BY <2>2 DEF TypesInv, Documents, Nodes!live
<1>2. NodesInv /\ TypesInv /\ [AllNext]_<<used, vars, nodes, attributes>> => TypesInv'
  <2>1. SUFFICES ASSUME NodesInv, TypesInv, [AllNext]_<<used, vars, nodes, attributes>> PROVE TypesInv'
    OBVIOUS
  <2>2. CASE UNCHANGED nodes
    BY <2>1, <2>2 DEF nodes, TypesInv, Documents, Nodes!live
  <2>3. CASE Nodes!Next
    BY <2>1, <2>3, TypesStep
  <2>4. QED
    BY <2>1, <2>2, <2>3 DEF AllNext
<1>3. QED
  BY <1>1, <1>2, NodesStayLinked, PTL DEF AllSpec

(* The types the run checks.                                                 *)
LEMMA TypesFollow == NodesInv /\ TypesInv => Nodes!TypeOK
<1> SUFFICES ASSUME NodesInv, TypesInv PROVE Nodes!TypeOK
  OBVIOUS
<1>1. Nodes!live \subseteq Node
  BY InvFacts, ListsFacts
<1>2. {up, firstChild, lastChild, prev, next} \subseteq [Node -> Node \cup {NoNode}]
  BY InvFacts, PointerTypes
<1>3. QED
  BY <1>1, <1>2 DEF TypesInv, Documents, Nodes!TypeOK

(* What the run checks of the nodes follows from what the pointers are,      *)
(* and from the types.                                                       *)
LEMMA NodesFollow == NodesInv /\ TypesInv => Nodes!NodesSound
  BY MirrorFollows, WholeFollows, TraversalsFollow, TypesFollow DEF Nodes!NodesSound

(* ----------------------- TinyXmlAttributes ------------------------------- *)

(* What the ring has at a place: the sentinel before the first and after the *)
(* last.                                                                     *)
Place(s, i) == IF i \in 1..Len(s) THEN s[i] ELSE Sentinel

(* The pointers are those of a ring through the sentinel and the attributes  *)
(* of s, and null in the others.                                             *)
Ringed(s, nx, pv) ==
  /\ s \in Seq(Attribute) /\ Distinct(s)
  /\ nx \in [Attribute \cup {Sentinel} -> Attribute \cup {Sentinel, "none"}]
  /\ pv \in [Attribute \cup {Sentinel} -> Attribute \cup {Sentinel, "none"}]
  /\ nx[Sentinel] = Place(s, 1) /\ pv[Sentinel] = Place(s, Len(s))
  /\ \A i \in 1..Len(s) : nx[s[i]] = Place(s, i + 1) /\ pv[s[i]] = Place(s, i - 1)
  /\ \A a \in Attribute : (\A i \in 1..Len(s) : s[i] # a) => nx[a] = "none" /\ pv[a] = "none"

(* No name comes twice, and what was given are the names and values.         *)
Named(s, nm, vl, gv) ==
  /\ nm \in [Attribute -> Name \cup {"empty"}] /\ vl \in [Attribute -> Text \cup {"empty"}]
  /\ \A i, j \in 1..Len(s) : nm[s[i]] = nm[s[j]] => i = j
  /\ gv = [i \in 1..Len(s) |-> <<nm[s[i]], vl[s[i]]>>]

AttributesInv ==
  /\ Ringed(Attributes!Members, after, before)
  /\ Named(Attributes!Members, name, text, given)

LEMMA MembersFacts ==
  ASSUME NEW s \in Seq(Attribute)
  PROVE  Len(s) \in Nat /\ DOMAIN s = 1..Len(s) /\ \A i \in 1..Len(s) : s[i] \in Attribute
  BY LenProperties, ElementOfSeq

LEMMA PlaceFacts ==
  ASSUME NEW s \in Seq(Attribute), Distinct(s)
  PROVE  /\ \A i \in Int : Place(s, i) \in Attribute \cup {Sentinel} /\ Place(s, i) # "none"
         /\ \A i \in Int : Place(s, i) = Sentinel <=> i \notin 1..Len(s)
         /\ \A i \in 1..Len(s) : Place(s, i) = s[i]
         /\ \A i, j \in Int : Place(s, i) = Place(s, j) /\ Place(s, i) # Sentinel => i = j
  BY MembersFacts, AttributesAssumption DEF Place, Distinct

(* Who goes on along a pointer as far as one of ends meets the attributes of *)
(* t, if it begins with the first of these, goes from each to the next, and  *)
(* comes to an end after the last.                                           *)
Leading(t, via, ends) ==
  /\ t \in Seq(Attribute) /\ Distinct(t)
  /\ t = <<>> => via[Sentinel] \notin Attribute
  /\ t # <<>> => via[Sentinel] = t[1] /\ via[t[Len(t)]] \in ends
  /\ \A j \in 1..Len(t) - 1 : via[t[j]] = t[j + 1] /\ t[j + 1] \notin ends

LEMMA RingIs ==
  ASSUME NEW t, NEW via, NEW ends, Leading(t, via, ends)
  PROVE  Attributes!Ring(via, ends) = t
<1> DEFINE N == Attributes!Cardinality(Attribute)
           m == Len(t)
           body(c, k) == IF k = 1 THEN via[Sentinel]
                         ELSE IF c[k - 1] \notin Attribute \/ via[c[k - 1]] \in ends THEN "none"
                         ELSE via[c[k - 1]]
           W(k) == IF k \in 1..m THEN t[k] ELSE IF k = 1 THEN via[Sentinel] ELSE "none"
           w == [k \in 1..N |-> W(k)]
           c0 == CHOOSE c : c = [k \in 1..N |-> body(c, k)]
<1>1. /\ t \in Seq(Attribute) /\ Distinct(t)
      /\ m = 0 => via[Sentinel] \notin Attribute
      /\ m # 0 => via[Sentinel] = t[1] /\ via[t[m]] \in ends
      /\ \A j \in 1..m - 1 : via[t[j]] = t[j + 1] /\ t[j + 1] \notin ends
  <2>1. t \in Seq(Attribute)
    BY DEF Leading
  <2>2. t = <<>> <=> Len(t) = 0
    BY <2>1, EmptySeq
  <2>3. QED
    BY <2>1, <2>2 DEF Leading
<1>2. N = Cardinality(Attribute)
  BY DEF Attributes!Cardinality, Cardinality
<1>3. m \in Nat /\ N \in Nat /\ m <= N /\ \A j \in 1..m : t[j] \in Attribute
  BY <1>1, <1>2, DistinctLength, AttributesAssumption, MembersFacts
<1> HIDE DEF m, N
<1>4. /\ \A k \in 1..m : W(k) = t[k] /\ W(k) \in Attribute
      /\ \A k \in 1..N : k \notin 1..m => W(k) \notin Attribute
      /\ \A k \in 1..N : k > m /\ k # 1 => W(k) = "none"
  <2>1. \A k \in 1..m : W(k) = t[k] /\ W(k) \in Attribute
    BY <1>3
  <2>2. ASSUME NEW k \in 1..N, k \notin 1..m PROVE W(k) \notin Attribute
    <3>1. CASE k = 1
      <4>1. m = 0
        BY <1>3, <2>2, <3>1
      <4>2. QED
        BY <1>1, <2>2, <3>1, <4>1
    <3>2. CASE k # 1
      BY <2>2, <3>2, AttributesAssumption
    <3>3. QED
      BY <3>1, <3>2
  <2>3. \A k \in 1..N : k > m /\ k # 1 => W(k) = "none"
    BY <1>3
  <2>4. QED
    BY <2>1, <2>2, <2>3
<1>5. W(1) = via[Sentinel]
  <2>1. CASE m = 0
    BY <2>1
  <2>2. CASE m # 0
    <3>1. 1 \in 1..m
      BY <1>3, <2>2
    <3>2. QED
      BY <1>1, <2>2, <3>1
  <2>3. QED
    BY <2>1, <2>2
<1> HIDE DEF W
<1>6. \A k \in 1..N : body(w, k) = W(k)
  <2>1. TAKE k \in 1..N
  <2>2. CASE k = 1
    BY <1>5, <2>2
  <2>3. CASE k # 1
    <3>1. k - 1 \in 1..N /\ k - 1 \in Int /\ k \in Int /\ k - 1 + 1 = k
      BY <1>3, <2>3
    <3>2. w[k - 1] = W(k - 1)
      BY <3>1
    <3>3. CASE k \in 1..m
      <4>1. k - 1 \in 1..m - 1 /\ k - 1 \in 1..m
        BY <1>3, <2>3, <3>1, <3>3
      <4>2. W(k - 1) = t[k - 1] /\ W(k - 1) \in Attribute
        BY <1>4, <4>1
      <4>3. via[t[k - 1]] = t[k] /\ t[k] \notin ends
        BY <1>1, <3>1, <4>1
      <4>4. W(k) = t[k]
        BY <1>4, <3>3
      <4>5. QED
        BY <2>3, <3>2, <4>2, <4>3, <4>4
    <3>4. CASE k \notin 1..m
      <4>1. k > m
        BY <1>3, <3>1, <3>4
      <4>2. W(k) = "none"
        BY <1>4, <2>3, <4>1
      <4>3. W(k - 1) \notin Attribute \/ via[W(k - 1)] \in ends
        <5>1. CASE k - 1 \in 1..m
          <6>1. k - 1 = m /\ m # 0
            BY <1>3, <3>1, <4>1, <5>1
          <6>2. W(k - 1) = t[m]
            BY <1>4, <5>1, <6>1
          <6>3. QED
            BY <1>1, <6>1, <6>2
        <5>2. CASE k - 1 \notin 1..m
          BY <1>4, <3>1, <5>2
        <5>3. QED
          BY <5>1, <5>2
      <4>4. QED
        BY <2>3, <3>2, <4>2, <4>3
    <3>5. QED
      BY <3>3, <3>4
  <2>4. QED
    BY <2>2, <2>3
<1>7. w = [k \in 1..N |-> body(w, k)]
  BY <1>6
<1>8. c0 = [k \in 1..N |-> body(c0, k)]
  <2> HIDE DEF body, w
  <2>1. \E c : c = [k \in 1..N |-> body(c, k)]
    BY <1>7
  <2>2. QED
    BY <2>1
<1> HIDE DEF c0, w
<1>9. \A k \in 1..N : c0[k] = W(k)
  <2> DEFINE T == {k \in 1..N : c0[k] # W(k)}
  <2>1. SUFFICES ASSUME T # {} PROVE FALSE
    OBVIOUS
  <2>2. T \subseteq Nat
    BY <1>3
  <2>3. PICK k \in T : \A y \in T : k <= y
    <3> HIDE DEF T
    <3>1. QED
      BY <2>1, <2>2, LeastNumber
  <2>4. k \in 1..N /\ c0[k] # W(k)
    OBVIOUS
  <2>5. c0[k] = body(c0, k)
    <3> HIDE DEF body
    <3>1. QED
      BY <1>8, <2>4
  <2>6. k # 1
    BY <1>5, <2>4, <2>5
  <2>7. k - 1 \in 1..N /\ k - 1 \notin T
    BY <1>3, <2>3, <2>4, <2>6
  <2>8. c0[k - 1] = W(k - 1)
    BY <2>7
  <2>9. w[k - 1] = W(k - 1)
    BY <2>7 DEF w
  <2>10. body(c0, k) = body(w, k)
    BY <2>8, <2>9
  <2>11. QED
    BY <1>6, <2>4, <2>5, <2>10
<1>10. Attributes!Ring(via, ends) =
         [k \in 1..Attributes!Cardinality({j \in 1..N : c0[j] \in Attribute}) |-> c0[k]]
  BY DEF Attributes!Ring, Attributes!None, c0, N
<1>11. {j \in 1..N : c0[j] \in Attribute} = 1..m
  <2>1. \A j \in 1..N : c0[j] \in Attribute <=> j \in 1..m
    BY <1>4, <1>9
  <2>2. \A j \in 1..m : j \in 1..N
    BY <1>3
  <2>3. QED
    BY <2>1, <2>2
<1>12. Attributes!Cardinality(1..m) = m
  <2>1. Cardinality(1..m) = m
    BY <1>3, UpTo
  <2>2. QED
    BY <2>1 DEF Attributes!Cardinality, Cardinality
<1>13. Attributes!Ring(via, ends) = [k \in 1..m |-> c0[k]]
  BY <1>10, <1>11, <1>12
<1>14. \A k \in 1..m : c0[k] = t[k]
  <2>1. \A j \in 1..m : j \in 1..N
    BY <1>3
  <2>2. QED
    BY <1>4, <1>9, <2>1
<1>15. t = [k \in 1..m |-> t[k]]
  BY <1>1, LenProperties DEF m
<1>16. QED
  BY <1>13, <1>14, <1>15

(* The ring met is the sequence the pointers are those of.                   *)
LEMMA RingedMembers ==
  ASSUME NEW s, NEW nx, NEW pv, Ringed(s, nx, pv)
  PROVE  Attributes!Ring(nx, {Sentinel}) = s
<1>1. s \in Seq(Attribute) /\ Distinct(s) /\ nx[Sentinel] = Place(s, 1)
      /\ \A i \in 1..Len(s) : nx[s[i]] = Place(s, i + 1)
  BY DEF Ringed
<1>2. Len(s) \in Nat /\ \A i \in 1..Len(s) : s[i] \in Attribute /\ s[i] # Sentinel
  BY <1>1, MembersFacts, AttributesAssumption
<1>3. s = <<>> <=> Len(s) = 0
  BY <1>1, EmptySeq
<1>4. Len(s) = 0 => nx[Sentinel] \notin Attribute
  BY <1>1, AttributesAssumption DEF Place
<1>5. Len(s) # 0 => nx[Sentinel] = s[1] /\ nx[s[Len(s)]] \in {Sentinel}
  <2>1. ASSUME Len(s) # 0 PROVE nx[Sentinel] = s[1] /\ nx[s[Len(s)]] \in {Sentinel}
    <3>1. 1 \in 1..Len(s) /\ Len(s) \in 1..Len(s) /\ Len(s) + 1 \notin 1..Len(s)
      BY <1>2, <2>1
    <3>2. nx[s[Len(s)]] = Place(s, Len(s) + 1)
      BY <1>1, <3>1
    <3>3. QED
      BY <1>1, <3>1, <3>2 DEF Place
  <2>2. QED
    BY <2>1
<1>6. \A j \in 1..Len(s) - 1 : nx[s[j]] = s[j + 1] /\ s[j + 1] \notin {Sentinel}
  <2>1. TAKE j \in 1..Len(s) - 1
  <2>2. j \in 1..Len(s) /\ j + 1 \in 1..Len(s)
    BY <1>2
  <2>3. nx[s[j]] = Place(s, j + 1)
    BY <1>1, <2>2
  <2>4. QED
    BY <1>2, <2>2, <2>3 DEF Place
<1>7. Leading(s, nx, {Sentinel})
  BY <1>1, <1>3, <1>4, <1>5, <1>6 DEF Leading
<1>8. QED
  BY <1>7, RingIs

LEMMA AttrInv ==
  ASSUME NEW s, Ringed(s, after', before'), Named(s, name', text', given')
  PROVE  AttributesInv'
<1>1. Attributes!Ring(after', {Sentinel}) = s
  BY RingedMembers
<1>2. Attributes!Members' = s
  BY <1>1 DEF Attributes!Members
<1>3. QED
  BY <1>2 DEF AttributesInv

(* A new attribute is linked between the last one and the sentinel.          *)
Added(nx, pv, a, nx2, pv2) ==
  /\ a \in Attribute /\ nx[a] = "none"
  /\ nx2 = [nx EXCEPT ![a] = Sentinel, ![pv[Sentinel]] = a]
  /\ pv2 = [pv EXCEPT ![a] = pv[Sentinel], ![Sentinel] = a]

LEMMA AddRing ==
  ASSUME NEW s, NEW nx, NEW pv, Ringed(s, nx, pv),
         NEW a, NEW nx2, NEW pv2, Added(nx, pv, a, nx2, pv2)
  PROVE  Ringed(Append(s, a), nx2, pv2)
<1> DEFINE t == Append(s, a)
           m == Len(s)
           AS == Attribute \cup {Sentinel}
           z == pv[Sentinel]
<1>1. /\ s \in Seq(Attribute) /\ Distinct(s)
      /\ nx \in [AS -> Attribute \cup {Sentinel, "none"}]
      /\ pv \in [AS -> Attribute \cup {Sentinel, "none"}]
      /\ nx[Sentinel] = Place(s, 1) /\ z = Place(s, m)
      /\ \A i \in 1..m : nx[s[i]] = Place(s, i + 1) /\ pv[s[i]] = Place(s, i - 1)
      /\ \A b \in Attribute : (\A i \in 1..m : s[i] # b) => nx[b] = "none" /\ pv[b] = "none"
  BY DEF Ringed
<1>2. /\ m \in Nat /\ \A i \in 1..m : s[i] \in Attribute
      /\ a \in Attribute /\ a # Sentinel /\ nx[a] = "none"
  BY <1>1, MembersFacts, AttributesAssumption DEF Added
<1>3. /\ \A i \in Int : Place(s, i) \in AS /\ Place(s, i) # "none"
      /\ \A i \in Int : Place(s, i) = Sentinel <=> i \notin 1..m
      /\ \A i \in 1..m : Place(s, i) = s[i]
      /\ \A i, j \in Int : Place(s, i) = Place(s, j) /\ Place(s, i) # Sentinel => i = j
  BY <1>1, PlaceFacts
<1>4. \A i \in 1..m : s[i] # a
  <2>1. TAKE i \in 1..m
  <2>2. i + 1 \in Int
    BY <1>2
  <2>3. nx[s[i]] # "none"
    BY <1>1, <1>3, <2>2
  <2>4. QED
    BY <1>2, <2>3
<1>5. t \in Seq(Attribute) /\ Len(t) = m + 1 /\ t[m + 1] = a /\ \A j \in 1..m : t[j] = s[j]
  BY <1>1, <1>2, AppendProperties
<1>6. z \in AS /\ z # a /\ z # "none"
  <2>1. m \in Int
    BY <1>2
  <2>2. z = Sentinel \/ \E i \in 1..m : z = s[i]
    BY <1>1, <1>3, <2>1
  <2>3. QED
    BY <1>1, <1>2, <1>3, <1>4, <2>1, <2>2
<1>7. /\ nx2 \in [AS -> Attribute \cup {Sentinel, "none"}] /\ pv2 \in [AS -> Attribute \cup {Sentinel, "none"}]
      /\ nx2[a] = Sentinel /\ nx2[z] = a /\ pv2[a] = z /\ pv2[Sentinel] = a
      /\ \A x \in AS : x # a /\ x # z => nx2[x] = nx[x]
      /\ \A x \in AS : x # a /\ x # Sentinel => pv2[x] = pv[x]
  <2> HIDE DEF z
  <2>1. nx2 = [nx EXCEPT ![a] = Sentinel, ![z] = a] /\ pv2 = [pv EXCEPT ![a] = z, ![Sentinel] = a]
    BY DEF Added, z
  <2>2. QED
    BY ONLY <1>1, <1>2, <1>6, <2>1
<1> HIDE DEF t, z
<1>8. /\ \A j \in Int : j <= m => Place(t, j) = Place(s, j)
      /\ Place(t, m + 1) = a /\ Place(t, m + 2) = Sentinel
  BY <1>2, <1>5 DEF Place
<1>9. Distinct(t)
  <2>1. ASSUME NEW x \in 1..m + 1, NEW y \in 1..m + 1, t[x] = t[y] PROVE x = y
    <3>1. CASE x \in 1..m /\ y \in 1..m
      BY <1>1, <1>5, <2>1, <3>1 DEF Distinct
    <3>2. CASE x \notin 1..m \/ y \notin 1..m
      <4>1. x = m + 1 \/ y = m + 1
        BY <1>2, <3>2
      <4>2. x \in 1..m => t[x] # a
        BY <1>4, <1>5
      <4>3. y \in 1..m => t[y] # a
        BY <1>4, <1>5
      <4>4. QED
        BY <1>2, <1>5, <2>1, <4>1, <4>2, <4>3
    <3>3. QED
      BY <3>1, <3>2
  <2>2. QED
    BY <1>5, <2>1 DEF Distinct
<1>10. nx2[Sentinel] = Place(t, 1)
  <2>1. CASE m = 0
    <3>1. z = Sentinel
      BY <1>1, <1>2, <1>3, <2>1
    <3>2. QED
      BY <1>7, <1>8, <2>1, <3>1
  <2>2. CASE m # 0
    <3>1. m \in 1..m /\ 1 \in Int /\ 1 <= m
      BY <1>2, <2>2
    <3>2. z # Sentinel
      BY <1>1, <1>3, <3>1
    <3>3. nx2[Sentinel] = Place(s, 1)
      BY <1>1, <1>2, <1>7, <3>2
    <3>4. QED
      BY <1>8, <3>1, <3>3
  <2>3. QED
    BY <2>1, <2>2
<1>11. ASSUME NEW i \in 1..m + 1 PROVE nx2[t[i]] = Place(t, i + 1) /\ pv2[t[i]] = Place(t, i - 1)
  <2>1. CASE i = m + 1
    <3>1. t[i] = a /\ i + 1 = m + 2 /\ i - 1 = m
      BY <1>2, <1>5, <2>1
    <3>2. Place(t, m) = z
      BY <1>1, <1>2, <1>8
    <3>3. QED
      BY <1>7, <1>8, <3>1, <3>2
  <2>2. CASE i # m + 1
    <3>1. i \in 1..m /\ i - 1 \in Int /\ i + 1 \in Int /\ i - 1 <= m /\ i \in Int /\ m \in Int
      BY <1>2, <2>2
    <3>2. t[i] = s[i] /\ s[i] \in AS /\ s[i] # a /\ s[i] # Sentinel
      BY <1>2, <1>4, <1>5, <3>1, AttributesAssumption
    <3>3. pv2[t[i]] = Place(t, i - 1)
      BY <1>1, <1>7, <1>8, <3>1, <3>2
    <3>4. CASE i = m
      <4>1. z = s[i]
        BY <1>1, <1>3, <3>1, <3>4
      <4>2. nx2[t[i]] = a
        BY <1>7, <3>2, <4>1
      <4>3. QED
        BY <1>8, <3>3, <3>4, <4>2
    <3>5. CASE i # m
      <4>1. i + 1 <= m
        BY <3>1, <3>5
      <4>2. s[i] # z
        BY <1>1, <1>3, <3>1, <3>2, <3>5
      <4>3. nx2[t[i]] = Place(s, i + 1)
        BY <1>1, <1>7, <3>1, <3>2, <4>2
      <4>4. QED
        BY <1>8, <3>1, <3>3, <4>1, <4>3
    <3>6. QED
      BY <3>4, <3>5
  <2>3. QED
    BY <2>1, <2>2
<1>12. ASSUME NEW b \in Attribute, \A i \in 1..m + 1 : t[i] # b PROVE nx2[b] = "none" /\ pv2[b] = "none"
  <2>1. \A i \in 1..m : s[i] # b
    <3>1. TAKE i \in 1..m
    <3>2. i \in 1..m + 1
      BY <1>2
    <3>3. QED
      BY <1>5, <1>12, <3>2
  <2>2. b # a
    <3>1. m + 1 \in 1..m + 1
      BY <1>2
    <3>2. QED
      BY <1>5, <1>12, <3>1
  <2>3. b # z
    <3>1. nx[b] = "none" /\ m \in Int
      BY <1>1, <1>2, <2>1
    <3>2. z = Sentinel \/ \E i \in 1..m : z = s[i]
      BY <1>1, <1>3, <3>1
    <3>3. QED
      BY <2>1, <3>2, AttributesAssumption
  <2>4. b # Sentinel /\ b \in AS
    BY AttributesAssumption
  <2>5. QED
    BY <1>1, <1>7, <2>1, <2>2, <2>3, <2>4
<1>13. pv2[Sentinel] = Place(t, m + 1)
  BY <1>7, <1>8
<1>14. QED
  BY <1>5, <1>7, <1>9, <1>10, <1>11, <1>12, <1>13 DEF Ringed, t

LEMMA RemMembers ==
  ASSUME NEW s \in Seq(Attribute), Distinct(s), NEW i \in 1..Len(s)
  PROVE  /\ Rem(s, i) \in Seq(Attribute) /\ Len(Rem(s, i)) = Len(s) - 1 /\ Distinct(Rem(s, i))
         /\ \A j \in 1..Len(s) - 1 : Rem(s, i)[j] = IF j < i THEN s[j] ELSE s[j + 1]
         /\ \A b \in Attribute : b # s[i] =>
              ((\A j \in 1..Len(s) - 1 : Rem(s, i)[j] # b) => \A j \in 1..Len(s) : s[j] # b)
         /\ \A j \in Int : Place(Rem(s, i), j) = IF j < i THEN Place(s, j) ELSE Place(s, j + 1)
<1> DEFINE t == Rem(s, i)
           n == Len(s)
<1>1. n \in Nat /\ i \in Nat /\ i \in 1..n /\ n # 0 /\ \A j \in 1..n : s[j] \in Attribute
  BY MembersFacts
<1>2. \A j \in 1..n - 1 : t[j] = IF j < i THEN s[j] ELSE s[j + 1]
  BY DEF Rem
<1>3. t = [j \in 1..n - 1 |-> IF j < i THEN s[j] ELSE s[j + 1]]
  BY DEF Rem
<1>4. \A j \in 1..n - 1 : (IF j < i THEN s[j] ELSE s[j + 1]) \in Attribute
  BY <1>1
<1>5. t \in [1..n - 1 -> Attribute]
  BY <1>3, <1>4
<1>6. t \in Seq(Attribute) /\ Len(t) = n - 1
  <2>1. n - 1 \in Nat
    BY <1>1
  <2>2. t \in Seq(Attribute)
    BY <1>5, <2>1, SeqDef
  <2>3. QED
    BY <1>5, <2>1, <2>2, LenProperties
<1>7. \A x, y \in 1..n : s[x] = s[y] => x = y
  BY DEF Distinct
<1> HIDE DEF t, n
<1>8. ASSUME NEW j \in 1..n - 1
      PROVE  \E k \in 1..n : k # i /\ t[j] = s[k] /\ k = (IF j < i THEN j ELSE j + 1)
  <2>1. CASE j < i
    <3>1. t[j] = s[j] /\ j \in 1..n /\ j # i
      BY <1>1, <1>2, <2>1
    <3>2. QED
      BY <3>1, <2>1
  <2>2. CASE ~(j < i)
    <3>1. t[j] = s[j + 1] /\ j + 1 \in 1..n /\ j + 1 # i
      BY <1>1, <1>2, <2>2
    <3>2. QED
      BY <3>1, <2>2
  <2>3. QED
    BY <2>1, <2>2
<1>9. ASSUME NEW j \in 1..n - 1, NEW k \in 1..n - 1, t[j] = t[k] PROVE j = k
  <2>1. PICK x \in 1..n : t[j] = s[x] /\ x = (IF j < i THEN j ELSE j + 1)
    BY <1>8
  <2>2. PICK y \in 1..n : t[k] = s[y] /\ y = (IF k < i THEN k ELSE k + 1)
    BY <1>8
  <2>3. x = y
    BY <1>7, <1>9, <2>1, <2>2
  <2>4. QED
    BY <1>1, <2>1, <2>2, <2>3
<1>10. ASSUME NEW j \in 1..n, j # i PROVE \E k \in 1..n - 1 : t[k] = s[j]
  <2>1. CASE j < i
    <3>1. t[j] = s[j] /\ j \in 1..n - 1
      BY <1>1, <1>2, <2>1
    <3>2. QED
      BY <3>1
  <2>2. CASE j > i
    <3>1. j - 1 \in 1..n - 1 /\ ~ (j - 1 < i) /\ j - 1 + 1 = j
      BY <1>1, <2>2
    <3>2. t[j - 1] = s[j]
      BY <1>2, <3>1
    <3>3. QED
      BY <3>1, <3>2
  <2>3. QED
    BY <1>1, <1>10, <2>1, <2>2
<1>11. ASSUME NEW b \in Attribute, b # s[i], \A j \in 1..n - 1 : t[j] # b, NEW j \in 1..n PROVE s[j] # b
  BY <1>10, <1>11
<1>12. \A j \in Int : Place(t, j) = IF j < i THEN Place(s, j) ELSE Place(s, j + 1)
  <2>1. \A j \in Int : Place(t, j) = IF j \in 1..n - 1 THEN t[j] ELSE Sentinel
    BY <1>6 DEF Place
  <2>2. \A j \in Int : Place(s, j) = IF j \in 1..n THEN s[j] ELSE Sentinel
    BY DEF Place, n
  <2>3. ASSUME NEW j \in Int, j < i PROVE Place(t, j) = Place(s, j)
    BY <1>1, <1>2, <2>1, <2>2, <2>3
  <2>4. ASSUME NEW j \in Int, ~ (j < i) PROVE Place(t, j) = Place(s, j + 1)
    BY <1>1, <1>2, <2>1, <2>2, <2>4
  <2>5. QED
    BY <2>3, <2>4
<1>13. Distinct(t)
  BY <1>6, <1>9 DEF Distinct
<1>14. QED
  BY <1>2, <1>6, <1>11, <1>12, <1>13 DEF t, n

(* An attribute is taken out between its neighbours.                         *)
Dropped(nx, pv, a, nx2, pv2) ==
  /\ nx2 = [nx EXCEPT ![pv[a]] = nx[a], ![a] = "none"]
  /\ pv2 = [pv EXCEPT ![nx[a]] = pv[a], ![a] = "none"]

LEMMA DropRing ==
  ASSUME NEW s, NEW nx, NEW pv, Ringed(s, nx, pv), NEW i \in 1..Len(s),
         NEW nx2, NEW pv2, Dropped(nx, pv, s[i], nx2, pv2)
  PROVE  Ringed(Rem(s, i), nx2, pv2)
<1> DEFINE t == Rem(s, i)
           m == Len(s)
           a == s[i]
           AS == Attribute \cup {Sentinel}
           x == pv[a]
           y == nx[a]
<1>1. /\ s \in Seq(Attribute) /\ Distinct(s)
      /\ nx \in [AS -> Attribute \cup {Sentinel, "none"}]
      /\ pv \in [AS -> Attribute \cup {Sentinel, "none"}]
      /\ nx[Sentinel] = Place(s, 1) /\ pv[Sentinel] = Place(s, m)
      /\ \A j \in 1..m : nx[s[j]] = Place(s, j + 1) /\ pv[s[j]] = Place(s, j - 1)
      /\ \A b \in Attribute : (\A j \in 1..m : s[j] # b) => nx[b] = "none" /\ pv[b] = "none"
  BY DEF Ringed
<1>2. m \in Nat /\ i \in 1..m /\ i \in Int /\ i - 1 \in Int /\ i + 1 \in Int
      /\ (\A j \in 1..m : s[j] \in Attribute /\ s[j] # Sentinel) /\ a \in Attribute /\ a # Sentinel
  BY <1>1, MembersFacts, AttributesAssumption
<1>3. /\ \A j \in Int : Place(s, j) \in AS /\ Place(s, j) # "none"
      /\ \A j \in Int : Place(s, j) = Sentinel <=> j \notin 1..m
      /\ \A j \in 1..m : Place(s, j) = s[j]
      /\ \A j, k \in Int : Place(s, j) = Place(s, k) /\ Place(s, j) # Sentinel => j = k
  BY <1>1, PlaceFacts
<1>4. /\ t \in Seq(Attribute) /\ Len(t) = m - 1 /\ Distinct(t)
      /\ \A j \in 1..m - 1 : t[j] = IF j < i THEN s[j] ELSE s[j + 1]
      /\ \A b \in Attribute : b # a => ((\A j \in 1..m - 1 : t[j] # b) => \A j \in 1..m : s[j] # b)
      /\ \A j \in Int : Place(t, j) = IF j < i THEN Place(s, j) ELSE Place(s, j + 1)
  BY <1>1, RemMembers
<1>5. x = Place(s, i - 1) /\ y = Place(s, i + 1)
  BY <1>1, <1>2
<1>6. x \in AS /\ y \in AS /\ x # a /\ y # a
  <2>1. a = Place(s, i) /\ i # i - 1 /\ i # i + 1
    BY <1>2, <1>3
  <2>2. QED
    BY <1>2, <1>3, <1>5, <2>1
<1>7. /\ nx2 \in [AS -> Attribute \cup {Sentinel, "none"}] /\ pv2 \in [AS -> Attribute \cup {Sentinel, "none"}]
      /\ nx2[a] = "none" /\ nx2[x] = y /\ pv2[a] = "none" /\ pv2[y] = x
      /\ \A b \in AS : b # a /\ b # x => nx2[b] = nx[b]
      /\ \A b \in AS : b # a /\ b # y => pv2[b] = pv[b]
  <2> HIDE DEF x, y, a
  <2>1. nx2 = [nx EXCEPT ![x] = y, ![a] = "none"] /\ pv2 = [pv EXCEPT ![y] = x, ![a] = "none"]
    BY DEF Dropped, x, y, a
  <2>2. QED
    BY ONLY <1>1, <1>2, <1>6, <2>1
<1> HIDE DEF t, x, y
<1>8. nx2[Sentinel] = Place(t, 1)
  <2>1. CASE i = 1
    <3>1. x = Sentinel /\ 1 \in Int /\ 1 + 1 = i + 1
      BY <1>2, <1>3, <1>5, <2>1
    <3>2. QED
      BY <1>4, <1>5, <1>7, <2>1, <3>1
  <2>2. CASE i # 1
    <3>1. i - 1 \in 1..m /\ 1 < i /\ 1 \in Int
      BY <1>2, <2>2
    <3>2. x # Sentinel
      BY <1>3, <1>5, <3>1
    <3>3. QED
      BY <1>1, <1>2, <1>4, <1>7, <3>1, <3>2
  <2>3. QED
    BY <2>1, <2>2
<1>9. pv2[Sentinel] = Place(t, m - 1)
  <2>1. CASE i = m
    <3>1. y = Sentinel /\ m - 1 \in Int /\ m - 1 < i
      BY <1>2, <1>3, <1>5, <2>1
    <3>2. QED
      BY <1>4, <1>5, <1>7, <2>1, <3>1
  <2>2. CASE i # m
    <3>1. i + 1 \in 1..m /\ ~ (m - 1 < i) /\ m - 1 \in Int /\ m - 1 + 1 = m
      BY <1>2, <2>2
    <3>2. y # Sentinel
      BY <1>3, <1>5, <3>1
    <3>3. QED
      BY <1>1, <1>2, <1>4, <1>7, <3>1, <3>2
  <2>3. QED
    BY <2>1, <2>2
<1>10. ASSUME NEW j \in 1..m - 1 PROVE nx2[t[j]] = Place(t, j + 1) /\ pv2[t[j]] = Place(t, j - 1)
  <2>1. /\ j \in Int /\ j + 1 \in Int /\ j - 1 \in Int /\ j \in 1..m /\ j + 1 \in 1..m
        /\ j - 1 + 1 = j /\ j + 1 - 1 = j /\ (j + 1) + 1 \in Int
    BY <1>2
  <2>2. CASE j < i
    <3>1. t[j] = s[j] /\ s[j] \in AS /\ s[j] = Place(s, j)
      BY <1>2, <1>3, <1>4, <2>1, <2>2
    <3>2. j # i /\ j # i + 1 /\ j - 1 < i
      BY <1>2, <2>1, <2>2
    <3>3. s[j] # a /\ s[j] # y
      BY <1>2, <1>3, <1>5, <2>1, <3>1, <3>2
    <3>4. pv2[t[j]] = Place(t, j - 1)
      BY SMTT(30), <1>1, <1>4, <1>7, <2>1, <3>1, <3>2, <3>3
    <3>5. CASE j = i - 1
      <4>1. j + 1 = i /\ ~ (j + 1 < i) /\ (j + 1) + 1 = i + 1
        BY <1>2, <3>5
      <4>2. nx2[t[j]] = y
        BY <1>5, <1>7, <3>1, <3>5
      <4>3. QED
        BY <1>4, <1>5, <2>1, <3>4, <4>1, <4>2
    <3>6. CASE j # i - 1
      <4>1. j + 1 < i
        BY <1>2, <2>1, <2>2, <3>6
      <4>2. s[j] # x
        BY <1>2, <1>3, <1>5, <2>1, <3>1, <3>6
      <4>3. nx2[t[j]] = Place(s, j + 1)
        BY <1>1, <1>7, <2>1, <3>1, <3>3, <4>2
      <4>4. QED
        BY <1>4, <2>1, <3>4, <4>1, <4>3
    <3>7. QED
      BY <3>5, <3>6
  <2>3. CASE ~ (j < i)
    <3>1. t[j] = s[j + 1] /\ s[j + 1] \in AS /\ s[j + 1] = Place(s, j + 1)
      BY <1>2, <1>3, <1>4, <2>1, <2>3
    <3>2. j + 1 # i /\ j + 1 # i - 1 /\ ~ (j + 1 < i)
      BY <1>2, <2>1, <2>3
    <3>3. s[j + 1] # a /\ s[j + 1] # x
      BY <1>2, <1>3, <1>5, <2>1, <3>1, <3>2
    <3>4. nx2[t[j]] = Place(t, j + 1)
      <4>1. nx2[t[j]] = nx[s[j + 1]]
        BY <1>7, <3>1, <3>3
      <4>2. nx[s[j + 1]] = Place(s, (j + 1) + 1)
        BY <1>1, <2>1
      <4>3. Place(t, j + 1) = Place(s, (j + 1) + 1)
        BY <1>4, <2>1, <3>2
      <4>4. QED
        BY <4>1, <4>2, <4>3
    <3>5. CASE j = i
      <4>1. j - 1 = i - 1 /\ j - 1 < i
        BY <1>2, <3>5
      <4>2. pv2[t[j]] = x
        BY <1>5, <1>7, <3>1, <3>5
      <4>3. QED
        BY <1>4, <1>5, <2>1, <3>4, <4>1, <4>2
    <3>6. CASE j # i
      <4>1. ~ (j - 1 < i) /\ j + 1 # i + 1
        BY <1>2, <2>1, <2>3, <3>6
      <4>2. s[j + 1] # y
        BY <1>2, <1>3, <1>5, <2>1, <3>1, <4>1
      <4>3. pv2[t[j]] = Place(s, j)
        BY <1>1, <1>7, <2>1, <3>1, <3>3, <4>2
      <4>4. QED
        BY <1>4, <2>1, <3>4, <4>1, <4>3
    <3>7. QED
      BY <3>5, <3>6
  <2>4. QED
    BY <2>2, <2>3
<1>11. ASSUME NEW b \in Attribute, \A j \in 1..m - 1 : t[j] # b PROVE nx2[b] = "none" /\ pv2[b] = "none"
  <2>1. CASE b = a
    BY <1>7, <2>1
  <2>2. CASE b # a
    <3>1. \A j \in 1..m : s[j] # b
      BY <1>4, <1>11, <2>2
    <3>2. b # Sentinel /\ b \in AS
      BY AttributesAssumption
    <3>3. \A j \in Int : Place(s, j) # b
      BY <3>1, <3>2 DEF Place
    <3>4. b # x /\ b # y
      BY <1>2, <1>5, <3>3
    <3>5. QED
      BY <1>1, <1>7, <2>2, <3>1, <3>2, <3>4
  <2>3. QED
    BY <2>1, <2>2
<1>12. QED
  BY <1>4, <1>7, <1>8, <1>9, <1>10, <1>11 DEF Ringed, t

LEMMA InvAttributes ==
  ASSUME AttributesInv
  PROVE  /\ Attributes!Members \in Seq(Attribute) /\ Distinct(Attributes!Members)
         /\ Len(Attributes!Members) \in Nat /\ DOMAIN Attributes!Members = 1..Len(Attributes!Members)
         /\ \A i \in 1..Len(Attributes!Members) : Attributes!Members[i] \in Attribute
         /\ name \in [Attribute -> Name \cup {"empty"}] /\ text \in [Attribute -> Text \cup {"empty"}]
         /\ \A i, j \in 1..Len(Attributes!Members) :
              name[Attributes!Members[i]] = name[Attributes!Members[j]] => i = j
<1>1. Attributes!Members \in Seq(Attribute) /\ Distinct(Attributes!Members)
  BY DEF AttributesInv, Ringed
<1>2. QED
  BY <1>1, MembersFacts DEF AttributesInv, Named

(* An attribute is found by its name, wherever it is in the ring.            *)
LEMMA FindIs ==
  ASSUME AttributesInv, NEW n
  PROVE  /\ Attributes!Find(n) # "none" =>
              \E i \in 1..Len(Attributes!Members) :
                Attributes!Find(n) = Attributes!Members[i] /\ name[Attributes!Members[i]] = n
         /\ Attributes!Find(n) = "none" =>
              \A i \in 1..Len(Attributes!Members) : name[Attributes!Members[i]] # n
<1> DEFINE s == Attributes!Members
           found == {i \in DOMAIN s : name[s[i]] = n}
<1>1. /\ DOMAIN s = 1..Len(s) /\ Len(s) \in Nat
      /\ \A i \in 1..Len(s) : s[i] \in Attribute /\ s[i] # "none"
  BY InvAttributes, AttributesAssumption
<1>2. Attributes!Find(n) = IF found = {} THEN "none" ELSE s[Attributes!Min(found)]
  BY DEF Attributes!Find, Attributes!None
<1> HIDE DEF s
<1>3. CASE found = {}
  BY <1>1, <1>2, <1>3 DEF s
<1>4. CASE found # {}
  <2>1. found \subseteq Nat
    BY <1>1
  <2>2. PICK i \in found : \A j \in found : i <= j
    <3> HIDE DEF found
    <3>1. QED
      BY <1>4, <2>1, LeastOf
  <2>3. Attributes!Min(found) = i
    <3> HIDE DEF found
    <3>1. \A z \in found : (\A j \in found : z <= j) => z = i
      BY <2>1, <2>2
    <3>2. QED
      BY <2>2, <3>1 DEF Attributes!Min
  <2>4. i \in 1..Len(s) /\ name[s[i]] = n
    BY <1>1, <2>2
  <2>5. QED
    BY <1>1, <1>2, <1>4, <2>3, <2>4 DEF s
<1>5. QED
  BY <1>3, <1>4

(* A value is set in place.                                                  *)
Valued(gv, n, v, gv2) == gv2 = [k \in DOMAIN gv |-> IF gv[k][1] = n THEN <<n, v>> ELSE gv[k]]

LEMMA ValueNamed ==
  ASSUME NEW s, NEW nm, NEW vl, NEW gv, Named(s, nm, vl, gv), s \in Seq(Attribute),
         NEW i \in 1..Len(s), NEW n, n = nm[s[i]], NEW v \in Text, NEW vl2, NEW gv2,
         vl2 = [vl EXCEPT ![s[i]] = v], Valued(gv, n, v, gv2)
  PROVE  Named(s, nm, vl2, gv2)
<1>1. /\ nm \in [Attribute -> Name \cup {"empty"}] /\ vl \in [Attribute -> Text \cup {"empty"}]
      /\ \A j, k \in 1..Len(s) : nm[s[j]] = nm[s[k]] => j = k
      /\ gv = [j \in 1..Len(s) |-> <<nm[s[j]], vl[s[j]]>>]
  BY DEF Named
<1>2. \A j \in 1..Len(s) : s[j] \in Attribute
  BY MembersFacts
<1>3. vl2 \in [Attribute -> Text \cup {"empty"}] /\ vl2[s[i]] = v
      /\ \A b \in Attribute : b # s[i] => vl2[b] = vl[b]
  BY <1>1, <1>2
<1>4. DOMAIN gv = 1..Len(s) /\ \A k \in 1..Len(s) : gv[k] = <<nm[s[k]], vl[s[k]]>>
  BY <1>1
<1>5. \A k \in 1..Len(s) : gv[k][1] = nm[s[k]]
  BY <1>4
<1>6. ASSUME NEW k \in 1..Len(s)
      PROVE  (IF gv[k][1] = n THEN <<n, v>> ELSE gv[k]) = <<nm[s[k]], vl2[s[k]]>>
  <2>1. CASE k = i
    BY <1>3, <1>5, <2>1
  <2>2. CASE k # i
    <3>1. nm[s[k]] # n
      BY <1>1, <2>2
    <3>2. s[k] # s[i]
      BY <3>1
    <3>3. QED
      BY <1>2, <1>3, <1>4, <1>5, <3>1, <3>2
  <2>3. QED
    BY <2>1, <2>2
<1>7. gv2 = [k \in 1..Len(s) |-> <<nm[s[k]], vl2[s[k]]>>]
  BY <1>4, <1>6 DEF Valued
<1>8. QED
  BY <1>1, <1>3, <1>7 DEF Named

(* A name that is new goes to the end.                                       *)
LEMMA AddNamed ==
  ASSUME NEW s, NEW nm, NEW vl, NEW gv, Named(s, nm, vl, gv), s \in Seq(Attribute),
         NEW a \in Attribute, \A i \in 1..Len(s) : s[i] # a,
         NEW n \in Name, NEW v \in Text, \A i \in 1..Len(s) : nm[s[i]] # n,
         NEW nm2, nm2 = [nm EXCEPT ![a] = n], NEW vl2, vl2 = [vl EXCEPT ![a] = v],
         NEW gv2, gv2 = Append(gv, <<n, v>>)
  PROVE  Named(Append(s, a), nm2, vl2, gv2)
<1> DEFINE t == Append(s, a)
           m == Len(s)
<1>1. /\ nm \in [Attribute -> Name \cup {"empty"}] /\ vl \in [Attribute -> Text \cup {"empty"}]
      /\ \A j, k \in 1..m : nm[s[j]] = nm[s[k]] => j = k
      /\ gv = [j \in 1..m |-> <<nm[s[j]], vl[s[j]]>>]
  BY DEF Named
<1>2. m \in Nat /\ \A j \in 1..m : s[j] \in Attribute
  BY MembersFacts
<1>3. t \in Seq(Attribute) /\ Len(t) = m + 1 /\ t[m + 1] = a /\ \A j \in 1..m : t[j] = s[j]
  BY <1>2, AppendProperties
<1> HIDE DEF t
<1>4. /\ nm2 \in [Attribute -> Name \cup {"empty"}] /\ vl2 \in [Attribute -> Text \cup {"empty"}]
      /\ nm2[a] = n /\ vl2[a] = v
      /\ \A b \in Attribute : b # a => nm2[b] = nm[b] /\ vl2[b] = vl[b]
  BY <1>1
<1>5. \A j \in 1..m : nm2[t[j]] = nm[s[j]] /\ vl2[t[j]] = vl[s[j]]
  BY <1>2, <1>3, <1>4
<1>6. ASSUME NEW j \in 1..m + 1, NEW k \in 1..m + 1, nm2[t[j]] = nm2[t[k]] PROVE j = k
  <2>1. CASE j \in 1..m /\ k \in 1..m
    BY <1>1, <1>5, <1>6, <2>1
  <2>2. CASE j \notin 1..m \/ k \notin 1..m
    <3>1. (j = m + 1 \/ j \in 1..m) /\ (k = m + 1 \/ k \in 1..m)
      BY <1>2
    <3>2. QED
      BY <1>3, <1>4, <1>5, <1>6, <2>2, <3>1
  <2>3. QED
    BY <2>1, <2>2
<1>7. gv2 = [j \in 1..m + 1 |-> <<nm2[t[j]], vl2[t[j]]>>]
  <2> DEFINE pairs == {nm[s[j]] : j \in 1..m} \X {vl[s[j]] : j \in 1..m}
             h == [j \in 1..m + 1 |-> <<nm2[t[j]], vl2[t[j]]>>]
             Pairs == {gv[j] : j \in 1..m} \cup {<<n, v>>}
  <2>1. DOMAIN gv = 1..m /\ \A j \in 1..m : gv[j] = <<nm[s[j]], vl[s[j]]>>
    BY <1>1
  <2>2. gv \in [1..m -> Pairs]
    <3>1. gv = [j \in 1..m |-> gv[j]]
      BY <1>1
    <3>2. QED
      BY <3>1
  <2>3. gv \in Seq(Pairs) /\ Len(gv) = m
    <3> HIDE DEF Pairs
    <3>1. gv \in Seq(Pairs)
      BY <1>2, <2>2, SeqDef
    <3>2. QED
      BY <1>2, <2>1, <3>1, LenProperties
  <2>4. gv2 \in Seq(Pairs) /\ Len(gv2) = m + 1 /\ gv2[m + 1] = <<n, v>> /\ \A j \in 1..m : gv2[j] = gv[j]
    <3>1. <<n, v>> \in Pairs
      OBVIOUS
    <3> HIDE DEF Pairs
    <3>2. QED
      BY <2>3, <3>1, AppendProperties
  <2>5. gv2 = [j \in 1..m + 1 |-> gv2[j]]
    <3> HIDE DEF Pairs
    <3>1. gv2 = [j \in 1..Len(gv2) |-> gv2[j]]
      BY <2>4, LenProperties
    <3>2. QED
      BY <2>4, <3>1
  <2>6. \A j \in 1..m + 1 : gv2[j] = <<nm2[t[j]], vl2[t[j]]>>
    <3>1. TAKE j \in 1..m + 1
    <3>2. CASE j \in 1..m
      <4>1. gv2[j] = gv[j] /\ gv[j] = <<nm[s[j]], vl[s[j]]>>
        BY <2>1, <2>4, <3>2
      <4>2. QED
        BY <1>5, <3>2, <4>1
    <3>3. CASE j \notin 1..m
      <4>1. j = m + 1
        BY <1>2, <3>3
      <4>2. QED
        BY <1>3, <1>4, <2>4, <4>1
    <3>4. QED
      BY <3>2, <3>3
  <2>7. QED
    BY <2>5, <2>6
<1>8. QED
  BY <1>3, <1>4, <1>6, <1>7 DEF Named, t

LEMMA RemoveAtIs ==
  ASSUME NEW S, NEW s \in Seq(S), NEW i \in 1..Len(s)
  PROVE  Attributes!RemoveAt(s, i) = Rem(s, i)
<1> DEFINE b == SubSeq(s, 1, i - 1)
           e == SubSeq(s, i + 1, Len(s))
           m == Len(s)
<1>1. m \in Nat /\ i \in 1..m /\ \A j \in 1..m : s[j] \in S
  BY LenProperties, ElementOfSeq
<1>2. b \in Seq(S) /\ Len(b) = i - 1 /\ \A j \in 1..i - 1 : b[j] = s[j]
  <2>1. i - 1 \in 0..m /\ 1 \in 1..m + 1
    BY <1>1
  <2>2. \A j \in 1..i - 1 : 1 + j - 1 = j
    BY <1>1
  <2>3. QED
    BY <1>1, <2>1, <2>2, SubSeqProperties
<1>3. e \in Seq(S) /\ Len(e) = m - i /\ \A j \in 1..m - i : e[j] = s[i + j]
  <2>1. m \in 0..m /\ i + 1 \in 1..m + 1
    BY <1>1
  <2>2. \A j \in 1..m - i : (i + 1) + j - 1 = i + j
    BY <1>1
  <2>3. QED
    BY <1>1, <2>1, <2>2, SubSeqProperties
<1> HIDE DEF b, e
<1>4. /\ b \o e \in Seq(S) /\ Len(b \o e) = m - 1
      /\ \A j \in 1..m - 1 : (b \o e)[j] = IF j < i THEN s[j] ELSE s[j + 1]
  <2> DEFINE c == b \o e
  <2>1. /\ c \in Seq(S) /\ Len(c) = Len(b) + Len(e)
        /\ \A j \in 1..Len(b) + Len(e) : c[j] = IF j <= Len(b) THEN b[j] ELSE e[j - Len(b)]
    BY <1>2, <1>3, ConcatProperties
  <2> HIDE DEF c
  <2>2. /\ Len(c) = m - 1 /\ Len(b) = i - 1
        /\ \A j \in 1..m - 1 : c[j] = IF j <= i - 1 THEN b[j] ELSE e[j - (i - 1)]
    <3>1. Len(b) = i - 1 /\ Len(b) + Len(e) = m - 1
      BY <1>1, <1>2, <1>3
    <3>2. QED
      BY <2>1, <3>1
  <2>3. ASSUME NEW j \in 1..m - 1, j < i PROVE c[j] = s[j]
    <3>1. j <= i - 1 /\ j \in 1..i - 1
      BY <1>1, <2>3
    <3>2. c[j] = b[j]
      BY <2>2, <3>1
    <3>3. QED
      BY <1>2, <3>1, <3>2
  <2>4. ASSUME NEW j \in 1..m - 1, ~ (j < i) PROVE c[j] = s[j + 1]
    <3>1. ~ (j <= i - 1) /\ j - (i - 1) \in 1..m - i /\ i + (j - (i - 1)) = j + 1
      BY <1>1, <2>4
    <3>2. c[j] = e[j - (i - 1)]
      BY <2>2, <3>1
    <3>3. e[j - (i - 1)] = s[i + (j - (i - 1))]
      BY <1>3, <3>1
    <3>4. QED
      BY <3>1, <3>2, <3>3
  <2>5. QED
    BY <2>1, <2>2, <2>3, <2>4 DEF c
<1>5. b \o e = [j \in 1..m - 1 |-> (b \o e)[j]]
  BY <1>4, LenProperties
<1>6. b \o e = Rem(s, i)
  BY <1>4, <1>5 DEF Rem
<1>7. QED
  BY <1>6 DEF Attributes!RemoveAt, b, e

(* A name goes with its attribute.                                           *)
LEMMA DropNamed ==
  ASSUME NEW s, NEW nm, NEW vl, NEW gv, Named(s, nm, vl, gv), s \in Seq(Attribute), Distinct(s),
         NEW i \in 1..Len(s), NEW n, n = nm[s[i]],
         NEW nm2, nm2 = [nm EXCEPT ![s[i]] = "empty"], NEW vl2, vl2 = [vl EXCEPT ![s[i]] = "empty"],
         NEW gv2, NEW k \in DOMAIN gv, gv[k][1] = n, gv2 = Attributes!RemoveAt(gv, k)
  PROVE  Named(Rem(s, i), nm2, vl2, gv2)
<1> DEFINE t == Rem(s, i)
           m == Len(s)
           a == s[i]
<1>1. /\ nm \in [Attribute -> Name \cup {"empty"}] /\ vl \in [Attribute -> Text \cup {"empty"}]
      /\ \A x, y \in 1..m : nm[s[x]] = nm[s[y]] => x = y
      /\ gv = [x \in 1..m |-> <<nm[s[x]], vl[s[x]]>>]
  BY DEF Named
<1>2. m \in Nat /\ i \in 1..m /\ \A j \in 1..m : s[j] \in Attribute
  BY MembersFacts
<1>3. /\ t \in Seq(Attribute) /\ Len(t) = m - 1
      /\ \A j \in 1..m - 1 : t[j] = IF j < i THEN s[j] ELSE s[j + 1]
  BY RemMembers
<1> HIDE DEF t
<1>4. DOMAIN gv = 1..m /\ \A x \in 1..m : gv[x] = <<nm[s[x]], vl[s[x]]>>
  BY <1>1
<1>5. k = i
  <2>1. k \in 1..m /\ gv[k][1] = nm[s[k]]
    BY <1>4
  <2>2. QED
    BY <1>1, <1>2, <2>1
<1>6. gv2 = Rem(gv, i) /\ Len(gv) = m
  <2> DEFINE Pairs == {gv[x] : x \in 1..m}
  <2>1. gv \in [1..m -> Pairs]
    <3>1. gv = [x \in 1..m |-> gv[x]]
      BY <1>1
    <3>2. QED
      BY <3>1
  <2> HIDE DEF Pairs
  <2>2. gv \in Seq(Pairs)
    BY <1>2, <2>1, SeqDef
  <2>3. Len(gv) = m
    BY <1>2, <1>4, <2>2, LenProperties
  <2>4. QED
    BY <1>2, <1>5, <2>2, <2>3, RemoveAtIs
<1>7. /\ nm2 \in [Attribute -> Name \cup {"empty"}] /\ vl2 \in [Attribute -> Text \cup {"empty"}]
      /\ \A b \in Attribute : b # a => nm2[b] = nm[b] /\ vl2[b] = vl[b]
  BY <1>1
<1>8. \A x, y \in 1..m : s[x] = s[y] => x = y
  BY DEF Distinct
<1>9. ASSUME NEW j \in 1..m - 1
      PROVE  \E x \in 1..m : x = (IF j < i THEN j ELSE j + 1) /\ t[j] = s[x]
                             /\ nm2[t[j]] = nm[s[x]] /\ vl2[t[j]] = vl[s[x]]
  <2>1. \E x \in 1..m : x = (IF j < i THEN j ELSE j + 1) /\ t[j] = s[x] /\ x # i
    <3>1. CASE j < i
      <4>1. j \in 1..m /\ j # i /\ t[j] = s[j]
        BY <1>2, <1>3, <3>1
      <4>2. QED
        BY <3>1, <4>1
    <3>2. CASE ~ (j < i)
      <4>1. j + 1 \in 1..m /\ j + 1 # i /\ t[j] = s[j + 1]
        BY <1>2, <1>3, <3>2
      <4>2. QED
        BY <3>2, <4>1
    <3>3. QED
      BY <3>1, <3>2
  <2>2. PICK x \in 1..m : x = (IF j < i THEN j ELSE j + 1) /\ t[j] = s[x] /\ x # i
    BY <2>1
  <2>3. s[x] \in Attribute /\ s[x] # a
    BY <1>2, <1>8, <2>2
  <2>4. QED
    BY <1>7, <2>2, <2>3
<1>10. ASSUME NEW j \in 1..m - 1, NEW l \in 1..m - 1, nm2[t[j]] = nm2[t[l]] PROVE j = l
  <2>1. PICK x \in 1..m : x = (IF j < i THEN j ELSE j + 1) /\ nm2[t[j]] = nm[s[x]]
    BY <1>9
  <2>2. PICK y \in 1..m : y = (IF l < i THEN l ELSE l + 1) /\ nm2[t[l]] = nm[s[y]]
    BY <1>9
  <2>3. x = y
    BY <1>1, <1>10, <2>1, <2>2
  <2>4. QED
    BY <1>2, <2>1, <2>2, <2>3
<1>11. gv2 = [j \in 1..m - 1 |-> <<nm2[t[j]], vl2[t[j]]>>]
  <2>1. gv2 = [j \in 1..m - 1 |-> IF j < i THEN gv[j] ELSE gv[j + 1]]
    BY <1>6 DEF Rem
  <2>2. ASSUME NEW j \in 1..m - 1 PROVE (IF j < i THEN gv[j] ELSE gv[j + 1]) = <<nm2[t[j]], vl2[t[j]]>>
    <3>1. PICK x \in 1..m : x = (IF j < i THEN j ELSE j + 1)
                            /\ nm2[t[j]] = nm[s[x]] /\ vl2[t[j]] = vl[s[x]]
      BY <1>9
    <3>2. (IF j < i THEN gv[j] ELSE gv[j + 1]) = gv[x]
      BY <3>1
    <3>3. gv[x] = <<nm[s[x]], vl[s[x]]>>
      BY <1>4
    <3>4. QED
      BY <3>1, <3>2, <3>3
  <2>3. QED
    BY <2>1, <2>2
<1>12. QED
  BY <1>3, <1>7, <1>10, <1>11 DEF Named, t

LEMMA AttributesStep ==
  ASSUME AttributesInv, Attributes!Next
  PROVE  AttributesInv'
<1> DEFINE s == Attributes!Members
           m == Len(s)
<1>1. /\ s \in Seq(Attribute) /\ Distinct(s) /\ m \in Nat
      /\ \A i \in 1..m : s[i] \in Attribute
      /\ Ringed(s, after, before) /\ Named(s, name, text, given)
  BY InvAttributes DEF AttributesInv
<1>2. ASSUME NEW n \in Name, NEW v \in Text, Attributes!SetAttribute(n, v) PROVE AttributesInv'
  <2>1. CASE /\ Attributes!Find(n) # "none"
             /\ text' = [text EXCEPT ![Attributes!Find(n)] = v]
             /\ given' = [i \in DOMAIN given |-> IF given[i][1] = n THEN <<n, v>> ELSE given[i]]
             /\ UNCHANGED <<after, before, name>>
    <3>1. PICK i \in 1..m : Attributes!Find(n) = s[i] /\ name[s[i]] = n
      BY <2>1, FindIs
    <3>5. Valued(given, n, v, given')
      BY <2>1 DEF Valued
    <3> HIDE DEF s
    <3>2. text' = [text EXCEPT ![s[i]] = v]
      BY <2>1, <3>1
    <3>3. Named(s, name, text', given')
      BY ONLY <1>1, <3>1, <3>2, <3>5, ValueNamed, v \in Text, i \in 1..m
    <3>4. QED
      BY <1>1, <2>1, <3>3, AttrInv
  <2>2. ASSUME NEW a \in Attribute,
               /\ Attributes!Find(n) = "none" /\ after[a] = "none"
               /\ after' = [after EXCEPT ![a] = Sentinel, ![before[Sentinel]] = a]
               /\ before' = [before EXCEPT ![a] = before[Sentinel], ![Sentinel] = a]
               /\ name' = [name EXCEPT ![a] = n]
               /\ text' = [text EXCEPT ![a] = v]
               /\ given' = Append(given, <<n, v>>)
        PROVE  AttributesInv'
    <3>1. \A i \in 1..m : name[s[i]] # n
      BY <2>2, FindIs
    <3>2. Added(after, before, a, after', before')
      BY <2>2 DEF Added
    <3> HIDE DEF s
    <3>3. Ringed(Append(s, a), after', before')
      BY <1>1, <3>2, AddRing
    <3>4. \A i \in 1..m : s[i] # a
      <4>1. TAKE i \in 1..m
      <4>2. after[s[i]] = Place(s, i + 1) /\ i + 1 \in Int
        BY <1>1 DEF Ringed
      <4>3. Place(s, i + 1) # "none"
        BY <1>1, <4>2, PlaceFacts
      <4>4. QED
        BY <2>2, <4>2, <4>3
    <3>5. Named(Append(s, a), name', text', given')
      BY <1>1, <2>2, <3>1, <3>4, AddNamed
    <3>6. QED
      BY <3>3, <3>5, AttrInv
  <2>3. QED
    BY <1>2, <2>1, <2>2 DEF Attributes!SetAttribute, Attributes!None
<1>3. ASSUME NEW n \in Name, Attributes!RemoveAttribute(n) PROVE AttributesInv'
  <2> DEFINE a == Attributes!Find(n)
  <2>1. /\ a # "none"
        /\ after' = [after EXCEPT ![before[a]] = after[a], ![a] = "none"]
        /\ before' = [before EXCEPT ![after[a]] = before[a], ![a] = "none"]
        /\ name' = [name EXCEPT ![a] = "empty"] /\ text' = [text EXCEPT ![a] = "empty"]
        /\ \E k \in DOMAIN given : given[k][1] = n /\ given' = Attributes!RemoveAt(given, k)
    BY <1>3 DEF Attributes!RemoveAttribute, Attributes!None, Attributes!Nothing
  <2>2. PICK i \in 1..m : a = s[i] /\ name[s[i]] = n
    BY <2>1, FindIs
  <2>3. PICK k \in DOMAIN given : given[k][1] = n /\ given' = Attributes!RemoveAt(given, k)
    BY <2>1
  <2> HIDE DEF s, a
  <2>4. Dropped(after, before, s[i], after', before')
    BY <2>1, <2>2 DEF Dropped
  <2>5. Ringed(Rem(s, i), after', before')
    BY <1>1, <2>4, DropRing
  <2>6. name' = [name EXCEPT ![s[i]] = "empty"] /\ text' = [text EXCEPT ![s[i]] = "empty"]
    BY <2>1, <2>2
  <2>7. Named(Rem(s, i), name', text', given')
    BY <1>1, <2>2, <2>3, <2>6, DropNamed
  <2>8. QED
    BY <2>5, <2>7, AttrInv
<1>4. QED
  BY <1>2, <1>3 DEF Attributes!Next

LEMMA AttributesNone ==
  ASSUME AttributesInv, UNCHANGED attributes
  PROVE  AttributesInv'
<1>1. after' = after /\ before' = before /\ name' = name /\ text' = text /\ given' = given
  BY DEF attributes
<1>2. Attributes!Members' = Attributes!Members
  BY <1>1 DEF Attributes!Members
<1>3. QED
  BY <1>1, <1>2 DEF AttributesInv

LEMMA AttributesStart ==
  ASSUME Attributes!Init
  PROVE  AttributesInv
<1> DEFINE s == <<>>
<1>1. /\ after = [a \in Attribute \cup {Sentinel} |-> IF a = Sentinel THEN Sentinel ELSE "none"]
      /\ before = after /\ name = [a \in Attribute |-> "empty"] /\ text = name /\ given = <<>>
  BY DEF Attributes!Init, Attributes!None, Attributes!Nothing
<1>2. s \in Seq(Attribute) /\ Len(s) = 0
  BY EmptySeq
<1>3. Ringed(s, after, before)
  <2>1. \A i : Place(s, i) = Sentinel
    BY <1>2 DEF Place
  <2>2. /\ after \in [Attribute \cup {Sentinel} -> Attribute \cup {Sentinel, "none"}]
        /\ after[Sentinel] = Sentinel /\ \A a \in Attribute : after[a] = "none"
    BY <1>1, AttributesAssumption
  <2>3. QED
    BY <1>1, <1>2, <2>1, <2>2 DEF Ringed, Distinct
<1>4. Named(s, name, text, given)
  <2>1. given = [i \in 1..Len(s) |-> <<name[s[i]], text[s[i]]>>]
    <3>1. DOMAIN given = {} /\ 1..Len(s) = {}
      BY <1>1, <1>2
    <3>2. <<>> = [i \in {} |-> <<name[s[i]], text[s[i]]>>]
      OBVIOUS
    <3>3. QED
      BY <1>1, <3>1, <3>2
  <2>2. QED
    BY <1>1, <1>2, <2>1 DEF Named
<1>5. Attributes!Members = s
  BY <1>3, RingedMembers DEF Attributes!Members
<1>6. QED
  BY <1>3, <1>4, <1>5 DEF AttributesInv

(* However attributes are set and removed, TiXmlAttributeSet is a ring       *)
(* through its sentinel: next and prev lead through the same attributes in   *)
(* the two directions, null in those outside, the names in the ring are      *)
(* different, and they and their values are what the calls gave.             *)
THEOREM AttributesStayLinked == AllSpec => []AttributesInv
<1>1. AllInit => AttributesInv
  BY AttributesStart DEF AllInit
<1>2. AttributesInv /\ [AllNext]_<<used, vars, nodes, attributes>> => AttributesInv'
  BY AttributesStep, AttributesNone DEF AllNext
<1>3. QED
  BY <1>1, <1>2, PTL DEF AllSpec

(* Up to the first that looks like the sentinel, but for the one it began    *)
(* with, who goes on along a pointer sees what the pointer leads to.         *)
FirstOf(u, r) == [i \in 1..r |-> u[i]]

LEMMA FirstOfFacts ==
  ASSUME NEW u \in Seq(Attribute), Distinct(u), NEW r \in 0..Len(u)
  PROVE  /\ FirstOf(u, r) \in Seq(Attribute) /\ Distinct(FirstOf(u, r)) /\ Len(FirstOf(u, r)) = r
         /\ \A i \in 1..r : FirstOf(u, r)[i] = u[i]
<1> DEFINE t == FirstOf(u, r)
<1>1. Len(u) \in Nat /\ r \in Nat /\ \A i \in 1..Len(u) : u[i] \in Attribute
  BY MembersFacts
<1>2. \A i \in 1..r : i \in 1..Len(u)
  BY <1>1
<1>3. t \in [1..r -> Attribute] /\ \A i \in 1..r : t[i] = u[i]
  BY <1>1, <1>2 DEF FirstOf
<1> HIDE DEF t
<1>4. t \in Seq(Attribute)
  BY <1>1, <1>3, SeqDef
<1>5. Len(t) = r
  BY <1>1, <1>3, <1>4, LenProperties
<1>6. Distinct(t)
  BY <1>2, <1>3, <1>5 DEF Distinct
<1>7. QED
  BY <1>3, <1>4, <1>5, <1>6 DEF t

LEMMA SeenAlong ==
  ASSUME NEW u \in Seq(Attribute), Distinct(u), NEW via, via[Sentinel] = Place(u, 1),
         \A i \in 1..Len(u) : via[u[i]] = Place(u, i + 1),
         NEW ends, Sentinel \in ends
  PROVE  \E r \in 0..Len(u) :
           /\ Attributes!Ring(via, ends) = FirstOf(u, r)
           /\ (\A i \in 1..Len(u) : u[i] \notin ends) => r = Len(u)
<1> DEFINE m == Len(u)
           B == {j \in 2..m : u[j] \in ends}
<1>1. m \in Nat /\ \A i \in 1..m : u[i] \in Attribute
  BY MembersFacts
<1>2. ASSUME NEW r \in 0..m, r = 0 => m = 0, r = m \/ (r + 1 \in 1..m /\ u[r + 1] \in ends),
             \A j \in 2..r : u[j] \notin ends
      PROVE  Attributes!Ring(via, ends) = FirstOf(u, r)
  <2> DEFINE t == FirstOf(u, r)
  <2>1. t \in Seq(Attribute) /\ Distinct(t) /\ Len(t) = r /\ \A i \in 1..r : t[i] = u[i]
    BY FirstOfFacts
  <2> HIDE DEF t
  <2>2. t = <<>> <=> r = 0
    BY <2>1, EmptySeq
  <2>3. r = 0 => via[Sentinel] \notin Attribute
    BY <1>1, <1>2, AttributesAssumption DEF Place
  <2>4. r # 0 => via[Sentinel] = t[1] /\ via[t[r]] \in ends
    <3>1. ASSUME r # 0 PROVE via[Sentinel] = t[1] /\ via[t[r]] \in ends
      <4>1. r \in 1..r /\ 1 \in 1..r /\ r \in 1..m /\ 1 \in 1..m /\ r + 1 \in Int
        BY <1>1, <3>1
      <4>2. via[Sentinel] = t[1]
        BY <2>1, <4>1 DEF Place
      <4>3. via[t[r]] = Place(u, r + 1)
        BY <2>1, <4>1
      <4>4. Place(u, r + 1) \in ends
        <5>1. CASE r = m
          <6>1. r + 1 \notin 1..m
            BY <1>1, <5>1
          <6>2. QED
            BY <6>1 DEF Place
        <5>2. CASE r + 1 \in 1..m /\ u[r + 1] \in ends
          BY <5>2 DEF Place
        <5>3. QED
          BY <1>2, <5>1, <5>2
      <4>5. QED
        BY <4>2, <4>3, <4>4
    <3>2. QED
      BY <3>1
  <2>5. ASSUME NEW j \in 1..r - 1 PROVE via[t[j]] = t[j + 1] /\ t[j + 1] \notin ends
    <3>1. j \in 1..r /\ j + 1 \in 1..r /\ j \in 1..m /\ j + 1 \in 1..m /\ j + 1 \in 2..r
      BY <1>1
    <3>2. via[u[j]] = Place(u, j + 1)
      BY <3>1
    <3>3. Place(u, j + 1) = u[j + 1]
      BY <3>1 DEF Place
    <3>4. QED
      BY <1>2, <2>1, <3>1, <3>2, <3>3
  <2>6. Leading(t, via, ends)
    BY <2>1, <2>2, <2>3, <2>4, <2>5 DEF Leading
  <2>7. QED
    BY <2>6, RingIs DEF t
<1>3. CASE B = {}
  <2>1. m \in 0..m /\ \A j \in 2..m : u[j] \notin ends
    BY <1>1, <1>3
  <2>2. Attributes!Ring(via, ends) = FirstOf(u, m)
    <3>1. \A r \in 0..m : r = m => Attributes!Ring(via, ends) = FirstOf(u, r)
      <4>1. TAKE r \in 0..m
      <4>2. HAVE r = m
      <4>3. \A j \in 2..r : u[j] \notin ends
        BY <2>1, <4>2
      <4>4. r = 0 => m = 0
        BY <4>2
      <4>5. QED
        BY <1>2, <4>2, <4>3, <4>4
    <3>2. QED
      BY <2>1, <3>1
  <2>3. QED
    BY <2>1, <2>2
<1>4. CASE B # {}
  <2>1. B \subseteq Nat
    BY <1>1
  <2>2. PICK e \in B : \A j \in B : e <= j
    <3> HIDE DEF B
    <3>1. QED
      BY <1>4, <2>1, LeastOf
  <2>3. e \in 2..m /\ u[e] \in ends
    OBVIOUS
  <2>4. /\ e - 1 \in 0..m /\ e - 1 # 0 /\ e - 1 + 1 = e /\ e \in 1..m
        /\ \A j \in 2..e - 1 : j \in 2..m /\ ~ (e <= j)
    BY <1>1, <2>3
  <2>5. \A j \in 2..e - 1 : u[j] \notin ends
    BY <2>2, <2>4
  <2>6. Attributes!Ring(via, ends) = FirstOf(u, e - 1)
    BY <1>2, <2>3, <2>4, <2>5
  <2>7. QED
    BY <2>3, <2>4, <2>6
<1>5. QED
  BY <1>3, <1>4

LEMMA PrefixIs ==
  ASSUME NEW S, NEW g \in Seq(S), NEW r \in 0..Len(g), NEW p, p = [i \in 1..r |-> g[i]]
  PROVE  Attributes!IsPrefix(p, g)
<1>1. Len(g) \in Nat /\ r \in Nat /\ \A i \in 1..Len(g) : g[i] \in S
  BY LenProperties, ElementOfSeq
<1>2. \A i \in 1..r : i \in 1..Len(g)
  BY <1>1
<1>3. p \in [1..r -> S] /\ \A i \in 1..r : p[i] = g[i] /\ p[i] \in S /\ g[i] \in S
  BY <1>1, <1>2
<1>4. p \in Seq(S)
  BY <1>1, <1>3, SeqDef
<1>5. Len(p) = r
  BY <1>1, <1>3, <1>4, LenProperties
<1>6. ASSUME NEW q, \A i \in 1..r : q[i] = g[i]
      PROVE  SubSeq(q, 1, r) = [i \in 1..r |-> g[i]]
  <2> DEFINE x == SubSeq(q, 1, r)
  <2>1. r - 1 + 1 = r /\ (1 <= r => r - 1 + 1 = r) /\ (~ (1 <= r) => r = 0)
    BY <1>1
  <2>2. \A i \in 1..r : 1 + i - 1 = i
    BY <1>1
  <2>3. \A i \in 1..r : q[i] \in S
    BY <1>3, <1>6
  <2>4. x \in Seq(S) /\ Len(x) = r /\ \A i \in 1..r : x[i] = q[i]
    <3>1. /\ x \in Seq(S) /\ Len(x) = IF 1 <= r THEN r - 1 + 1 ELSE 0
          /\ \A i \in 1..r - 1 + 1 : x[i] = q[1 + i - 1]
      BY <1>1, <2>3, SubSeqProperties
    <3>2. QED
      BY <2>1, <2>2, <3>1
  <2> HIDE DEF x
  <2>5. x = [i \in 1..r |-> x[i]]
    BY <2>4, LenProperties
  <2>6. QED
    BY <1>6, <2>4, <2>5 DEF x
<1>7. SubSeq(p, 1, r) = SubSeq(g, 1, r)
  BY <1>3, <1>6
<1>8. r <= Len(g)
  BY <1>1
<1>9. QED
  BY <1>5, <1>7, <1>8 DEF Attributes!IsPrefix

(* The members from the last to the first.                                   *)
Turned(s) == [i \in 1..Len(s) |-> s[Len(s) - i + 1]]

LEMMA TurnedFacts ==
  ASSUME NEW S, NEW s \in Seq(S)
  PROVE  /\ Turned(s) \in Seq(S) /\ Len(Turned(s)) = Len(s)
         /\ \A i \in 1..Len(s) : Turned(s)[i] = s[Len(s) - i + 1] /\ Len(s) - i + 1 \in 1..Len(s)
<1> DEFINE t == Turned(s)
           m == Len(s)
<1>1. m \in Nat /\ \A i \in 1..m : s[i] \in S
  BY LenProperties, ElementOfSeq
<1>2. \A i \in 1..m : m - i + 1 \in 1..m
  BY <1>1
<1>3. t \in [1..m -> S] /\ \A i \in 1..m : t[i] = s[m - i + 1]
  BY <1>1, <1>2 DEF Turned
<1> HIDE DEF t, m
<1>4. t \in Seq(S)
  BY <1>1, <1>3, SeqDef
<1>5. Len(t) = m
  BY <1>1, <1>3, <1>4, LenProperties
<1>6. QED
  BY <1>2, <1>3, <1>4, <1>5 DEF t, m

LEMMA TurnedTwice ==
  ASSUME NEW S, NEW s \in Seq(S)
  PROVE  Turned(Turned(s)) = s
<1> DEFINE t == Turned(s)
           u == Turned(t)
           m == Len(s)
<1>1. /\ t \in Seq(S) /\ Len(t) = m
      /\ \A i \in 1..m : t[i] = s[m - i + 1] /\ m - i + 1 \in 1..m
  BY TurnedFacts
<1> HIDE DEF t
<1>2. u \in Seq(S) /\ Len(u) = m /\ \A i \in 1..m : u[i] = t[m - i + 1]
  BY <1>1, TurnedFacts
<1>3. m \in Nat
  BY LenProperties
<1> HIDE DEF u, m
<1>4. ASSUME NEW i \in 1..m PROVE u[i] = s[i]
  <2>1. m - (m - i + 1) + 1 = i
    BY <1>3
  <2>2. m - i + 1 \in 1..m
    BY <1>1
  <2>3. t[m - i + 1] = s[m - (m - i + 1) + 1]
    BY <1>1, <2>2
  <2>4. QED
    BY <1>2, <2>1, <2>3
<1>5. u = [i \in 1..m |-> u[i]] /\ s = [i \in 1..m |-> s[i]]
  BY <1>2, LenProperties DEF m
<1>6. QED
  BY <1>4, <1>5 DEF u, t

LEMMA TurnedIs == \A s : Attributes!Reverse(s) = Turned(s)
  BY DEF Attributes!Reverse, Turned

(* The ring, gone through the other way.                                     *)
LEMMA TurnedRing ==
  ASSUME NEW s, NEW nx, NEW pv, Ringed(s, nx, pv)
  PROVE  /\ Turned(s) \in Seq(Attribute) /\ Distinct(Turned(s))
         /\ pv[Sentinel] = Place(Turned(s), 1)
         /\ \A i \in 1..Len(Turned(s)) : pv[Turned(s)[i]] = Place(Turned(s), i + 1)
<1> DEFINE u == Turned(s)
           m == Len(s)
<1>1. /\ s \in Seq(Attribute) /\ Distinct(s) /\ pv[Sentinel] = Place(s, m)
      /\ \A i \in 1..m : pv[s[i]] = Place(s, i - 1)
  BY DEF Ringed
<1>2. m \in Nat
  BY <1>1, MembersFacts
<1>3. /\ u \in Seq(Attribute) /\ Len(u) = m
      /\ \A i \in 1..m : u[i] = s[m - i + 1] /\ m - i + 1 \in 1..m
  BY <1>1, TurnedFacts
<1> HIDE DEF u
<1>4. \A j \in Int : Place(u, j) = Place(s, m - j + 1)
  <2>1. TAKE j \in Int
  <2>2. j \in 1..m <=> m - j + 1 \in 1..m
    BY <1>2
  <2>3. QED
    BY <1>3, <2>2 DEF Place
<1>5. Distinct(u)
  <2>1. ASSUME NEW x \in 1..m, NEW y \in 1..m, u[x] = u[y] PROVE x = y
    <3>1. s[m - x + 1] = s[m - y + 1] /\ m - x + 1 \in 1..m /\ m - y + 1 \in 1..m
      BY <1>3, <2>1
    <3>2. m - x + 1 = m - y + 1
      BY <1>1, <3>1 DEF Distinct
    <3>3. QED
      BY <1>2, <3>2
  <2>2. QED
    BY <1>3, <2>1 DEF Distinct
<1>6. pv[Sentinel] = Place(u, 1)
  <2>1. m - 1 + 1 = m
    BY <1>2
  <2>2. QED
    BY <1>1, <1>4, <2>1
<1>7. ASSUME NEW i \in 1..m PROVE pv[u[i]] = Place(u, i + 1)
  <2>1. (m - i + 1) - 1 = m - (i + 1) + 1 /\ i + 1 \in Int
    BY <1>2
  <2>2. u[i] = s[m - i + 1] /\ m - i + 1 \in 1..m
    BY <1>3
  <2>3. pv[s[m - i + 1]] = Place(s, (m - i + 1) - 1)
    BY <1>1, <2>2
  <2>4. Place(u, i + 1) = Place(s, m - (i + 1) + 1)
    BY <1>4, <2>1
  <2>5. QED
    BY <2>1, <2>2, <2>3, <2>4
<1>8. QED
  BY <1>3, <1>5, <1>6, <1>7 DEF u

(* What is after an attribute has it before.                                 *)
LEMMA RingMirror ==
  ASSUME NEW s, NEW nx, NEW pv, Ringed(s, nx, pv)
  PROVE  \A a, b \in Attribute \cup {Sentinel} : nx[a] = b <=> pv[b] = a
<1> DEFINE m == Len(s)
           AS == Attribute \cup {Sentinel}
<1>1. /\ s \in Seq(Attribute) /\ Distinct(s)
      /\ nx[Sentinel] = Place(s, 1) /\ pv[Sentinel] = Place(s, m)
      /\ \A i \in 1..m : nx[s[i]] = Place(s, i + 1) /\ pv[s[i]] = Place(s, i - 1)
      /\ \A a \in Attribute : (\A i \in 1..m : s[i] # a) => nx[a] = "none" /\ pv[a] = "none"
  BY DEF Ringed
<1>2. m \in Nat /\ \A i \in 1..m : i \in Int /\ i + 1 \in Int /\ i - 1 \in Int
  BY <1>1, MembersFacts
<1>3. \A i \in 1..m : s[i] \in Attribute /\ s[i] # Sentinel /\ Place(s, i) = s[i]
  BY <1>1, MembersFacts, AttributesAssumption DEF Place
<1>4. Place(s, 0) = Sentinel /\ Place(s, m + 1) = Sentinel
  <2>1. 0 \notin 1..m /\ m + 1 \notin 1..m
    BY <1>2
  <2>2. QED
    BY <2>1 DEF Place
(* Each place of the ring leads to the next, and back. *)
<1>5. ASSUME NEW a \in AS, NEW b \in AS, nx[a] = b
      PROVE  \E i \in 0..m : a = Place(s, i) /\ b = Place(s, i + 1)
  <2>1. CASE a = Sentinel
    <3>1. 0 \in 0..m /\ 0 + 1 = 1
      BY <1>2
    <3>2. QED
      BY <1>1, <1>4, <1>5, <2>1, <3>1
  <2>2. CASE a # Sentinel
    <3>1. a \in Attribute /\ nx[a] # "none"
      BY <1>5, <2>2, AttributesAssumption
    <3>2. PICK i \in 1..m : s[i] = a
      BY <1>1, <3>1
    <3>3. i \in 0..m
      BY <1>2
    <3>4. QED
      BY <1>1, <1>3, <1>5, <3>2, <3>3
  <2>3. QED
    BY <2>1, <2>2
<1>6. ASSUME NEW a \in AS, NEW b \in AS, pv[b] = a
      PROVE  \E i \in 0..m : a = Place(s, i) /\ b = Place(s, i + 1)
  <2>1. CASE b = Sentinel
    <3>1. m \in 0..m
      BY <1>2
    <3>2. QED
      BY <1>1, <1>4, <1>6, <2>1, <3>1
  <2>2. CASE b # Sentinel
    <3>1. b \in Attribute /\ pv[b] # "none"
      BY <1>6, <2>2, AttributesAssumption
    <3>2. PICK i \in 1..m : s[i] = b
      BY <1>1, <3>1
    <3>3. i - 1 \in 0..m /\ i - 1 + 1 = i
      BY <1>2
    <3>4. a = Place(s, i - 1) /\ b = Place(s, i)
      BY <1>1, <1>3, <1>6, <3>2
    <3>5. QED
      BY <3>3, <3>4
  <2>3. QED
    BY <2>1, <2>2
<1>7. ASSUME NEW i \in 0..m PROVE nx[Place(s, i)] = Place(s, i + 1) /\ pv[Place(s, i + 1)] = Place(s, i)
  <2>1. nx[Place(s, i)] = Place(s, i + 1)
    <3>1. CASE i = 0
      <4>1. i + 1 = 1
        BY <3>1
      <4>2. QED
        BY <1>1, <1>4, <3>1, <4>1
    <3>2. CASE i # 0
      <4>1. i \in 1..m
        BY <1>2, <3>2
      <4>2. QED
        BY <1>1, <1>3, <4>1
    <3>3. QED
      BY <3>1, <3>2
  <2>2. pv[Place(s, i + 1)] = Place(s, i)
    <3>1. CASE i = m
      BY <1>1, <1>4, <3>1
    <3>2. CASE i # m
      <4>1. i + 1 \in 1..m /\ i + 1 - 1 = i
        BY <1>2, <3>2
      <4>2. Place(s, i + 1) = s[i + 1] /\ pv[s[i + 1]] = Place(s, i + 1 - 1)
        BY <1>1, <1>3, <4>1
      <4>3. QED
        BY <4>1, <4>2
    <3>3. QED
      BY <3>1, <3>2
  <2>3. QED
    BY <2>1, <2>2
<1>8. QED
  BY <1>5, <1>6, <1>7

(* What a reader is given by the first r of a sequence of members.           *)
LEMMA GivenFirst ==
  ASSUME NEW u \in Seq(Attribute), Distinct(u), NEW r \in 0..Len(u)
  PROVE  Attributes!Given(FirstOf(u, r)) = [i \in 1..r |-> Attributes!Given(u)[i]]
<1>1. Len(FirstOf(u, r)) = r /\ FirstOf(u, r) \in Seq(Attribute) /\ \A i \in 1..r : FirstOf(u, r)[i] = u[i]
  BY FirstOfFacts
<1>2. DOMAIN FirstOf(u, r) = 1..r /\ DOMAIN u = 1..Len(u) /\ Len(u) \in Nat
  BY <1>1, MembersFacts
<1>3. \A i \in 1..r : i \in 1..Len(u)
  BY <1>2
<1>4. \A i \in 1..r : Attributes!Given(u)[i] = <<name[u[i]], text[u[i]]>>
  BY <1>2, <1>3 DEF Attributes!Given
<1>5. Attributes!Given(FirstOf(u, r)) = [i \in 1..r |-> <<name[FirstOf(u, r)[i]], text[FirstOf(u, r)[i]]>>]
  BY <1>2 DEF Attributes!Given
<1>6. QED
  BY <1>1, <1>4, <1>5

LEMMA GivenTurned ==
  ASSUME NEW u \in Seq(Attribute)
  PROVE  Attributes!Given(Turned(u)) = Turned(Attributes!Given(u)) /\ Len(Attributes!Given(u)) = Len(u)
<1> DEFINE g == Attributes!Given(u)
           m == Len(u)
           S == {<<name[u[i]], text[u[i]]>> : i \in 1..m}
<1>1. m \in Nat /\ DOMAIN u = 1..m
  BY MembersFacts
<1>2. g = [i \in 1..m |-> <<name[u[i]], text[u[i]]>>]
  BY <1>1 DEF Attributes!Given
<1>3. g \in [1..m -> S]
  BY <1>2
<1>4. g \in Seq(S)
  <2> HIDE DEF g, S
  <2>1. QED
    BY <1>1, <1>3, SeqDef
<1>5. Len(g) = m
  <2> HIDE DEF g, S
  <2>1. QED
    BY <1>1, <1>3, <1>4, LenProperties
<1>6. /\ Len(Turned(u)) = m /\ Turned(u) \in Seq(Attribute)
      /\ \A i \in 1..m : Turned(u)[i] = u[m - i + 1] /\ m - i + 1 \in 1..m
  BY TurnedFacts
<1>7. DOMAIN Turned(u) = 1..m
  BY <1>6, MembersFacts
<1>8. \A i \in 1..m : g[m - i + 1] = <<name[Turned(u)[i]], text[Turned(u)[i]]>>
  BY <1>2, <1>6
<1>9. Turned(g) = [i \in 1..m |-> g[m - i + 1]]
  BY <1>5 DEF Turned
<1>10. Attributes!Given(Turned(u)) = [i \in 1..m |-> <<name[Turned(u)[i]], text[Turned(u)[i]]>>]
  BY <1>7 DEF Attributes!Given
<1>11. QED
  BY <1>5, <1>8, <1>9, <1>10

(* What the run checks of the attributes follows from what the ring is.      *)
LEMMA AttributesFollow == AttributesInv => Attributes!AttributesSound
<1> SUFFICES ASSUME AttributesInv PROVE Attributes!AttributesSound
  OBVIOUS
<1> DEFINE s == Attributes!Members
           m == Len(s)
           u == Turned(s)
           E == Attributes!Empty
           seen == Attributes!Seen
           back == Attributes!SeenBack
           pairs == (Name \cup {"empty"}) \X (Text \cup {"empty"})
<1>1. /\ s \in Seq(Attribute) /\ Distinct(s) /\ m \in Nat /\ DOMAIN s = 1..m
      /\ \A i \in 1..m : s[i] \in Attribute
      /\ Ringed(s, after, before)
      /\ after[Sentinel] = Place(s, 1) /\ \A i \in 1..m : after[s[i]] = Place(s, i + 1)
      /\ name \in [Attribute -> Name \cup {"empty"}] /\ text \in [Attribute -> Text \cup {"empty"}]
      /\ given = [i \in 1..m |-> <<name[s[i]], text[s[i]]>>]
  BY InvAttributes DEF AttributesInv, Ringed, Named
<1>2. /\ u \in Seq(Attribute) /\ Distinct(u) /\ Len(u) = m
      /\ \A i \in 1..m : u[i] = s[m - i + 1] /\ m - i + 1 \in 1..m
      /\ before[Sentinel] = Place(u, 1) /\ \A i \in 1..m : before[u[i]] = Place(u, i + 1)
  BY <1>1, TurnedRing, TurnedFacts
<1>3. Attributes!Given(s) = given
  BY <1>1 DEF Attributes!Given
<1>4. \A a, b \in Attribute \cup {Sentinel} : after[a] = b <=> before[b] = a
  BY <1>1, RingMirror
<1>5. Sentinel \in E /\ \A a \in Attribute : a \in E <=> name[a] = "empty" /\ text[a] = "empty"
  BY AttributesAssumption DEF Attributes!Empty, Attributes!Nothing
<1>6. seen = Attributes!Ring(after, E) /\ back = Attributes!Ring(before, E)
  BY DEF Attributes!Seen, Attributes!SeenBack
<1> HIDE DEF E, s, u, seen, back
<1>17. /\ s \in Seq(Attribute) /\ Distinct(s) /\ m \in Nat
       /\ after[Sentinel] = Place(s, 1) /\ \A i \in 1..m : after[s[i]] = Place(s, i + 1)
  BY <1>1
<1>7. PICK r \in 0..m : seen = FirstOf(s, r) /\ ((\A i \in 1..m : s[i] \notin E) => r = m)
  BY <1>5, <1>6, <1>17, SeenAlong
<1>8. PICK q \in 0..m : back = FirstOf(u, q) /\ ((\A i \in 1..m : u[i] \notin E) => q = m)
  BY <1>2, <1>5, <1>6, SeenAlong
<1>9. given \in Seq(pairs) /\ Len(given) = m
  <2>1. given \in [1..m -> pairs]
    <3>1. \A i \in 1..m : <<name[s[i]], text[s[i]]>> \in pairs
      BY <1>1
    <3> HIDE DEF pairs
    <3>2. QED
      BY <1>1, <3>1
  <2> HIDE DEF pairs
  <2>2. given \in Seq(pairs)
    BY <1>17, <2>1, SeqDef
  <2>3. QED
    BY <1>17, <2>1, <2>2, LenProperties
<1> HIDE DEF pairs
<1>10. Attributes!Given(seen) = [i \in 1..r |-> given[i]]
  BY <1>1, <1>3, <1>7, GivenFirst
<1>11. Attributes!Given(back) = [i \in 1..q |-> Turned(given)[i]]
  <2>1. Attributes!Given(back) = [i \in 1..q |-> Attributes!Given(u)[i]]
    BY <1>2, <1>8, GivenFirst
  <2>2. Attributes!Given(u) = Turned(given)
    BY <1>1, <1>3, GivenTurned DEF u
  <2>3. QED
    BY <2>1, <2>2
<1>12. Turned(given) \in Seq(pairs) /\ Len(Turned(given)) = m
  BY <1>9, TurnedFacts
<1>13. Attributes!IsPrefix(Attributes!Given(seen), given)
  BY <1>9, <1>10, PrefixIs
<1>14. Attributes!IsSuffix(Attributes!Reverse(Attributes!Given(back)), given)
  <2> DEFINE b == Attributes!Given(back)
  <2>1. b \in Seq(pairs)
    <3>1. \A i \in 1..q : i \in 1..m
      BY <1>1
    <3>2. b \in [1..q -> pairs]
      <4>1. \A i \in 1..q : Turned(given)[i] \in pairs
        BY <1>12, <3>1, ElementOfSeq
      <4>2. QED
        BY <1>11, <4>1
    <3>3. q \in Nat
      BY <1>1
    <3> HIDE DEF b
    <3>4. QED
      BY <3>2, <3>3, SeqDef
  <2>2. Turned(Turned(b)) = b
    BY <2>1, TurnedTwice
  <2>3. Attributes!IsPrefix(b, Turned(given))
    BY <1>11, <1>12, PrefixIs
  <2> HIDE DEF b
  <2>4. Attributes!Reverse(Attributes!Reverse(b)) = b /\ Attributes!Reverse(given) = Turned(given)
    BY <2>2, TurnedIs
  <2>5. Attributes!IsPrefix(Attributes!Reverse(Attributes!Reverse(b)), Attributes!Reverse(given))
    BY <2>3, <2>4
  <2>6. QED
    BY <2>5 DEF Attributes!IsSuffix, b
<1>15. ASSUME ~ \E i \in DOMAIN given : given[i] = <<"empty", "empty">>
       PROVE  Attributes!Given(seen) = given /\ Attributes!Given(back) = Attributes!Reverse(given)
  <2>1. \A i \in 1..m : s[i] \notin E
    <3>1. TAKE i \in 1..m
    <3>2. i \in DOMAIN given /\ given[i] = <<name[s[i]], text[s[i]]>>
      BY <1>1
    <3>3. ~ (name[s[i]] = "empty" /\ text[s[i]] = "empty")
      BY <1>15, <3>2
    <3>4. QED
      BY <1>1, <1>5, <3>3
  <2>2. \A i \in 1..m : u[i] \notin E
    BY <1>2, <2>1
  <2>3. r = m /\ q = m
    BY <1>7, <1>8, <2>1, <2>2
  <2>4. given = [i \in 1..m |-> given[i]]
    BY <1>9, LenProperties
  <2>5. Turned(given) = [i \in 1..m |-> Turned(given)[i]]
    BY <1>12, LenProperties
  <2>6. QED
    BY <1>10, <1>11, <2>3, <2>4, <2>5, TurnedIs
<1>16. QED
  BY <1>3, <1>4, <1>13, <1>14, <1>15 DEF Attributes!AttributesSound, Attributes!Nothing, s, seen, back

(* However nodes are made, linked, copied and removed, and attributes set    *)
(* and removed, every node has a type and a value, an error is one of a      *)
(* document that is there, the lists of children are linked the same in both *)
(* directions and hold what has the node as its parent, no pointer leads to  *)
(* storage that was returned, every way through the children meets those     *)
(* asked for, in order, and the ring of attributes holds what was set, each  *)
(* name once.                                                                *)
THEOREM NodesStaySound == AllSpec => []NodesSound
<1>1. NodesInv /\ TypesInv /\ AttributesInv => NodesSound
  BY NodesFollow, AttributesFollow DEF NodesSound
<1>2. QED
  BY <1>1, NodesStayLinked, NodesStayTyped, AttributesStayLinked, PTL

=============================================================================
