------------------------------ MODULE Partition ------------------------------
(* What misc/Library/Algorythms.h promises of its class SETS: an equivalence
   relation on the nodes, which starts as equality and grows by one pair at a
   time, with all that follows from the pair and no more.                   *)
CONSTANT Node

VARIABLE same

Equality == {p \in Node \X Node : p[1] = p[2]}

Init == same = Equality

New == same' = Equality

Unite(a, b) ==
  same' = same \cup {p \in Node \X Node :
    \/ <<p[1], a>> \in same /\ <<b, p[2]>> \in same
    \/ <<p[1], b>> \in same /\ <<a, p[2]>> \in same}

Next == New \/ \E a, b \in Node : Unite(a, b)

Spec == Init /\ [][Next]_same
==============================================================================
