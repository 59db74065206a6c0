------------------------------- MODULE Library -------------------------------
(***************************************************************************)
(* The graphs and sorts of misc/Library (Kruskal, Sorting) and the lists of *)
(* misc/Process (Process): what is called as a library and proved about in  *)
(* Library_proofs. MCLibrary adds the documents, values and files.          *)
(***************************************************************************)
EXTENDS Kruskal

CONSTANTS Pid, m_pid, RowsAtMost, MaxEntries   \* Process

VARIABLES asked, step, ids, need, walk, visited, handles, returned, taken   \* of Process

CONSTANTS Item, Sentinel, MaxLength, FileSize, FileHits, MaxFiles   \* Sorting

VARIABLES sorter, input, output   \* of Sorting

(* Elements are ints, no file is empty or looked for less than never.       *)
ASSUME ArraysAssumption ==
  /\ Item \subseteq Int /\ Sentinel \in Int /\ MaxLength \in Nat
  /\ FileSize \subseteq Nat \ {0} /\ FileHits \subseteq Nat /\ MaxFiles \in Nat

Arr == INSTANCE Sorting WITH Value <- Item, call <- sorter

Proc == INSTANCE Process WITH MaxLength <- RowsAtMost, call <- asked, array <- ids, count <- visited, result <- returned

graphs == vars
arrays == <<sorter, input, output>>
lists == <<asked, step, ids, need, walk, visited, handles, returned, taken>>

(* Every sort returns its input in order, Merge_Sort unless an element reaches
   its sentinel, and files are ordered so that none is found sooner, on the
   average, in another order.                                               *)
SortsRight == Arr!Sorts /\ Arr!LosesOnlyToSentinel /\ Arr!QueriesSoonest

(* A list of processes, modules or threads is that of the snapshot, and no
   way out leaves a handle open: see Process.                               *)
SnapshotsSound == Proc!SnapshotsSound
=============================================================================
