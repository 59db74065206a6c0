---------------------------- MODULE MCInitialize ----------------------------
(* Instances of Initialize for TLC. Processes are alike, and so are names.   *)
EXTENDS Initialize, TLC

Symmetry == Permutations(Instance) \cup Permutations(Line)
=============================================================================
