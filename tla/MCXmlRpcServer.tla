--------------------------- MODULE MCXmlRpcServer ---------------------------
(* Instances of XmlRpcServer for TLC.                                       *)
EXTENDS XmlRpcServer, TLC

(* Connection objects are alike, and so are socket numbers.                 *)
Symmetry == Permutations(Conn) \cup Permutations(Fd)
=============================================================================
