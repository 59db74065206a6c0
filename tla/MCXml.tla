------------------------------- MODULE MCXml --------------------------------
(***************************************************************************)
(* The trees of the repository, for TLC: those of CXMLNode (XmlTree), and   *)
(* the nodes (TinyXmlNodes) and attributes (TinyXmlAttributes) of TinyXML.  *)
(* A behaviour is one of the three: the others stay as they start. Nodes    *)
(* are interchangeable, and so are tags.                                    *)
(***************************************************************************)
EXTENDS XmlTree, TLC

CONSTANTS Value, AnyValue, Attribute, Sentinel, Name, Text

(* The sentinel of a set of attributes is none of them, and none is null.   *)
ASSUME AttributesAssumption ==
  /\ IsFiniteSet(Attribute) /\ Sentinel \notin Attribute
  /\ "none" \notin Attribute \cup {Sentinel}

VARIABLE used

(* TinyXmlNodes.                                                            *)
VARIABLES type, value, up, firstChild, lastChild, prev, next, error
Nodes == INSTANCE TinyXmlNodes WITH
  Null <- NoNode, Type <- {"document", "element", "leaf"}, parent <- up

(* TinyXmlAttributes.                                                       *)
VARIABLES after, before, name, text, given
Attributes == INSTANCE TinyXmlAttributes WITH next <- after, prev <- before, value <- text

nodes == <<type, value, up, firstChild, lastChild, prev, next, error>>
attributes == <<after, before, name, text, given>>

(* No tree of CXMLNode, which leaves the nodes alike.                       *)
noTrees ==
  /\ live = {} /\ leaked = {} /\ inner = {} /\ root = NoNode
  /\ ref = [n \in Node |-> 0] /\ children = [n \in Node |-> {}]
  /\ tag \in [Node -> {CHOOSE t \in Tag : TRUE}]

AllInit ==
  /\ \/ used = "trees" /\ Init
     \/ used \in {"nodes", "attributes"} /\ noTrees
  /\ Nodes!Init /\ Attributes!Init

AllNext ==
  /\ UNCHANGED used
  /\ \/ used = "trees" /\ Next
     \/ used # "trees" /\ UNCHANGED vars
  /\ \/ used = "nodes" /\ Nodes!Next
     \/ used # "nodes" /\ UNCHANGED nodes
  /\ \/ used = "attributes" /\ Attributes!Next
     \/ used # "attributes" /\ UNCHANGED attributes

AllSpec == AllInit /\ [][AllNext]_<<used, vars, nodes, attributes>>

(* See TinyXmlNodes and TinyXmlAttributes.                                  *)
NodesSound == Nodes!NodesSound /\ Attributes!AttributesSound

(* The pointers are a way of keeping the sequences of children.             *)
Tree == INSTANCE NodeTree WITH kids <- [n \in Node |-> Nodes!Kids(n)]

ImplementsNodeTree == Tree!TreeSpec

Symmetry == Permutations(Node) \cup Permutations(Tag)
=============================================================================
