--------------------------- MODULE MCXmlRpcClient ---------------------------
(***************************************************************************)
(* The client's side of XML-RPC, for TLC: the calls of XmlRpcClient, the    *)
(* dispatcher they wait in (XmlRpcDispatch, with its clock), and the        *)
(* sockets below (XmlRpcSocket). A behaviour is one of the three: the       *)
(* others stay as they start.                                               *)
(***************************************************************************)
EXTENDS XmlRpcDispatch, Sequences

CONSTANTS MaxCalls, RefusalWakes,     \* XmlRpcClient
          Length, Room, ReadSize      \* XmlRpcSocket

ASSUME ClientAssumption ==
  /\ MaxCalls \in Nat
  /\ Length \in Nat /\ Room \in Nat /\ ReadSize \in Nat

VARIABLES
  used,
  phase, call, state, clientEof, attempts, written, have,    \* of XmlRpcClient
  nodes, clientMask, link, orphans, runs, result,
  conn, writer, bytesSoFar, reader, channel, received, eof   \* of XmlRpcSocket

Client == INSTANCE XmlRpcClient WITH eof <- clientEof, mask <- clientMask
Socket == INSTANCE XmlRpcSocket

calls == <<phase, call, state, clientEof, attempts, written, have,
           nodes, clientMask, link, orphans, runs, result>>
bytes == <<conn, writer, bytesSoFar, reader, channel, received, eof>>

AllInit ==
  /\ used \in {"dispatcher", "client", "socket"}
  /\ Init /\ Client!Init /\ Socket!Init

AllNext ==
  /\ UNCHANGED used
  /\ \/ used = "dispatcher" /\ Next
     \/ used # "dispatcher" /\ UNCHANGED vars
  /\ \/ used = "client" /\ Client!Next
     \/ used # "client" /\ UNCHANGED calls
  /\ \/ used = "socket" /\ Socket!Next
     \/ used # "socket" /\ UNCHANGED bytes

AllVars == <<used, vars, calls, bytes>>

(* The fairness of each, in the behaviours that are its.                    *)
AllSpec ==
  /\ AllInit /\ [][AllNext]_AllVars
  /\ used = "dispatcher" => Fairness
  /\ used = "client" => Client!Fairness
  /\ used = "socket" => Socket!Fairness

AllTimeouts == {-1, 0, 2}

-----------------------------------------------------------------------------
(* See XmlRpcClient.                                                        *)
CallsSound == Client!AnswersSound /\ Client!AtMostTwice

(* A call of work with a timeout returns, and so does every call of execute *)
(* but that of a client that is deaf: see XmlRpcDispatch and XmlRpcClient.  *)
CallsReturn == Returns /\ Client!Returns

(* See XmlRpcSocket.                                                        *)
BytesInOrder == Socket!BytesInOrder
Delivered == Socket!Delivered
=============================================================================
