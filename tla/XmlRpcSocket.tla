----------------------------- MODULE XmlRpcSocket -----------------------------
(***************************************************************************)
(* nbWrite and nbRead of misc/xmlrpc/XmlRpcSocket.cpp at the two ends of a  *)
(* connection, and connect. Each is called again whenever select reports    *)
(* its end; a call is a loop around send or recv, which take or give some   *)
(* of the bytes that are there, and ends when one of them would block or is *)
(* interrupted. The other end takes its steps in between.                   *)
(***************************************************************************)
EXTENDS Naturals, Sequences, SequencesExt

CONSTANTS Length,      \* of the text that is written
          Room,        \* bytes the system keeps between the two ends
          ReadSize     \* READ_SIZE - 1

VARIABLES
  conn,        \* "none", "pending", "up", "shut" by the writer, "reset"
  writer,      \* "out" of nbWrite, "in" it, or "failed"
  bytesSoFar,
  reader,      \* the same of nbRead
  channel,     \* bytes between the ends
  received,    \* s
  eof

vars == <<conn, writer, bytesSoFar, reader, channel, received, eof>>
writing == <<writer, bytesSoFar>>
reading == <<reader, received, eof>>

s == [i \in 1..Length |-> i]

Init ==
  /\ conn = "none"
  /\ writer = "out" /\ bytesSoFar = 0
  /\ reader = "out" /\ received = <<>> /\ eof = FALSE
  /\ channel = <<>>

-----------------------------------------------------------------------------
(* connect succeeds at once, or is under way, which is no error.            *)
connect ==
  /\ conn = "none" /\ writer = "out"
  /\ \/ conn' \in {"up", "pending"} /\ UNCHANGED writer
     \/ writer' = "failed" /\ UNCHANGED conn
  /\ UNCHANGED <<bytesSoFar, channel, reading>>

Connected == conn = "pending" /\ conn' = "up" /\ UNCHANGED <<writing, channel, reading>>

(* The connection is refused or lost, and with it what is between the ends. *)
Lost ==
  /\ conn \in {"pending", "up", "shut"}
  /\ conn' = "reset" /\ channel' = <<>>
  /\ UNCHANGED <<writing, reading>>

(* The writer closes its end when it has written all.                       *)
close ==
  /\ conn = "up" /\ writer = "out" /\ bytesSoFar = Length
  /\ conn' = "shut"
  /\ UNCHANGED <<writing, channel, reading>>

-----------------------------------------------------------------------------
nbWrite ==
  /\ conn \in {"up", "reset"} /\ writer = "out" /\ bytesSoFar < Length
  /\ writer' = "in"
  /\ UNCHANGED <<conn, bytesSoFar, channel, reading>>

(* The loop ends when nothing is left to write.                             *)
send ==
  /\ conn = "up" /\ writer = "in"
  /\ \E n \in 1..Length - bytesSoFar :
       /\ Len(channel) + n <= Room
       /\ channel' = channel \o SubSeq(s, bytesSoFar + 1, bytesSoFar + n)
       /\ bytesSoFar' = bytesSoFar + n
       /\ writer' = IF bytesSoFar' = Length THEN "out" ELSE "in"
  /\ UNCHANGED <<conn, reading>>

(* Mistake: an error that only means to wait is not told from others.       *)
sendBlocks_Fails ==
  /\ conn = "up" /\ writer = "in"
  /\ writer' = "failed"
  /\ UNCHANGED <<conn, bytesSoFar, channel, reading>>

(* There is no room, or a signal came: nonFatalError.                       *)
sendBlocks ==
  /\ conn = "up" /\ writer = "in"
  /\ writer' = "out"
  /\ UNCHANGED <<conn, bytesSoFar, channel, reading>>

sendFails ==
  /\ conn = "reset" /\ writer = "in"
  /\ writer' = "failed"
  /\ UNCHANGED <<conn, bytesSoFar, channel, reading>>

-----------------------------------------------------------------------------
(* A caller that has met the end does not call again.                       *)
nbRead ==
  /\ conn # "none" /\ reader = "out" /\ ~eof
  /\ reader' = "in" /\ eof' = FALSE
  /\ UNCHANGED <<conn, writing, channel, received>>

recv ==
  /\ reader = "in" /\ ~eof
  /\ \E n \in 1..ReadSize :
       /\ n <= Len(channel)
       /\ received' = received \o SubSeq(channel, 1, n)
       /\ channel' = SubSeq(channel, n + 1, Len(channel))
  /\ UNCHANGED <<conn, writing, reader, eof>>

recvEnds ==
  /\ reader = "in" /\ conn = "shut" /\ channel = <<>>
  /\ eof' = TRUE /\ reader' = "out"
  /\ UNCHANGED <<conn, writing, channel, received>>

(* Mistake: a call that was interrupted is taken for the end.               *)
recvBlocks_Ends ==
  /\ reader = "in" /\ conn # "reset"
  /\ eof' = (channel # <<>>) /\ reader' = "out"
  /\ UNCHANGED <<conn, writing, channel, received>>

recvBlocks ==
  /\ reader = "in" /\ conn # "reset"
  /\ reader' = "out"
  /\ UNCHANGED <<conn, writing, channel, received, eof>>

(* What was read before stays in s.                                         *)
recvFails ==
  /\ reader = "in" /\ conn = "reset"
  /\ reader' = "failed"
  /\ UNCHANGED <<conn, writing, channel, received, eof>>

Next ==
  \/ connect \/ Connected \/ Lost \/ close
  \/ nbWrite \/ send \/ sendBlocks \/ sendFails
  \/ nbRead \/ recv \/ recvEnds \/ recvBlocks \/ recvFails

(* Select reports an end that can go on, and not every call is interrupted. *)
Fairness ==
  /\ WF_vars(Connected) /\ WF_vars(close)
  /\ WF_vars(nbWrite) /\ SF_vars(send) /\ WF_vars(sendFails)
  /\ WF_vars(nbRead) /\ SF_vars(recv) /\ SF_vars(recvEnds) /\ WF_vars(recvFails)

-----------------------------------------------------------------------------
(* What was received is what was sent so far, in order and nothing twice,   *)
(* but for what is between the ends; the end is reported only to one who    *)
(* has received all.                                                        *)
BytesInOrder ==
  /\ received \o channel = SubSeq(s, 1, IF conn = "reset" THEN Len(received) ELSE bytesSoFar)
  /\ eof => received = s

(* The whole text and the end of it arrive, or the connection is lost: then *)
(* the reader is told, and the writer too if something is left to write.    *)
(* A writer whose last byte the system has taken is not told any more,      *)
(* whether the text has arrived or not.                                     *)
readerTold == reader = "failed"
writerTold == writer = "failed"
writtenAll == bytesSoFar = Length

Delivered ==
  (conn # "none") ~> (eof \/ (conn = "reset" /\ readerTold /\ (writerTold \/ writtenAll)))
==============================================================================
