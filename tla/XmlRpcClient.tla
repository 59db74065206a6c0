---------------------------- MODULE XmlRpcClient ----------------------------
(***************************************************************************)
(* misc/xmlrpc, the client's side: XmlRpcClient::execute with its states   *)
(* and its one retry, the dispatcher it runs until the answer is there,    *)
(* and the server at the other end, which may close or lose a connection   *)
(* at any moment, before or after it has run the method. Calls follow one  *)
(* another on a connection that is kept open.                              *)
(*                                                                         *)
(* A request is sent in two pieces, and a response arrives in two: its     *)
(* header and its body. A retry takes its list node out of the dispatcher  *)
(* while the dispatcher stands on it, and adds another; what the           *)
(* dispatcher then writes through the old node is undefined.               *)
(***************************************************************************)
EXTENDS Naturals, Sequences, FiniteSets

CONSTANTS MaxCalls,     \* bound on the calls of execute
          RefusalWakes  \* select reports a refused connection as writable, as
                        \* on POSIX systems; Windows reports an exception only

Call == 1 .. MaxCalls
none == 0
failed == MaxCalls + 1

VARIABLES
  phase,      \* "idle", "select" in work, or "crashed"
  call,       \* number of the current or last call
  state,      \* _connectionState
  eof,        \* _eof
  attempts,   \* _sendAttempts
  written,    \* pieces of the request written, _bytesWritten
  have,       \* pieces of the response read
  nodes,      \* nodes of the client in _sources
  mask,       \* the events it is monitored for
  link,       \* the connection behind _fd
  orphans,    \* requests that arrived on connections given up since
  runs,       \* times the server ran each call
  result      \* what execute returned for each call

client == <<phase, call, state, eof, attempts, written, have, nodes, mask>>
vars == <<client, link, orphans, runs, result>>

(* srv is the server's end; queue the requests it has and has not answered;
   resp the pieces of responses on their way, each named by its call.       *)
Link == [srv : {"none", "pending", "up", "fin", "reset"}, queue : Seq(Call), resp : Seq(Call)]

noLink == [srv |-> "none", queue |-> << >>, resp |-> << >>]
newLink == [noLink EXCEPT !.srv = "pending"]

TypeOK ==
  /\ phase \in {"idle", "select", "crashed"}
  /\ call \in 0 .. MaxCalls
  /\ state \in {"NO_CONNECTION", "WRITE_REQUEST", "READ_HEADER", "READ_RESPONSE", "IDLE"}
  /\ eof \in BOOLEAN
  /\ attempts \in 0 .. 2
  /\ written \in 0 .. 2
  /\ have \in 0 .. 2
  /\ nodes \in 0 .. 1
  /\ mask \subseteq {"read", "write", "exception"}
  /\ link \in Link
  /\ orphans \in [Call -> Nat]
  /\ runs \in [Call -> Nat]
  /\ result \in [Call -> {none, failed} \cup Call]

Init ==
  /\ phase = "idle" /\ call = 0
  /\ state = "NO_CONNECTION" /\ eof = FALSE
  /\ attempts = 0 /\ written = 0 /\ have = 0
  /\ nodes = 0 /\ mask = {}
  /\ link = noLink
  /\ orphans = [c \in Call |-> 0]
  /\ runs = [c \in Call |-> 0]
  /\ result = [c \in Call |-> none]

------------------------------------------------------------------------------
(* What closing the client's end leaves: the server may still run a request
   it has.                                                                  *)
giveUp ==
  orphans' = [c \in Call |-> IF \E i \in DOMAIN link.queue : link.queue[i] = c
                             THEN orphans[c] + 1 ELSE orphans[c]]

returns(r) == phase' = "idle" /\ result' = [result EXCEPT ![call] = r]

(* removeSource takes a node out if there is one, addSource adds one.       *)
monitored == (IF nodes > 0 THEN nodes - 1 ELSE 0) + 1

toWrite ==
  /\ state' = "WRITE_REQUEST"
  /\ written' = 0 /\ have' = 0
  /\ nodes' = monitored

\* Fault: a connection on which the last call failed is used again.
execute_KeepsConnection ==
  /\ phase = "idle" /\ call < MaxCalls
  /\ call' = call + 1 /\ attempts' = 0 /\ eof' = FALSE
  /\ toWrite /\ mask' = {"write", "exception"} /\ phase' = "select"
  /\ link' = IF state = "NO_CONNECTION" \/ eof THEN newLink ELSE link
  /\ IF state = "NO_CONNECTION" \/ eof THEN giveUp ELSE UNCHANGED orphans
  /\ UNCHANGED <<runs, result>>

(* execute up to the dispatcher's loop: the connection is closed if the last
   call broke off or the server closed it, and opened if there is none.     *)
execute ==
  /\ phase = "idle" /\ call < MaxCalls
  /\ call' = call + 1
  /\ attempts' = 0
  /\ eof' = FALSE
  /\ LET closing == state \notin {"NO_CONNECTION", "IDLE"} \/ eof
         connecting == closing \/ state = "NO_CONNECTION"
     IN /\ IF closing THEN giveUp ELSE UNCHANGED orphans
        /\ \/ /\ toWrite
              /\ mask' = {"write", "exception"}
              /\ phase' = "select"
              /\ link' = IF connecting THEN newLink ELSE link
              /\ UNCHANGED result
           \/ /\ connecting
              /\ state' = "NO_CONNECTION"
              /\ nodes' = 0
              /\ link' = noLink
              /\ result' = [result EXCEPT ![call + 1] = failed]
              /\ UNCHANGED <<phase, written, have, mask>>
  /\ UNCHANGED runs

(* close, called by the application between calls.                          *)
close ==
  /\ phase = "idle"
  /\ state # "NO_CONNECTION"
  /\ state' = "NO_CONNECTION"
  /\ nodes' = 0
  /\ giveUp
  /\ link' = noLink
  /\ UNCHANGED <<phase, call, eof, attempts, written, have, mask, runs, result>>

------------------------------------------------------------------------------
(* Events the dispatcher reports while execute waits. handleEvent goes on to
   read once it has written; what that finds is the next event here. A handler that returns
   0 takes the source off the list, which ends work; the connection is kept
   open.                                                                    *)
waiting(e) == phase = "select" /\ e \in mask

gives0(r) == nodes' = 0 /\ returns(r)

writeRequest ==
  /\ waiting("write")
  /\ link.srv \in {"up", "fin"}
  /\ \E n \in written + 1 .. 2 :
       /\ written' = n
       /\ state' = IF n = 2 THEN "READ_HEADER" ELSE state
       /\ mask' = IF n = 2 THEN {"read"} ELSE {"write"}
       /\ link' = IF n = 2 /\ link.srv = "up"
                  THEN [link EXCEPT !.queue = Append(@, call)] ELSE link
  /\ UNCHANGED <<phase, call, eof, attempts, have, nodes, orphans, runs, result>>

writeFails ==
  /\ waiting("write")
  /\ link.srv = "reset"
  /\ RefusalWakes \/ written > 0
  /\ gives0(failed)
  /\ UNCHANGED <<call, state, eof, attempts, written, have, mask, link, orphans, runs>>

Exception ==
  /\ waiting("exception")
  /\ link.srv = "reset"
  /\ gives0(failed)
  /\ UNCHANGED <<call, state, eof, attempts, written, have, mask, link, orphans, runs>>

(* readHeader and readResponse when there is data: n pieces have come in.    *)
readData ==
  /\ waiting("read")
  /\ link.srv # "reset"
  /\ \E n \in 1 .. Len(link.resp) :
       LET all == have + n >= 2
           atEnd == n = Len(link.resp) /\ link.srv = "fin"
       IN /\ link' = [link EXCEPT !.resp = SubSeq(@, n + 1, Len(@))]
          /\ eof' = atEnd
          /\ \/ /\ all
                /\ have' = 2
                /\ state' = "IDLE"
                /\ gives0(link.resp[1])
             \/ /\ ~ all /\ atEnd
                /\ have' = have + n
                /\ gives0(failed)
                /\ UNCHANGED state
             \/ /\ ~ all /\ ~ atEnd
                /\ have' = have + n
                /\ state' = "READ_RESPONSE"
                /\ UNCHANGED <<phase, nodes, result>>
  /\ UNCHANGED <<call, attempts, written, mask, orphans, runs>>

streamEnds ==
  /\ waiting("read")
  /\ \/ link.srv = "reset"
     \/ link.srv = "fin" /\ link.resp = << >>

retryConnects ==
  /\ giveUp
  /\ \/ /\ toWrite
        /\ eof' = FALSE
        /\ mask' \in {{"write"}, {"write", "exception"}}
        /\ link' = newLink
        /\ UNCHANGED <<phase, result>>
     \/ /\ state' = "NO_CONNECTION"
        /\ eof' = FALSE
        /\ nodes' = 0
        /\ link' = noLink
        /\ \/ returns(failed)
           \/ phase' = "crashed" /\ UNCHANGED result
        /\ UNCHANGED <<written, have, mask>>

\* Fault: the attempts are not counted.
retry_Uncounted ==
  /\ streamEnds /\ have = 0
  /\ retryConnects
  /\ UNCHANGED <<call, attempts, runs>>

(* The connection ends before any data: one more attempt. The dispatcher then
   writes the mask through a node that is no longer in the list, which hits
   the new node or nothing; or, when there is no new connection, takes the
   node out a second time, which may end the program.                       *)
retry ==
  /\ streamEnds /\ have = 0
  /\ attempts = 0
  /\ attempts' = 1
  /\ retryConnects
  /\ UNCHANGED <<call, runs>>

readFails ==
  /\ streamEnds
  /\ have > 0 \/ attempts > 0
  /\ attempts' = IF have = 0 THEN 2 ELSE attempts
  /\ eof' = (link.srv = "fin")
  /\ gives0(failed)
  /\ UNCHANGED <<call, state, written, have, mask, link, orphans, runs>>

selectFails ==
  /\ phase = "select"
  /\ returns(failed)
  /\ UNCHANGED <<call, state, eof, attempts, written, have, nodes, mask, link,
                 orphans, runs>>

Event ==
  \/ writeRequest \/ writeFails \/ Exception
  \/ readData \/ retry \/ readFails

------------------------------------------------------------------------------
(* The server. It may close a connection with a request unanswered, run a
   method and be lost before it answers, and run requests nobody waits for. *)
Accept ==
  /\ link.srv = "pending"
  /\ link' \in {[link EXCEPT !.srv = "up"], [link EXCEPT !.srv = "reset"]}
  /\ UNCHANGED <<client, orphans, runs, result>>

Answer ==
  /\ link.srv = "up" /\ link.queue # << >>
  /\ LET c == Head(link.queue)
     IN /\ runs' = [runs EXCEPT ![c] = @ + 1]
        /\ link' = [link EXCEPT !.queue = Tail(@), !.resp = @ \o <<c, c>>]
  /\ UNCHANGED <<client, orphans, result>>

RunAndDie ==
  /\ link.srv = "up" /\ link.queue # << >>
  /\ runs' = [runs EXCEPT ![Head(link.queue)] = @ + 1]
  /\ \E end \in {"fin", "reset"}, n \in 0 .. 1 :
       link' = [link EXCEPT !.srv = end, !.queue = << >>,
                            !.resp = @ \o SubSeq(link.queue, 1, n)]
  /\ UNCHANGED <<client, orphans, result>>

Disconnect ==
  /\ link.srv = "up"
  /\ \E end \in {"fin", "reset"} : link' = [link EXCEPT !.srv = end, !.queue = << >>]
  /\ UNCHANGED <<client, orphans, runs, result>>

RunLate(c) ==
  /\ orphans[c] > 0
  /\ orphans' = [orphans EXCEPT ![c] = @ - 1]
  /\ runs' \in {runs, [runs EXCEPT ![c] = @ + 1]}
  /\ UNCHANGED <<client, link, result>>

Serve == Accept \/ Answer \/ RunAndDie \/ Disconnect

Next ==
  \/ execute \/ close
  \/ Event \/ selectFails
  \/ Serve \/ \E c \in Call : RunLate(c)

Spec == Init /\ [][Next]_vars

(* A client that waits gets the events that occur; a server answers a request
   in the end or drops the connection, and the system connects or refuses.   *)
Fairness ==
  /\ WF_vars(Event)
  /\ WF_vars(Accept) /\ WF_vars(Answer \/ RunAndDie)

------------------------------------------------------------------------------
(* A call that succeeds returns the response to its own request, and the
   server has run it: never an answer left over from an earlier call.       *)
AnswerIsOwn == \A c \in Call : result[c] \in Call => result[c] = c /\ runs[c] > 0

(* Every state has its types, and answers belong to their calls.             *)
AnswersSound == TypeOK /\ AnswerIsOwn

(* Times the server has run a call, or may still run it.                    *)
due(c) == runs[c] + orphans[c] + Cardinality({i \in DOMAIN link.queue : link.queue[i] = c})

(* The method of a call is run twice at most, and twice only if the call was
   retried; a call that has not been made is never run.                     *)
AtMostTwice ==
  \A c \in Call :
    due(c) <= IF c > call THEN 0 ELSE IF c = call /\ attempts = 0 THEN 1 ELSE 2

(* A retry whose connection was refused and that the dispatcher, which has
   written its mask through the node taken out, watches for writing alone:
   where a refusal is an exception only, nothing wakes it.                  *)
Deaf ==
  /\ ~ RefusalWakes
  /\ attempts > 0 /\ written = 0
  /\ link.srv = "reset" /\ "exception" \notin mask

(* misc/xmlrpc/XmlRpcClient.h:55-57: execute does not return until it receives
   a response or an error. It does return then, or the program has ended,
   whatever the server does, but for a retry that is deaf.                  *)
Returns == phase = "select" ~> (phase # "select" \/ Deaf)
==============================================================================
