---------------------------- MODULE XmlRpcServer ----------------------------
(***************************************************************************)
(* misc/xmlrpc, the server's side: XmlRpcDispatch::work with the list of   *)
(* sources it visits, the listening XmlRpcServer, the connection objects   *)
(* it creates and that delete themselves, and the clients at the other end *)
(* of the sockets. Everything runs in the thread that calls work; clients  *)
(* act between any two steps of a pass. Socket numbers are used again.     *)
(*                                                                         *)
(* A request travels in three pieces: the first lines of the header, the   *)
(* rest of it, and the body. A response has one piece, which a socket      *)
(* takes at once, or two, of which it takes one at a time.                 *)
(***************************************************************************)
EXTENDS Integers, Sequences, SequencesExt, FiniteSets

CONSTANTS Conn,        \* XmlRpcServerConnection objects that can exist at a time
          Server,      \* the XmlRpcServer object
          Fd,          \* socket numbers
          Kind,        \* what a header asks for: "keep", "close", or "bad"
          MaxBacklog   \* bound on the clients that wait to be accepted

ASSUME ServerAssumption ==
  /\ Server \notin Conn
  /\ "end" \notin Conn \cup {Server}
  /\ -1 \notin Fd
  /\ Kind \subseteq {"keep", "close", "bad"}
  /\ MaxBacklog \in Nat

Source == Conn \cup {Server}
End == "end"             \* the end() of the list

VARIABLES
  phase,      \* where work stands; "idle" outside it
  sources,    \* _sources, in order
  mask,       \* the event each source is monitored for
  fd,         \* _fd of each source, -1 when closed
  ready,      \* sockets select reported
  it,         \* the iterator of the pass
  deadline,   \* _endTime: "never", "ahead" or "passed"
  doClear,    \* _doClear
  conn,       \* the connection objects, each with its client
  backlog,    \* clients that wait to be accepted
  cut,        \* history: what the clients had asked for whose connection was
              \* closed in the middle of a response, neither by shutdown nor
              \* because the client was gone
  selected    \* history: sources select reported

dispatcher == <<phase, sources, mask, fd, ready, it, deadline, doClear, selected>>
vars == <<dispatcher, conn, backlog, cut>>

(* A connection object: its _connectionState, the pieces of the request it has
   read, _keepAlive, the pieces of _response, 0 while it is empty, and of those
   written. Its client: the pieces of the request sent, what the header asks
   for, the client's end of the stream, and whether a piece of the response is
   in the socket. runs counts the times the method of a request was run.    *)
Connection ==
  [state : {"none", "READ_HEADER", "READ_REQUEST", "WRITE_RESPONSE"},
   got : 0 .. 3, keepAlive : BOOLEAN, size : 0 .. 2, written : 0 .. 2,
   sent : 0 .. 3, kind : {"keep", "close", "bad"},
   peer : {"open", "shut", "reset"}, unread : BOOLEAN, runs : Nat]

accepted ==
  [state |-> "READ_HEADER", got |-> 0, keepAlive |-> TRUE, size |-> 0,
   written |-> 0, sent |-> 0, kind |-> "keep", peer |-> "open",
   unread |-> FALSE, runs |-> 0]

none == [accepted EXCEPT !.state = "none"]

InWork == phase # "idle"

TypeOK ==
  /\ phase \in {"idle", "select", "pass", "after"}
  /\ sources \in Seq(Source)
  /\ mask \in [Source -> {"readable", "writable"}]
  /\ fd \in [Source -> Fd \cup {-1}]
  /\ ready \subseteq Fd
  /\ it \in Source \cup {End}
  /\ deadline \in {"never", "ahead", "passed"}
  /\ doClear \in BOOLEAN
  /\ conn \in [Conn -> Connection]
  /\ backlog \in 0 .. MaxBacklog
  /\ cut \subseteq Kind
  /\ selected \subseteq Source

Init ==
  /\ phase = "idle" /\ sources = << >>
  /\ mask = [s \in Source |-> "readable"]
  /\ fd = [s \in Source |-> -1]
  /\ ready = {} /\ it = End /\ deadline = "never" /\ doClear = FALSE
  /\ conn = [c \in Conn |-> none]
  /\ backlog = 0 /\ cut = {}
  /\ selected = {}

------------------------------------------------------------------------------
(* The clients. One sends its next request when it has the whole response.  *)
exists(c) == conn[c].state # "none"

Knock ==
  /\ fd[Server] # -1
  /\ backlog < MaxBacklog
  /\ backlog' = backlog + 1
  /\ UNCHANGED <<dispatcher, conn, cut>>

Send(c) ==
  /\ exists(c) /\ conn[c].peer = "open"
  /\ conn[c].sent < 3
  /\ \E k \in IF conn[c].sent = 1 THEN Kind ELSE {conn[c].kind} :
       conn' = [conn EXCEPT ![c].sent = @ + 1, ![c].kind = k]
  /\ UNCHANGED <<dispatcher, backlog, cut>>

Receive(c) ==
  /\ exists(c) /\ conn[c].unread
  /\ conn' = [conn EXCEPT ![c].unread = FALSE]
  /\ UNCHANGED <<dispatcher, backlog, cut>>

Hangup(c) ==
  /\ exists(c)
  /\ \/ conn[c].peer = "open" /\ conn' = [conn EXCEPT ![c].peer = "shut"]
     \/ conn[c].peer # "reset" /\ conn' = [conn EXCEPT ![c].peer = "reset"]
  /\ UNCHANGED <<dispatcher, backlog, cut>>

Clients == Knock \/ \E c \in Conn : Send(c) \/ Receive(c) \/ Hangup(c)

------------------------------------------------------------------------------
(* The application, outside work. The steps of bindAndListen that can fail
   close the socket again and add nothing.                                  *)
bindAndListen ==
  /\ ~ InWork
  /\ fd[Server] = -1
  /\ \E f \in Fd \ Range(fd) : fd' = [fd EXCEPT ![Server] = f]
  /\ sources' = Append(sources, Server)
  /\ mask' = [mask EXCEPT ![Server] = "readable"]
  /\ UNCHANGED <<phase, ready, it, deadline, doClear, selected, conn, backlog, cut>>

work ==
  /\ ~ InWork
  /\ sources # << >>
  /\ deadline' \in {"never", "ahead"}
  /\ doClear' = FALSE
  /\ phase' = "select"
  /\ UNCHANGED <<sources, mask, fd, ready, it, selected, conn, backlog, cut>>

(* XmlRpcSource::close of every source of the list, with the destructor of
   those that delete themselves.                                            *)
closeAll ==
  /\ sources' = << >>
  /\ fd' = [s \in Source |-> -1]
  /\ conn' = [c \in Conn |-> none]
  /\ backlog' = 0
  /\ mask' = [s \in Source |-> "readable"]

shutdown ==
  /\ ~ InWork
  /\ closeAll
  /\ UNCHANGED <<phase, ready, it, deadline, doClear, selected, cut>>

------------------------------------------------------------------------------
(* The loop of work. select reports every source with something to read, or
   with room for a piece; it may time out, or fail.                         *)
hasEvent(s) ==
  IF s = Server THEN backlog > 0
  ELSE \/ conn[s].peer = "reset"
       \/ mask[s] = "readable" /\ (conn[s].sent > conn[s].got \/ conn[s].peer = "shut")
       \/ mask[s] = "writable" /\ ~ conn[s].unread

pending == {s \in Range(sources) : hasEvent(s)}

Select ==
  /\ phase = "select"
  /\ pending # {} \/ deadline = "ahead"
  /\ selected' = pending
  /\ ready' = {fd[s] : s \in pending}
  /\ it' = Head(sources)
  /\ phase' = "pass"
  /\ UNCHANGED <<sources, mask, fd, deadline, doClear, conn, backlog, cut>>

SelectFails ==
  /\ phase = "select"
  /\ phase' = "idle"
  /\ UNCHANGED <<sources, mask, fd, ready, it, deadline, doClear, selected, conn,
                 backlog, cut>>

(* Where a source stands in the list, and the iterator that follows it.     *)
position(s) == CHOOSE i \in 1 .. Len(sources) : sources[i] = s

after(s) ==
  IF position(s) < Len(sources) THEN sources[position(s) + 1] ELSE End

visiting(s) == phase = "pass" /\ it = s /\ fd[s] \in ready

Skip ==
  /\ phase = "pass" /\ it # End
  /\ fd[it] \notin ready
  /\ it' = after(it)
  /\ UNCHANGED <<phase, sources, mask, fd, ready, deadline, doClear, selected,
                 conn, backlog, cut>>

EndOfPass ==
  /\ phase = "pass" /\ it = End
  /\ phase' = "after"
  /\ ready' = {} /\ selected' = {}
  /\ UNCHANGED <<sources, mask, fd, it, deadline, doClear, conn, backlog, cut>>

(* After a pass: the sources are cleared if a handler asked for it, and work
   returns when nothing is left to monitor or its time is up.               *)
endLoop ==
  \/ sources' = << >> /\ phase' = "idle"
  \/ deadline # "never" /\ phase' = "idle"
  \/ sources' # << >> /\ deadline # "passed" /\ phase' = "select"

ClearAfterPass ==
  /\ phase = "after" /\ doClear
  /\ closeAll
  /\ doClear' = FALSE
  /\ endLoop
  /\ UNCHANGED <<ready, it, deadline, selected, cut>>

NextPass ==
  /\ phase = "after" /\ ~ doClear
  /\ UNCHANGED sources
  /\ endLoop
  /\ UNCHANGED <<mask, fd, ready, it, deadline, doClear, selected, conn, backlog, cut>>

------------------------------------------------------------------------------
\* Fault: the listening socket is put at the end of the list again, before the
\* new connection.
acceptConnection_Requeues(c, f) ==
  /\ visiting(Server) /\ backlog > 0
  /\ ~ exists(c) /\ f \in Fd \ Range(fd)
  /\ it' = after(Server)
  /\ sources' = SelectSeq(sources, LAMBDA s : s # Server) \o <<Server, c>>
  /\ fd' = [fd EXCEPT ![c] = f]
  /\ mask' = [mask EXCEPT ![c] = "readable"]
  /\ conn' = [conn EXCEPT ![c] = accepted]
  /\ backlog' = backlog - 1
  /\ UNCHANGED <<phase, ready, deadline, doClear, selected, cut>>

(* XmlRpcServer::handleEvent. The new source goes to the end of the list; the
   iterator has moved past the server's source before.                      *)
acceptConnection(c, f) ==
  /\ visiting(Server)
  /\ backlog > 0
  /\ ~ exists(c) /\ f \in Fd \ Range(fd)
  /\ it' = after(Server)
  /\ sources' = Append(sources, c)
  /\ fd' = [fd EXCEPT ![c] = f]
  /\ mask' = [mask EXCEPT ![c] = "readable"]
  /\ conn' = [conn EXCEPT ![c] = accepted]
  /\ backlog' = backlog - 1
  /\ UNCHANGED <<phase, ready, deadline, doClear, selected, cut>>

(* accept fails, or its socket cannot be made non-blocking.                 *)
acceptFails ==
  /\ visiting(Server)
  /\ it' = after(Server)
  /\ backlog' \in {backlog, IF backlog > 0 THEN backlog - 1 ELSE 0}
  /\ UNCHANGED <<phase, sources, mask, fd, ready, deadline, doClear, selected, conn, cut>>

------------------------------------------------------------------------------
(* XmlRpcServerConnection::handleEvent and what work does with its result.
   A mask of 0 takes the source off the list, where the iterator stood, closes
   and deletes it; the destructor's removeSource finds nothing any more.    *)
remove(c) == sources' = RemoveAt(sources, position(c))

destroy(c, unfinished) ==
  /\ cut' = IF unfinished THEN cut \cup {conn[c].kind} ELSE cut
  /\ selected' = selected \ {c}
  /\ fd' = [fd EXCEPT ![c] = -1]
  /\ mask' = [mask EXCEPT ![c] = "readable"]
  /\ conn' = [conn EXCEPT ![c] = none]

\* Faults: a client that shuts its end loses the response being written; the
\* connection is deleted and its entry stays in the list.
HandlerGivesUp_OnShut(c) ==
  /\ visiting(c) /\ conn[c].peer # "open"
  /\ it' = after(c)
  /\ remove(c)
  /\ destroy(c, conn[c].state = "WRITE_RESPONSE" /\ conn[c].peer # "reset")
  /\ UNCHANGED <<phase, ready, deadline, doClear, backlog>>

HandlerGivesUp_StaysListed(c) ==
  /\ visiting(c) /\ conn[c].peer = "reset"
  /\ it' = after(c)
  /\ destroy(c, FALSE)
  /\ UNCHANGED <<phase, sources, ready, deadline, doClear, backlog>>

(* A read or write error, the end of the stream inside a request, or a header
   without a usable Content-length.                                         *)
HandlerGivesUp(c) ==
  /\ visiting(c)
  /\ \/ conn[c].peer = "reset"
     \/ conn[c].state # "WRITE_RESPONSE" /\ conn[c].sent < 3 /\ conn[c].peer = "shut"
     \/ conn[c].state = "READ_HEADER" /\ conn[c].sent >= 2 /\ conn[c].kind = "bad"
  /\ it' = after(c)
  /\ remove(c)
  /\ destroy(c, conn[c].state = "WRITE_RESPONSE" /\ conn[c].peer # "reset")
  /\ UNCHANGED <<phase, ready, deadline, doClear, backlog>>

HandlerReadsOn(c) ==
  /\ visiting(c)
  /\ conn[c].state # "WRITE_RESPONSE" /\ conn[c].sent < 3 /\ conn[c].peer = "open"
  /\ conn[c].state = "READ_HEADER" /\ conn[c].sent = 2 => conn[c].kind # "bad"
  /\ it' = after(c)
  /\ conn' = [conn EXCEPT
       ![c].got = conn[c].sent,
       ![c].state = IF conn[c].sent = 2 THEN "READ_REQUEST" ELSE @,
       ![c].keepAlive = IF conn[c].sent = 2 THEN conn[c].kind = "keep" ELSE @]
  /\ UNCHANGED <<phase, sources, mask, fd, ready, deadline, doClear, selected,
                 backlog, cut>>

(* The request is complete. Its method is run if there is no response yet;
   the method may call exit or shutdown. What the socket takes of the response
   is written after the pieces written before, and the connection is closed
   then, whether the response is whole or not, unless it is kept alive.     *)
answer(c, n, effect, first, before) ==
  LET k == conn[c]
      alive == IF k.state = "READ_HEADER" THEN k.kind = "keep" ELSE k.keepAlive
      now == IF k.unread THEN before ELSE before + 1
      ran == IF first THEN k.runs + 1 ELSE k.runs
  IN /\ visiting(c)
     /\ k.peer # "reset"
     /\ k.sent = 3
     /\ k.state = "READ_HEADER" => k.kind # "bad"
     /\ ~ first => n = k.size /\ effect = "none"
     /\ it' = after(c)
     /\ doClear' = (doClear \/ effect = "shutdown")
     /\ deadline' = IF effect = "exit" THEN "passed" ELSE deadline
     /\ \/ /\ alive /\ now # n
           /\ conn' = [conn EXCEPT ![c] = [k EXCEPT
                !.state = "WRITE_RESPONSE", !.got = 3, !.keepAlive = alive,
                !.size = n, !.written = now, !.unread = TRUE, !.runs = ran]]
           /\ mask' = [mask EXCEPT ![c] = "writable"]
           /\ UNCHANGED <<sources, fd, cut, selected>>
        \/ /\ alive /\ now = n
           /\ conn' = [conn EXCEPT ![c] = [accepted EXCEPT
                !.keepAlive = alive, !.written = now, !.peer = k.peer, !.unread = TRUE]]
           /\ mask' = [mask EXCEPT ![c] = "readable"]
           /\ UNCHANGED <<sources, fd, cut, selected>>
        \/ /\ ~ alive
           /\ remove(c) /\ destroy(c, now # n)
     /\ UNCHANGED <<phase, ready, backlog>>

Effect == {"none", "exit", "shutdown"}

\* Fault: the method is run again for the second piece.
writeResponse_RunsAgain(c) ==
  \E n \in 1 .. 2, effect \in Effect : answer(c, n, effect, TRUE, 0)

\* Fault: a response that is not whole at once is never continued.
writeResponse_OnceOnly(c) ==
  /\ conn[c].size = 0
  /\ \E n \in 1 .. 2, effect \in Effect : answer(c, n, effect, TRUE, 0)

writeResponse(c) ==
  \E n \in 1 .. 2, effect \in Effect :
    LET first == conn[c].size = 0
    IN answer(c, n, effect, first, IF first THEN 0 ELSE conn[c].written)

Dispatcher ==
  \/ Select
  \/ SelectFails
  \/ Skip
  \/ EndOfPass
  \/ ClearAfterPass
  \/ NextPass
  \/ \E c \in Conn, f \in Fd : acceptConnection(c, f)
  \/ acceptFails
  \/ \E c \in Conn : HandlerGivesUp(c) \/ HandlerReadsOn(c) \/ writeResponse(c)

Application == bindAndListen \/ work \/ shutdown

Next == Clients \/ Application \/ Dispatcher

Spec == Init /\ [][Next]_vars

(* The application calls work again whenever it returns, select does not fail
   for ever, and clients read what is sent to them.                         *)
FairSpec ==
  /\ Spec
  /\ WF_vars(Dispatcher) /\ SF_vars(Select)
  /\ WF_vars(work)
  /\ \A c \in Conn : WF_vars(Receive(c))

------------------------------------------------------------------------------
(* The list of sources, the objects and the sockets agree: a connection is in
   the list exactly as long as the object exists, every source of the list is
   there once and has an open socket nobody else has, and the iterator of a
   pass stands on a source of the list or at its end.                       *)
SourcesAreAlive ==
  /\ \A s \in Source : Cardinality({i \in DOMAIN sources : sources[i] = s}) =
                        IF fd[s] # -1 THEN 1 ELSE 0
  /\ \A s, t \in Source : fd[s] = fd[t] /\ fd[s] # -1 => s = t
  /\ \A c \in Conn : exists(c) <=> fd[c] # -1
  /\ phase = "pass" => it \in Range(sources) \cup {End}

(* Every state has its types, and list, objects and sockets agree.           *)
SourcesSound == TypeOK /\ SourcesAreAlive

(* A handler is called only for a socket that select reported for this very
   source, although sockets are closed, accepted and numbered anew during the
   pass.                                                                    *)
NoStaleEvent ==
  phase = "pass" /\ it # End /\ fd[it] \in ready => it \in selected

(* A method is run once for each request, however many writes its response
   takes.                                                                   *)
RunOnce == \A c \in Conn : conn[c].runs <= 1

(* A connection whose client is there is closed only between responses, unless
   the whole server is shut down or the client asked for it to be closed: then
   a response is cut off after its first write.                             *)
WholeResponse == cut \subseteq {"close"}

(* A request is run once and answered in full.                              *)
RequestsSound == RunOnce /\ WholeResponse

(* Every request that has arrived is answered, or its connection is closed.  *)
Answered == \A c \in Conn : conn[c].sent = 3 ~> (conn[c].sent = 0 \/ ~ exists(c))
==============================================================================
