----------------------------- MODULE EchoServer -----------------------------
(***************************************************************************)
(* Sample/Server: a listener that creates an instance of a named pipe,     *)
(* waits for a client to connect, hands the pipe to a thread of its own,   *)
(* and starts again; and the threads, which answer the requests of their   *)
(* clients until the clients leave. Handle values are used again as soon   *)
(* as they are closed.                                                     *)
(***************************************************************************)
EXTENDS Integers

CONSTANTS Client,     \* programs that open the pipe
          Handle,     \* values CreateNamedPipe can return
          Thread,     \* threads that can exist at a time
          Nobody,     \* no client, no handle
          MaxPending  \* bound on the requests a client has open

ASSUME ServerAssumption ==
  /\ Nobody \notin Client
  /\ Nobody \notin Handle
  /\ MaxPending \in Nat

VARIABLES
  pipe,       \* state of the pipe instance behind each handle value
  peer,       \* the client at its other end
  requests,   \* messages in the pipe the server has not read
  goodbye,    \* a message of no bytes, or one too long for the buffer, follows
  behind,     \* messages that follow behind that one
  replies,    \* messages in the pipe the client has not read
  listener,   \* where Listen stands, "returned" when the process has ended
  hPipe,      \* its local variable
  pc, own,    \* the threads and their local hPipe
  pending     \* history: requests of each client that have no reply yet

medium == <<pipe, peer, requests, goodbye, behind, replies>>
vars == <<medium, listener, hPipe, pc, own, pending>>

busy(t) == pc[t] # "idle"

(* The thread is in its read-and-reply loop.                                *)
serving(t) == pc[t] \in {"alloc", "read", "answer"}

TypeOK ==
  /\ pipe \in [Handle -> {"free", "listening", "connected", "broken", "disconnected"}]
  /\ peer \in [Handle -> Client \cup {Nobody}]
  /\ requests \in [Handle -> Nat]
  /\ goodbye \in [Handle -> BOOLEAN]
  /\ behind \in [Handle -> Nat]
  /\ replies \in [Handle -> Nat]
  /\ listener \in {"create", "connect", "spawn", "returned"}
  /\ hPipe \in Handle \cup {Nobody}
  /\ listener \in {"connect", "spawn"} => hPipe \in Handle
  /\ pc \in [Thread -> {"idle", "alloc", "read", "answer", "flush", "disconnect", "close"}]
  /\ own \in [Thread -> Handle \cup {Nobody}]
  /\ \A t \in Thread : busy(t) => own[t] \in Handle
  /\ pending \in [Client -> Int]

Init ==
  /\ pipe = [h \in Handle |-> "free"]
  /\ peer = [h \in Handle |-> Nobody]
  /\ requests = [h \in Handle |-> 0]
  /\ goodbye = [h \in Handle |-> FALSE]
  /\ behind = [h \in Handle |-> 0]
  /\ replies = [h \in Handle |-> 0]
  /\ listener = "create" /\ hPipe = Nobody
  /\ pc = [t \in Thread |-> "idle"]
  /\ own = [t \in Thread |-> Nobody]
  /\ pending = [c \in Client |-> 0]

------------------------------------------------------------------------------
(* The clients, and the pipe between them and the server. A client closes
   its end whenever it likes; what it has not read is then of no interest.  *)
connected(c) == \E h \in Handle : peer[h] = c /\ pipe[h] = "connected"

Connect(c, h) ==
  /\ pipe[h] = "listening"
  /\ ~ connected(c)
  /\ pipe' = [pipe EXCEPT ![h] = "connected"]
  /\ peer' = [peer EXCEPT ![h] = c]
  /\ pending' = [pending EXCEPT ![c] = 0]
  /\ UNCHANGED <<requests, goodbye, behind, replies, listener, hPipe, pc, own>>

(* Messages are read in the order in which they were written.               *)
Ask(c, h) ==
  /\ pipe[h] = "connected" /\ peer[h] = c
  /\ pending[c] < MaxPending
  /\ IF goodbye[h]
     THEN behind' = [behind EXCEPT ![h] = @ + 1] /\ UNCHANGED requests
     ELSE requests' = [requests EXCEPT ![h] = @ + 1] /\ UNCHANGED behind
  /\ pending' = [pending EXCEPT ![c] = @ + 1]
  /\ UNCHANGED <<pipe, peer, goodbye, replies, listener, hPipe, pc, own>>

SayGoodbye(h) ==
  /\ pipe[h] = "connected"
  /\ goodbye' = [goodbye EXCEPT ![h] = TRUE]
  /\ UNCHANGED <<pipe, peer, requests, behind, replies, listener, hPipe, pc, own, pending>>

Receive(c, h) ==
  /\ pipe[h] = "connected" /\ peer[h] = c
  /\ replies[h] > 0
  /\ replies' = [replies EXCEPT ![h] = @ - 1]
  /\ pending' = [pending EXCEPT ![c] = @ - 1]
  /\ UNCHANGED <<pipe, peer, requests, goodbye, behind, listener, hPipe, pc, own>>

Leave(h) ==
  /\ pipe[h] = "connected"
  /\ pipe' = [pipe EXCEPT ![h] = "broken"]
  /\ UNCHANGED <<peer, requests, goodbye, behind, replies, listener, hPipe, pc, own, pending>>

Clients ==
  \E h \in Handle :
    \/ \E c \in Client : Connect(c, h) \/ Ask(c, h) \/ Receive(c, h)
    \/ SayGoodbye(h)
    \/ Leave(h)

------------------------------------------------------------------------------
(* What CloseHandle leaves of the pipe instance behind a handle value.      *)
closed(h) ==
  /\ pipe' = [pipe EXCEPT ![h] = "free"]
  /\ peer' = [peer EXCEPT ![h] = Nobody]
  /\ requests' = [requests EXCEPT ![h] = 0]
  /\ goodbye' = [goodbye EXCEPT ![h] = FALSE]
  /\ behind' = [behind EXCEPT ![h] = 0]
  /\ replies' = [replies EXCEPT ![h] = 0]

(* Listen returns and the process ends, with every thread and every pipe.   *)
returns ==
  /\ listener' = "returned" /\ hPipe' = Nobody
  /\ pipe' = [h \in Handle |-> "free"]
  /\ peer' = [h \in Handle |-> Nobody]
  /\ requests' = [h \in Handle |-> 0]
  /\ goodbye' = [h \in Handle |-> FALSE]
  /\ behind' = [h \in Handle |-> 0]
  /\ replies' = [h \in Handle |-> 0]
  /\ pc' = [t \in Thread |-> "idle"]
  /\ own' = [t \in Thread |-> Nobody]
  /\ UNCHANGED pending

CreateNamedPipe(h) ==
  /\ listener = "create"
  /\ pipe[h] = "free"
  /\ pipe' = [pipe EXCEPT ![h] = "listening"]
  /\ hPipe' = h
  /\ listener' = "connect"
  /\ UNCHANGED <<peer, requests, goodbye, behind, replies, pc, own, pending>>

CreateNamedPipeFails ==
  /\ listener = "create"
  /\ returns

(* A client is at the other end. One that left before the call is reported
   as ERROR_NO_DATA, one that left after it is not reported at all.         *)
ConnectNamedPipe ==
  /\ listener = "connect"
  /\ pipe[hPipe] \in {"connected", "broken"}
  /\ listener' = "spawn"
  /\ UNCHANGED <<medium, hPipe, pc, own, pending>>

ConnectNamedPipeFails ==
  /\ listener = "connect"
  /\ pipe[hPipe] = "broken"
  /\ closed(hPipe)
  /\ listener' = "create"
  /\ UNCHANGED <<hPipe, pc, own, pending>>

CreateThread(t) ==
  /\ listener = "spawn"
  /\ pc[t] = "idle"
  /\ pc' = [pc EXCEPT ![t] = "alloc"]
  /\ own' = [own EXCEPT ![t] = hPipe]
  /\ listener' = "create"
  /\ UNCHANGED <<medium, hPipe, pending>>

CreateThreadFails ==
  /\ listener = "spawn"
  /\ returns

Listen ==
  \/ \E h \in Handle : CreateNamedPipe(h)
  \/ CreateNamedPipeFails
  \/ ConnectNamedPipe
  \/ ConnectNamedPipeFails
  \/ \E t \in Thread : CreateThread(t)
  \/ CreateThreadFails

------------------------------------------------------------------------------
(* The threads. HeapAlloc may fail: the thread ends without its pipe being
   disconnected or closed.                                                  *)
HeapAlloc(t) ==
  /\ pc[t] = "alloc"
  /\ pc' = [pc EXCEPT ![t] = "read"]
  /\ UNCHANGED <<medium, listener, hPipe, own, pending>>

HeapAllocFails(t) ==
  /\ pc[t] = "alloc"
  /\ pc' = [pc EXCEPT ![t] = "idle"]
  /\ own' = [own EXCEPT ![t] = Nobody]
  /\ UNCHANGED <<medium, listener, hPipe, pending>>

\* Fault: a second message is taken from the pipe with the first.
ReadFile_TwoAtOnce(t) ==
  /\ pc[t] = "read" /\ requests[own[t]] > 0
  /\ requests' = [requests EXCEPT ![own[t]] = IF @ > 1 THEN @ - 2 ELSE @ - 1]
  /\ pc' = [pc EXCEPT ![t] = "answer"]
  /\ UNCHANGED <<pipe, peer, goodbye, behind, replies, listener, hPipe, own, pending>>

ReadFile(t) ==
  /\ pc[t] = "read"
  /\ requests[own[t]] > 0
  /\ requests' = [requests EXCEPT ![own[t]] = @ - 1]
  /\ pc' = [pc EXCEPT ![t] = "answer"]
  /\ UNCHANGED <<pipe, peer, goodbye, behind, replies, listener, hPipe, own, pending>>

(* The client has closed its end, has sent a message of no bytes, or one the
   buffer does not hold.                                                    *)
ReadFileFails(t) ==
  /\ pc[t] = "read"
  /\ requests[own[t]] = 0
  /\ pipe[own[t]] = "broken" \/ goodbye[own[t]]
  /\ pc' = [pc EXCEPT ![t] = "flush"]
  /\ UNCHANGED <<medium, listener, hPipe, own, pending>>

\* Fault: the loop is left without an answer.
WriteFile_NoReply(t) ==
  /\ pc[t] = "answer"
  /\ pc' = [pc EXCEPT ![t] = "flush"]
  /\ UNCHANGED <<medium, listener, hPipe, own, pending>>

(* GetAnswerToRequest and WriteFile: the same answer to every request.      *)
WriteFile(t) ==
  /\ pc[t] = "answer"
  /\ \/ /\ pipe[own[t]] = "connected"
        /\ replies' = [replies EXCEPT ![own[t]] = @ + 1]
        /\ pc' = [pc EXCEPT ![t] = "read"]
     \/ /\ pipe[own[t]] = "broken"
        /\ pc' = [pc EXCEPT ![t] = "flush"]
        /\ UNCHANGED replies
  /\ UNCHANGED <<pipe, peer, requests, goodbye, behind, listener, hPipe, own, pending>>

\* Fault: the pipe is disconnected without waiting for the client to read.
FlushFileBuffers_NoWait(t) ==
  /\ pc[t] = "flush"
  /\ pc' = [pc EXCEPT ![t] = "disconnect"]
  /\ UNCHANGED <<medium, listener, hPipe, own, pending>>

FlushFileBuffers(t) ==
  /\ pc[t] = "flush"
  /\ replies[own[t]] = 0 \/ pipe[own[t]] = "broken"
  /\ pc' = [pc EXCEPT ![t] = "disconnect"]
  /\ UNCHANGED <<medium, listener, hPipe, own, pending>>

(* DisconnectNamedPipe throws away what is still in the pipe.               *)
DisconnectNamedPipe(t) ==
  /\ pc[t] = "disconnect"
  /\ pc' = [pc EXCEPT ![t] = "close"]
  /\ pipe' = [pipe EXCEPT ![own[t]] = "disconnected"]
  /\ requests' = [requests EXCEPT ![own[t]] = 0]
  /\ goodbye' = [goodbye EXCEPT ![own[t]] = FALSE]
  /\ behind' = [behind EXCEPT ![own[t]] = 0]
  /\ replies' = [replies EXCEPT ![own[t]] = 0]
  /\ UNCHANGED <<peer, listener, hPipe, own, pending>>

\* Fault: the handle is closed and the thread goes on reading from it.
CloseHandle_ReadsOn(t) ==
  /\ pc[t] = "close"
  /\ closed(own[t])
  /\ pc' = [pc EXCEPT ![t] = "read"]
  /\ UNCHANGED <<listener, hPipe, own, pending>>

CloseHandle(t) ==
  /\ pc[t] = "close"
  /\ closed(own[t])
  /\ pc' = [pc EXCEPT ![t] = "idle"]
  /\ own' = [own EXCEPT ![t] = Nobody]
  /\ UNCHANGED <<listener, hPipe, pending>>

InstanceThread(t) ==
  \/ HeapAlloc(t)
  \/ HeapAllocFails(t)
  \/ ReadFile(t)
  \/ ReadFileFails(t)
  \/ WriteFile(t)
  \/ FlushFileBuffers(t)
  \/ DisconnectNamedPipe(t)
  \/ CloseHandle(t)

------------------------------------------------------------------------------
Next ==
  \/ Clients
  \/ Listen
  \/ \E t \in Thread : InstanceThread(t)

Spec == Init /\ [][Next]_vars

(* The system schedules every thread that can run; clients owe nothing.     *)
FairSpec == Spec /\ \A t \in Thread : WF_vars(InstanceThread(t))

------------------------------------------------------------------------------
(* A thread works on a pipe nobody else works on: it is open, another thread
   has another one, and the listener, whatever handle values it is given, is
   never waiting on one a thread still uses.                                *)
OnePipeEach ==
  /\ \A t \in Thread : busy(t) => pipe[own[t]] \in {"connected", "broken", "disconnected"}
  /\ \A t, u \in Thread : busy(t) /\ busy(u) /\ own[t] = own[u] => t = u
  /\ listener \in {"connect", "spawn"} =>
       /\ pipe[hPipe] # "free"
       /\ listener = "spawn" => pipe[hPipe] \in {"connected", "broken"}
       /\ \A t \in Thread : busy(t) => own[t] # hPipe

(* Every state has its types and no pipe is shared, although handle values
   are given out again as soon as they are closed.                          *)
PipesSound == TypeOK /\ OnePipeEach

(* While a client's thread is in its loop, every request the client still
   waits for is in the pipe, in front of an empty message or behind it, in
   the thread's hands, or answered in the pipe.                             *)
NothingLost ==
  \A t \in Thread :
    serving(t) /\ pipe[own[t]] = "connected" =>
      pending[peer[own[t]]] = requests[own[t]] + behind[own[t]] + replies[own[t]]
                              + (IF pc[t] = "answer" THEN 1 ELSE 0)

(* A reply that was written is not thrown away under a client that is still
   connected, unless the whole process ends.                                *)
NoReplyDiscarded ==
  [][\A h \in Handle :
       pipe[h] = "connected" /\ replies'[h] < replies[h] /\ listener' # "returned" =>
         replies'[h] = replies[h] - 1 /\ pipe'[h] = "connected"]_vars

(* A request that is in the pipe of a running thread is answered, unless
   the client leaves or the process ends. One that was written behind an
   empty or too long message is not: but its client does not wait for ever
   either, its pipe is disconnected as soon as it has read what it was sent. *)
Answered ==
  \A h \in Handle :
    LET inLoop == \E t \in Thread : own[t] = h /\ pc[t] \in {"read", "answer"}
        ends == pipe[h] = "broken" \/ listener = "returned"
    IN
    /\ (requests[h] > 0 /\ inLoop) ~> (replies[h] > 0 \/ ends)
    /\ (behind[h] > 0 /\ inLoop) ~> (replies[h] > 0 \/ pipe[h] = "disconnected" \/ ends)
==============================================================================
