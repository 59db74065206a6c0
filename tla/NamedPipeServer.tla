--------------------------- MODULE NamedPipeServer ---------------------------
(***************************************************************************)
(* misc/NamedPipeServer: the listener of Sample/Server as a class, with a  *)
(* thread per client that wraps its handle in a NamedPipeWrapper. The      *)
(* wrapper's destructor closes the handle the thread has closed already.   *)
(* Meanwhile the listener may have been given the same value for the pipe  *)
(* of the next client: handle values are shared by all threads.            *)
(***************************************************************************)
EXTENDS Naturals

CONSTANTS Handle,    \* values CreateNamedPipe can return
          Thread,    \* threads that can exist at a time
          Listener,  \* the thread that runs Listen
          Lost,      \* a pipe whose thread could not be created
          Nobody     \* no pipe behind the value

VARIABLES
  user,       \* for whom the pipe behind each handle value was created or to
              \* whom it was handed
  client,     \* at its other end: "none" yet, "open", "left", or "cut" by
              \* DisconnectNamedPipe
  listener,   \* where Listen stands
  hPipe,      \* its local variable
  pc, own     \* the threads and their local hPipe

vars == <<user, client, listener, hPipe, pc, own>>

TypeOK ==
  /\ user \in [Handle -> Thread \cup {Listener, Lost, Nobody}]
  /\ client \in [Handle -> {"none", "open", "left", "cut"}]
  /\ listener \in {"create", "connect", "spawn"}
  /\ hPipe \in Handle
  /\ pc \in [Thread -> {"idle", "serve", "disconnect", "close", "destroy"}]
  /\ own \in [Thread -> Handle]

Init ==
  /\ user = [h \in Handle |-> Nobody]
  /\ client = [h \in Handle |-> "none"]
  /\ listener = "create"
  /\ hPipe \in Handle
  /\ pc = [t \in Thread |-> "idle"]
  /\ own \in [Thread -> Handle]

(* CloseHandle closes what the value stands for now, if anything.           *)
closeHandle(h) ==
  /\ user' = [user EXCEPT ![h] = Nobody]
  /\ client' = [client EXCEPT ![h] = "none"]

------------------------------------------------------------------------------
(* The clients: one opens a pipe that nobody has opened, and closes its end
   whenever it likes.                                                       *)
ClientOpens(h) ==
  /\ user[h] # Nobody /\ client[h] = "none"
  /\ client' = [client EXCEPT ![h] = "open"]
  /\ UNCHANGED <<user, listener, hPipe, pc, own>>

ClientLeaves(h) ==
  /\ client[h] = "open"
  /\ client' = [client EXCEPT ![h] = "left"]
  /\ UNCHANGED <<user, listener, hPipe, pc, own>>

Clients == \E h \in Handle : ClientOpens(h) \/ ClientLeaves(h)

------------------------------------------------------------------------------
CreateNamedPipe(h) ==
  /\ listener = "create"
  /\ user[h] = Nobody
  /\ user' = [user EXCEPT ![h] = Listener]
  /\ hPipe' = h
  /\ listener' = "connect"
  /\ UNCHANGED <<client, pc, own>>

(* Out of handles the call fails, and the loop tries again at once.         *)
CreateNamedPipeFails ==
  /\ listener = "create"
  /\ \A h \in Handle : user[h] # Nobody
  /\ UNCHANGED vars

(* The call waits until a client has opened the pipe; the client may have
   left again by the time it returns.                                       *)
clientCame == client[hPipe] \in {"open", "left"}

ConnectNamedPipe ==
  /\ listener = "connect"
  /\ clientCame
  /\ listener' = "spawn"
  /\ UNCHANGED <<user, client, hPipe, pc, own>>

(* The client had left before the call was made, or another thread has closed
   or disconnected what the listener waits for. The source does not say what
   the call does then, and nothing here relies on its failing: fairness does
   not force it to return.                                                  *)
ConnectNamedPipeFails ==
  /\ listener = "connect"
  /\ client[hPipe] \in {"left", "cut"} \/ user[hPipe] = Nobody
  /\ closeHandle(hPipe)
  /\ listener' = "create"
  /\ UNCHANGED <<hPipe, pc, own>>

(* A pipe that was disconnected before the call waits for a client anew.    *)
ConnectNamedPipeAgain ==
  /\ listener = "connect"
  /\ client[hPipe] = "cut"
  /\ client' = [client EXCEPT ![hPipe] = "none"]
  /\ UNCHANGED <<user, listener, hPipe, pc, own>>

CreateThread(t) ==
  /\ listener = "spawn"
  /\ pc[t] = "idle"
  /\ pc' = [pc EXCEPT ![t] = "serve"]
  /\ own' = [own EXCEPT ![t] = hPipe]
  /\ user' = [user EXCEPT ![hPipe] = IF @ = Listener THEN t ELSE @]
  /\ listener' = "create"
  /\ UNCHANGED <<client, hPipe>>

(* The loop goes on and the pipe stays open: its handle is forgotten.       *)
CreateThreadFails ==
  /\ listener = "spawn"
  /\ user' = [user EXCEPT ![hPipe] = IF @ = Listener THEN Lost ELSE @]
  /\ listener' = "create"
  /\ UNCHANGED <<client, hPipe, pc, own>>

Listen ==
  \/ \E h \in Handle : CreateNamedPipe(h)
  \/ CreateNamedPipeFails
  \/ ConnectNamedPipe
  \/ ConnectNamedPipeFails
  \/ ConnectNamedPipeAgain
  \/ \E t \in Thread : CreateThread(t)
  \/ CreateThreadFails

------------------------------------------------------------------------------
\* Fault: the thread is given the address of the listener's hPipe.
ReadWrite_LateHandle(t) ==
  /\ pc[t] = "serve"
  /\ pc' = [pc EXCEPT ![t] = "disconnect"]
  /\ own' = [own EXCEPT ![t] = hPipe]
  /\ UNCHANGED <<user, client, listener, hPipe>>

(* NamedPipeWrapper's Read and Write of a string do not touch the pipe.     *)
ReadWrite(t) ==
  /\ pc[t] = "serve"
  /\ pc' = [pc EXCEPT ![t] = "disconnect"]
  /\ UNCHANGED <<user, client, listener, hPipe, own>>

(* Nothing was ever written that FlushFileBuffers would have to wait for.
   DisconnectNamedPipe cuts off whoever is at the other end of what the value
   stands for now.                                                          *)
FlushAndDisconnect(t) ==
  /\ pc[t] = "disconnect"
  /\ pc' = [pc EXCEPT ![t] = "close"]
  /\ client' = [client EXCEPT ![own[t]] = IF user[own[t]] = Nobody THEN @ ELSE "cut"]
  /\ UNCHANGED <<user, listener, hPipe, own>>

CloseHandle(t) ==
  /\ pc[t] = "close"
  /\ closeHandle(own[t])
  /\ pc' = [pc EXCEPT ![t] = "destroy"]
  /\ UNCHANGED <<listener, hPipe, own>>

DestroyWrapper(t) ==
  /\ pc[t] = "destroy"
  /\ closeHandle(own[t])
  /\ pc' = [pc EXCEPT ![t] = "idle"]
  /\ UNCHANGED <<listener, hPipe, own>>

InstanceThread(t) ==
  \/ ReadWrite(t)
  \/ FlushAndDisconnect(t)
  \/ CloseHandle(t)
  \/ DestroyWrapper(t)

Next == Clients \/ Listen \/ \E t \in Thread : InstanceThread(t)

Spec == Init /\ [][Next]_vars

(* The system schedules the listener, but for a call that waits for a client,
   and every thread that still has the pipe it was created for. Nothing is
   assumed of the calls on a value that was closed under its thread, nor of
   the clients.                                                             *)
ListenGoesOn == Listen /\ (listener = "connect" => clientCame)

ThreadGoesOn(t) == user[own[t]] = t /\ InstanceThread(t)

FairSpec ==
  /\ Spec
  /\ WF_vars(ListenGoesOn)
  /\ \A t \in Thread : WF_vars(ThreadGoesOn(t))

------------------------------------------------------------------------------
(* A client that has opened a pipe is not left at it for ever, although a
   handle that is closed twice may take a pipe from the listener or from
   another thread: its thread disconnects it, somebody closes the pipe under
   it, or no thread could be created for it.                                *)
ClientsLetGo ==
  \A h \in Handle : client[h] = "open" ~> (client[h] # "open" \/ user[h] = Lost)
==============================================================================
