-------------------------- MODULE EchoServer_proofs --------------------------
(* Theorems about EchoServer, for every number of clients, handle values,
   threads and open requests.                                               *)
EXTENDS EchoServer, TLAPS

(* The type invariant of the listener, the threads and the pipes.           *)
THEOREM Typing == Spec => []TypeOK
<1>1. Init => TypeOK
  BY DEF Init, TypeOK, busy
<1>2. TypeOK /\ [Next]_vars => TypeOK'
  <2> SUFFICES ASSUME TypeOK, [Next]_vars PROVE TypeOK'
    OBVIOUS
  <2> USE ServerAssumption
  <2>1. ASSUME NEW h \in Handle, NEW c \in Client, Connect(c, h) PROVE TypeOK'
    BY <2>1 DEF Connect, TypeOK, busy
  <2>2. ASSUME NEW h \in Handle, NEW c \in Client, Ask(c, h) PROVE TypeOK'
    BY <2>2 DEF Ask, TypeOK, busy
  <2>3. ASSUME NEW h \in Handle, NEW c \in Client, Receive(c, h) PROVE TypeOK'
    BY <2>3 DEF Receive, TypeOK, busy
  <2>4. ASSUME NEW h \in Handle, SayGoodbye(h) PROVE TypeOK'
    BY <2>4 DEF SayGoodbye, TypeOK, busy
  <2>5. ASSUME NEW h \in Handle, Leave(h) PROVE TypeOK'
    BY <2>5 DEF Leave, TypeOK, busy
  <2>6. ASSUME NEW h \in Handle, CreateNamedPipe(h) PROVE TypeOK'
    BY <2>6 DEF CreateNamedPipe, TypeOK, busy
  <2>7. CASE CreateNamedPipeFails
    BY <2>7 DEF CreateNamedPipeFails, returns, TypeOK, busy
  <2>8. CASE ConnectNamedPipe
    BY <2>8 DEF ConnectNamedPipe, medium, TypeOK, busy
  <2>9. CASE ConnectNamedPipeFails
    BY <2>9 DEF ConnectNamedPipeFails, closed, TypeOK, busy
  <2>10. ASSUME NEW t \in Thread, CreateThread(t) PROVE TypeOK'
    BY <2>10 DEF CreateThread, medium, TypeOK, busy
  <2>11. CASE CreateThreadFails
    BY <2>11 DEF CreateThreadFails, returns, TypeOK, busy
  <2>12. ASSUME NEW t \in Thread, HeapAlloc(t) PROVE TypeOK'
    BY <2>12 DEF HeapAlloc, medium, TypeOK, busy
  <2>13. ASSUME NEW t \in Thread, HeapAllocFails(t) PROVE TypeOK'
    BY <2>13 DEF HeapAllocFails, medium, TypeOK, busy
  <2>14. ASSUME NEW t \in Thread, ReadFile(t) PROVE TypeOK'
    BY <2>14 DEF ReadFile, TypeOK, busy
  <2>15. ASSUME NEW t \in Thread, ReadFileFails(t) PROVE TypeOK'
    BY <2>15 DEF ReadFileFails, medium, TypeOK, busy
  <2>16. ASSUME NEW t \in Thread, WriteFile(t) PROVE TypeOK'
    BY <2>16 DEF WriteFile, TypeOK, busy
  <2>17. ASSUME NEW t \in Thread, FlushFileBuffers(t) PROVE TypeOK'
    BY <2>17 DEF FlushFileBuffers, medium, TypeOK, busy
  <2>18. ASSUME NEW t \in Thread, DisconnectNamedPipe(t) PROVE TypeOK'
    BY <2>18 DEF DisconnectNamedPipe, TypeOK, busy
  <2>19. ASSUME NEW t \in Thread, CloseHandle(t) PROVE TypeOK'
    BY <2>19 DEF CloseHandle, closed, TypeOK, busy
  <2>20. CASE UNCHANGED vars
    BY <2>20 DEF vars, medium, TypeOK, busy
  <2>21. QED
    BY <2>1, <2>2, <2>3, <2>4, <2>5, <2>6, <2>7, <2>8, <2>9, <2>10,
       <2>11, <2>12, <2>13, <2>14, <2>15, <2>16, <2>17, <2>18, <2>19,
       <2>20
       DEF Next, Clients, Listen, InstanceThread
<1>3. QED
  BY <1>1, <1>2, PTL DEF Spec

(* No two threads, and no thread and the listener, ever use one pipe.       *)
THEOREM PipesAreNotShared == Spec => []OnePipeEach
<1>1. Init => OnePipeEach
  BY DEF Init, OnePipeEach, busy
<1>2. TypeOK /\ OnePipeEach /\ [Next]_vars => OnePipeEach'
  <2> SUFFICES ASSUME TypeOK, OnePipeEach, [Next]_vars PROVE OnePipeEach'
    OBVIOUS
  <2> USE ServerAssumption
  <2>1. ASSUME NEW h \in Handle, NEW c \in Client, Connect(c, h) PROVE OnePipeEach'
    BY <2>1 DEF Connect, OnePipeEach, TypeOK, busy
  <2>2. ASSUME NEW h \in Handle, NEW c \in Client, Ask(c, h) PROVE OnePipeEach'
    BY <2>2 DEF Ask, OnePipeEach, TypeOK, busy
  <2>3. ASSUME NEW h \in Handle, NEW c \in Client, Receive(c, h) PROVE OnePipeEach'
    BY <2>3 DEF Receive, OnePipeEach, TypeOK, busy
  <2>4. ASSUME NEW h \in Handle, SayGoodbye(h) PROVE OnePipeEach'
    BY <2>4 DEF SayGoodbye, OnePipeEach, TypeOK, busy
  <2>5. ASSUME NEW h \in Handle, Leave(h) PROVE OnePipeEach'
    BY <2>5 DEF Leave, OnePipeEach, TypeOK, busy
  <2>6. ASSUME NEW h \in Handle, CreateNamedPipe(h) PROVE OnePipeEach'
    BY <2>6 DEF CreateNamedPipe, OnePipeEach, TypeOK, busy
  <2>7. CASE CreateNamedPipeFails
    BY <2>7 DEF CreateNamedPipeFails, returns, OnePipeEach, TypeOK, busy
  <2>8. CASE ConnectNamedPipe
    BY <2>8 DEF ConnectNamedPipe, medium, OnePipeEach, TypeOK, busy
  <2>9. CASE ConnectNamedPipeFails
    BY <2>9 DEF ConnectNamedPipeFails, closed, OnePipeEach, TypeOK, busy
  <2>10. ASSUME NEW t \in Thread, CreateThread(t) PROVE OnePipeEach'
    BY <2>10 DEF CreateThread, medium, OnePipeEach, TypeOK, busy
  <2>11. CASE CreateThreadFails
    BY <2>11 DEF CreateThreadFails, returns, OnePipeEach, TypeOK, busy
  <2>12. ASSUME NEW t \in Thread, HeapAlloc(t) PROVE OnePipeEach'
    BY <2>12 DEF HeapAlloc, medium, OnePipeEach, TypeOK, busy
  <2>13. ASSUME NEW t \in Thread, HeapAllocFails(t) PROVE OnePipeEach'
    BY <2>13 DEF HeapAllocFails, medium, OnePipeEach, TypeOK, busy
  <2>14. ASSUME NEW t \in Thread, ReadFile(t) PROVE OnePipeEach'
    BY <2>14 DEF ReadFile, OnePipeEach, TypeOK, busy
  <2>15. ASSUME NEW t \in Thread, ReadFileFails(t) PROVE OnePipeEach'
    BY <2>15 DEF ReadFileFails, medium, OnePipeEach, TypeOK, busy
  <2>16. ASSUME NEW t \in Thread, WriteFile(t) PROVE OnePipeEach'
    BY <2>16 DEF WriteFile, OnePipeEach, TypeOK, busy
  <2>17. ASSUME NEW t \in Thread, FlushFileBuffers(t) PROVE OnePipeEach'
    BY <2>17 DEF FlushFileBuffers, medium, OnePipeEach, TypeOK, busy
  <2>18. ASSUME NEW t \in Thread, DisconnectNamedPipe(t) PROVE OnePipeEach'
    BY <2>18 DEF DisconnectNamedPipe, OnePipeEach, TypeOK, busy
  <2>19. ASSUME NEW t \in Thread, CloseHandle(t) PROVE OnePipeEach'
    BY <2>19 DEF CloseHandle, closed, OnePipeEach, TypeOK, busy
  <2>20. CASE UNCHANGED vars
    BY <2>20 DEF vars, medium, OnePipeEach, TypeOK, busy
  <2>21. QED
    BY <2>1, <2>2, <2>3, <2>4, <2>5, <2>6, <2>7, <2>8, <2>9, <2>10,
       <2>11, <2>12, <2>13, <2>14, <2>15, <2>16, <2>17, <2>18, <2>19,
       <2>20
       DEF Next, Clients, Listen, InstanceThread
<1>3. QED
  BY <1>1, <1>2, Typing, PTL DEF Spec

------------------------------------------------------------------------------
(* Why no request is lost: a client has one pipe at a time, a pipe without a
   client is empty, and the account is balanced from the moment a client
   connects, before its thread exists.                                      *)
OnePipePerClient ==
  \A h, g \in Handle :
    pipe[h] = "connected" /\ pipe[g] = "connected" /\ peer[h] = peer[g] => h = g

Balance(h, n) == pending[peer[h]] = requests[h] + behind[h] + replies[h] + n

ClientsOfPipes ==
  \A h \in Handle :
    /\ pipe[h] = "connected" => peer[h] \in Client
    /\ pipe[h] \in {"free", "listening"} =>
         requests[h] = 0 /\ behind[h] = 0 /\ replies[h] = 0

ListenerAccount ==
  listener \in {"connect", "spawn"} /\ pipe[hPipe] = "connected" => Balance(hPipe, 0)

ThreadAccount(t) ==
  serving(t) /\ pipe[own[t]] = "connected" =>
    Balance(own[t], IF pc[t] = "answer" THEN 1 ELSE 0)

Accounts ==
  /\ OnePipePerClient
  /\ ClientsOfPipes
  /\ ListenerAccount
  /\ \A t \in Thread : ThreadAccount(t)

LEMMA AccountsInvariance == Spec => []Accounts
<1>1. Init => Accounts
  BY DEF Init, Accounts, OnePipePerClient, ClientsOfPipes, ListenerAccount,
         ThreadAccount, serving
<1>2. TypeOK /\ OnePipeEach /\ Accounts /\ [Next]_vars => Accounts'
  <2> SUFFICES ASSUME TypeOK, OnePipeEach, Accounts, [Next]_vars PROVE Accounts'
    OBVIOUS
  <2> USE ServerAssumption DEF OnePipePerClient, ClientsOfPipes, ListenerAccount,
                               ThreadAccount, Balance, serving
  <2>1. ASSUME NEW h \in Handle, NEW c \in Client, Connect(c, h) PROVE Accounts'
    <3> USE <2>1 DEF Connect, Accounts, OnePipeEach, TypeOK, busy
    <3>1. OnePipePerClient'
      BY DEF connected
    <3>2. ClientsOfPipes'
      OBVIOUS
    <3>3. \A g \in Handle : g # h /\ pipe[g] = "connected" => peer[g] # c
      BY DEF connected
    <3>4. ListenerAccount'
      BY <3>3
    <3>5. ASSUME NEW u \in Thread PROVE ThreadAccount(u)'
      BY <3>3, <3>5
    <3>6. QED
      BY <3>1, <3>2, <3>4, <3>5
  <2>2. ASSUME NEW h \in Handle, NEW c \in Client, Ask(c, h) PROVE Accounts'
    BY <2>2 DEF Ask, Accounts, OnePipeEach, TypeOK, busy
  <2>3. ASSUME NEW h \in Handle, NEW c \in Client, Receive(c, h) PROVE Accounts'
    BY <2>3 DEF Receive, Accounts, OnePipeEach, TypeOK, busy
  <2>4. ASSUME NEW h \in Handle, SayGoodbye(h) PROVE Accounts'
    BY <2>4 DEF SayGoodbye, Accounts, OnePipeEach, TypeOK, busy
  <2>5. ASSUME NEW h \in Handle, Leave(h) PROVE Accounts'
    BY <2>5 DEF Leave, Accounts, OnePipeEach, TypeOK, busy
  <2>6. ASSUME NEW h \in Handle, CreateNamedPipe(h) PROVE Accounts'
    BY <2>6 DEF CreateNamedPipe, Accounts, OnePipeEach, TypeOK, busy
  <2>7. CASE CreateNamedPipeFails
    BY <2>7 DEF CreateNamedPipeFails, returns, Accounts, OnePipeEach, TypeOK, busy
  <2>8. CASE ConnectNamedPipe
    BY <2>8 DEF ConnectNamedPipe, medium, Accounts, OnePipeEach, TypeOK, busy
  <2>9. CASE ConnectNamedPipeFails
    BY <2>9 DEF ConnectNamedPipeFails, closed, Accounts, OnePipeEach, TypeOK, busy
  <2>10. ASSUME NEW t \in Thread, CreateThread(t) PROVE Accounts'
    BY <2>10 DEF CreateThread, medium, Accounts, OnePipeEach, TypeOK, busy
  <2>11. CASE CreateThreadFails
    BY <2>11 DEF CreateThreadFails, returns, Accounts, OnePipeEach, TypeOK, busy
  <2>12. ASSUME NEW t \in Thread, HeapAlloc(t) PROVE Accounts'
    BY <2>12 DEF HeapAlloc, medium, Accounts, OnePipeEach, TypeOK, busy
  <2>13. ASSUME NEW t \in Thread, HeapAllocFails(t) PROVE Accounts'
    BY <2>13 DEF HeapAllocFails, medium, Accounts, OnePipeEach, TypeOK, busy
  <2>14. ASSUME NEW t \in Thread, ReadFile(t) PROVE Accounts'
    BY <2>14 DEF ReadFile, Accounts, OnePipeEach, TypeOK, busy
  <2>15. ASSUME NEW t \in Thread, ReadFileFails(t) PROVE Accounts'
    BY <2>15 DEF ReadFileFails, medium, Accounts, OnePipeEach, TypeOK, busy
  <2>16. ASSUME NEW t \in Thread, WriteFile(t) PROVE Accounts'
    <3> USE <2>16 DEF WriteFile, Accounts, OnePipeEach, TypeOK, busy
    <3>1. OnePipePerClient' /\ ClientsOfPipes'
      OBVIOUS
    <3>2. ListenerAccount'
      OBVIOUS
    <3>3. ASSUME NEW u \in Thread PROVE ThreadAccount(u)'
      BY <3>3
    <3>4. QED
      BY <3>1, <3>2, <3>3
  <2>17. ASSUME NEW t \in Thread, FlushFileBuffers(t) PROVE Accounts'
    BY <2>17 DEF FlushFileBuffers, medium, Accounts, OnePipeEach, TypeOK, busy
  <2>18. ASSUME NEW t \in Thread, DisconnectNamedPipe(t) PROVE Accounts'
    BY <2>18 DEF DisconnectNamedPipe, Accounts, OnePipeEach, TypeOK, busy
  <2>19. ASSUME NEW t \in Thread, CloseHandle(t) PROVE Accounts'
    BY <2>19 DEF CloseHandle, closed, Accounts, OnePipeEach, TypeOK, busy
  <2>20. CASE UNCHANGED vars
    BY <2>20 DEF vars, medium, Accounts, OnePipeEach, TypeOK, busy
  <2>21. QED
    BY <2>1, <2>2, <2>3, <2>4, <2>5, <2>6, <2>7, <2>8, <2>9, <2>10,
       <2>11, <2>12, <2>13, <2>14, <2>15, <2>16, <2>17, <2>18, <2>19,
       <2>20
       DEF Next, Clients, Listen, InstanceThread
<1>3. QED
  BY <1>1, <1>2, Typing, PipesAreNotShared, PTL DEF Spec

(* Every request a served client waits for is in the pipe, in the hands of
   its thread, or answered in the pipe.                                     *)
THEOREM NoRequestLost == Spec => []NothingLost
<1>1. Accounts => NothingLost
  BY DEF Accounts, ThreadAccount, Balance, NothingLost
<1>2. QED
  BY <1>1, AccountsInvariance, PTL

(* The types and the ownership of pipes, together.                          *)
THEOREM PipesStaySound == Spec => []PipesSound
  BY Typing, PipesAreNotShared, PTL DEF PipesSound
------------------------------------------------------------------------------
(* Why no reply is thrown away: a thread that is about to disconnect has seen
   its pipe read empty, or its client gone, and nobody has written to the
   pipe since; one that is about to close its handle has disconnected it.   *)
Flushed(t) == pipe[own[t]] = "broken" \/ replies[own[t]] = 0

FlushedFirst ==
  \A t \in Thread :
    /\ pc[t] = "disconnect" => Flushed(t)
    /\ pc[t] = "close" => pipe[own[t]] = "disconnected"

LEMMA FlushedInvariance == Spec => []FlushedFirst
<1>1. Init => FlushedFirst
  BY DEF Init, FlushedFirst
<1>2. TypeOK /\ OnePipeEach /\ FlushedFirst /\ [Next]_vars => FlushedFirst'
  <2> SUFFICES ASSUME TypeOK, OnePipeEach, FlushedFirst, [Next]_vars
               PROVE FlushedFirst'
    OBVIOUS
  <2> USE ServerAssumption DEF Flushed
  <2>1. ASSUME NEW h \in Handle, NEW c \in Client, Connect(c, h) PROVE FlushedFirst'
    BY <2>1 DEF Connect, FlushedFirst, OnePipeEach, TypeOK, busy
  <2>2. ASSUME NEW h \in Handle, NEW c \in Client, Ask(c, h) PROVE FlushedFirst'
    BY <2>2 DEF Ask, FlushedFirst, OnePipeEach, TypeOK, busy
  <2>3. ASSUME NEW h \in Handle, NEW c \in Client, Receive(c, h) PROVE FlushedFirst'
    BY <2>3 DEF Receive, FlushedFirst, OnePipeEach, TypeOK, busy
  <2>4. ASSUME NEW h \in Handle, SayGoodbye(h) PROVE FlushedFirst'
    BY <2>4 DEF SayGoodbye, FlushedFirst, OnePipeEach, TypeOK, busy
  <2>5. ASSUME NEW h \in Handle, Leave(h) PROVE FlushedFirst'
    BY <2>5 DEF Leave, FlushedFirst, OnePipeEach, TypeOK, busy
  <2>6. ASSUME NEW h \in Handle, CreateNamedPipe(h) PROVE FlushedFirst'
    BY <2>6 DEF CreateNamedPipe, FlushedFirst, OnePipeEach, TypeOK, busy
  <2>7. CASE CreateNamedPipeFails
    BY <2>7 DEF CreateNamedPipeFails, returns, FlushedFirst, OnePipeEach, TypeOK, busy
  <2>8. CASE ConnectNamedPipe
    BY <2>8 DEF ConnectNamedPipe, medium, FlushedFirst, OnePipeEach, TypeOK, busy
  <2>9. CASE ConnectNamedPipeFails
    BY <2>9 DEF ConnectNamedPipeFails, closed, FlushedFirst, OnePipeEach, TypeOK, busy
  <2>10. ASSUME NEW t \in Thread, CreateThread(t) PROVE FlushedFirst'
    BY <2>10 DEF CreateThread, medium, FlushedFirst, OnePipeEach, TypeOK, busy
  <2>11. CASE CreateThreadFails
    BY <2>11 DEF CreateThreadFails, returns, FlushedFirst, OnePipeEach, TypeOK, busy
  <2>12. ASSUME NEW t \in Thread, HeapAlloc(t) PROVE FlushedFirst'
    BY <2>12 DEF HeapAlloc, medium, FlushedFirst, OnePipeEach, TypeOK, busy
  <2>13. ASSUME NEW t \in Thread, HeapAllocFails(t) PROVE FlushedFirst'
    BY <2>13 DEF HeapAllocFails, medium, FlushedFirst, OnePipeEach, TypeOK, busy
  <2>14. ASSUME NEW t \in Thread, ReadFile(t) PROVE FlushedFirst'
    BY <2>14 DEF ReadFile, FlushedFirst, OnePipeEach, TypeOK, busy
  <2>15. ASSUME NEW t \in Thread, ReadFileFails(t) PROVE FlushedFirst'
    BY <2>15 DEF ReadFileFails, medium, FlushedFirst, OnePipeEach, TypeOK, busy
  <2>16. ASSUME NEW t \in Thread, WriteFile(t) PROVE FlushedFirst'
    BY <2>16 DEF WriteFile, FlushedFirst, OnePipeEach, TypeOK, busy
  <2>17. ASSUME NEW t \in Thread, FlushFileBuffers(t) PROVE FlushedFirst'
    BY <2>17 DEF FlushFileBuffers, medium, FlushedFirst, OnePipeEach, TypeOK, busy
  <2>18. ASSUME NEW t \in Thread, DisconnectNamedPipe(t) PROVE FlushedFirst'
    BY <2>18 DEF DisconnectNamedPipe, FlushedFirst, OnePipeEach, TypeOK, busy
  <2>19. ASSUME NEW t \in Thread, CloseHandle(t) PROVE FlushedFirst'
    BY <2>19 DEF CloseHandle, closed, FlushedFirst, OnePipeEach, TypeOK, busy
  <2>20. CASE UNCHANGED vars
    BY <2>20 DEF vars, medium, FlushedFirst, OnePipeEach, TypeOK, busy
  <2>21. QED
    BY <2>1, <2>2, <2>3, <2>4, <2>5, <2>6, <2>7, <2>8, <2>9, <2>10,
       <2>11, <2>12, <2>13, <2>14, <2>15, <2>16, <2>17, <2>18, <2>19,
       <2>20
       DEF Next, Clients, Listen, InstanceThread
<1>3. QED
  BY <1>1, <1>2, Typing, PipesAreNotShared, PTL DEF Spec

(* The replies in the pipe of a connected client get fewer only by its
   reading one, until the process ends. A pipe without a client has none, so
   the one that is created holds none either.                               *)
ReplyKept(h) ==
  pipe[h] = "connected" /\ replies'[h] < replies[h] /\ listener' # "returned" =>
    replies'[h] = replies[h] - 1 /\ pipe'[h] = "connected"

THEOREM RepliesAreKept == Spec => NoReplyDiscarded
<1>1. TypeOK /\ OnePipeEach /\ FlushedFirst /\ [Next]_vars =>
        \A g \in Handle : ReplyKept(g)
  <2> SUFFICES ASSUME TypeOK, OnePipeEach, FlushedFirst, [Next]_vars,
                      NEW g \in Handle
               PROVE ReplyKept(g)
    OBVIOUS
  <2> USE ServerAssumption DEF Flushed
  <2>1. ASSUME NEW h \in Handle, NEW c \in Client, Connect(c, h) PROVE ReplyKept(g)
    BY <2>1 DEF Connect, ReplyKept, FlushedFirst, OnePipeEach, TypeOK, busy
  <2>2. ASSUME NEW h \in Handle, NEW c \in Client, Ask(c, h) PROVE ReplyKept(g)
    BY <2>2 DEF Ask, ReplyKept, FlushedFirst, OnePipeEach, TypeOK, busy
  <2>3. ASSUME NEW h \in Handle, NEW c \in Client, Receive(c, h) PROVE ReplyKept(g)
    BY <2>3 DEF Receive, ReplyKept, FlushedFirst, OnePipeEach, TypeOK, busy
  <2>4. ASSUME NEW h \in Handle, SayGoodbye(h) PROVE ReplyKept(g)
    BY <2>4 DEF SayGoodbye, ReplyKept, FlushedFirst, OnePipeEach, TypeOK, busy
  <2>5. ASSUME NEW h \in Handle, Leave(h) PROVE ReplyKept(g)
    BY <2>5 DEF Leave, ReplyKept, FlushedFirst, OnePipeEach, TypeOK, busy
  <2>6. ASSUME NEW h \in Handle, CreateNamedPipe(h) PROVE ReplyKept(g)
    BY <2>6 DEF CreateNamedPipe, ReplyKept, FlushedFirst, OnePipeEach, TypeOK, busy
  <2>7. CASE CreateNamedPipeFails
    BY <2>7 DEF CreateNamedPipeFails, returns, ReplyKept, FlushedFirst, OnePipeEach, TypeOK, busy
  <2>8. CASE ConnectNamedPipe
    BY <2>8 DEF ConnectNamedPipe, medium, ReplyKept, FlushedFirst, OnePipeEach, TypeOK, busy
  <2>9. CASE ConnectNamedPipeFails
    BY <2>9 DEF ConnectNamedPipeFails, closed, ReplyKept, FlushedFirst, OnePipeEach, TypeOK, busy
  <2>10. ASSUME NEW t \in Thread, CreateThread(t) PROVE ReplyKept(g)
    BY <2>10 DEF CreateThread, medium, ReplyKept, FlushedFirst, OnePipeEach, TypeOK, busy
  <2>11. CASE CreateThreadFails
    BY <2>11 DEF CreateThreadFails, returns, ReplyKept, FlushedFirst, OnePipeEach, TypeOK, busy
  <2>12. ASSUME NEW t \in Thread, HeapAlloc(t) PROVE ReplyKept(g)
    BY <2>12 DEF HeapAlloc, medium, ReplyKept, FlushedFirst, OnePipeEach, TypeOK, busy
  <2>13. ASSUME NEW t \in Thread, HeapAllocFails(t) PROVE ReplyKept(g)
    BY <2>13 DEF HeapAllocFails, medium, ReplyKept, FlushedFirst, OnePipeEach, TypeOK, busy
  <2>14. ASSUME NEW t \in Thread, ReadFile(t) PROVE ReplyKept(g)
    BY <2>14 DEF ReadFile, ReplyKept, FlushedFirst, OnePipeEach, TypeOK, busy
  <2>15. ASSUME NEW t \in Thread, ReadFileFails(t) PROVE ReplyKept(g)
    BY <2>15 DEF ReadFileFails, medium, ReplyKept, FlushedFirst, OnePipeEach, TypeOK, busy
  <2>16. ASSUME NEW t \in Thread, WriteFile(t) PROVE ReplyKept(g)
    BY <2>16 DEF WriteFile, ReplyKept, FlushedFirst, OnePipeEach, TypeOK, busy
  <2>17. ASSUME NEW t \in Thread, FlushFileBuffers(t) PROVE ReplyKept(g)
    BY <2>17 DEF FlushFileBuffers, medium, ReplyKept, FlushedFirst, OnePipeEach, TypeOK, busy
  <2>18. ASSUME NEW t \in Thread, DisconnectNamedPipe(t) PROVE ReplyKept(g)
    BY <2>18 DEF DisconnectNamedPipe, ReplyKept, FlushedFirst, OnePipeEach, TypeOK, busy
  <2>19. ASSUME NEW t \in Thread, CloseHandle(t) PROVE ReplyKept(g)
    BY <2>19 DEF CloseHandle, closed, ReplyKept, FlushedFirst, OnePipeEach, TypeOK, busy
  <2>20. CASE UNCHANGED vars
    BY <2>20 DEF vars, medium, ReplyKept, FlushedFirst, OnePipeEach, TypeOK, busy
  <2>21. QED
    BY <2>1, <2>2, <2>3, <2>4, <2>5, <2>6, <2>7, <2>8, <2>9, <2>10,
       <2>11, <2>12, <2>13, <2>14, <2>15, <2>16, <2>17, <2>18, <2>19,
       <2>20
       DEF Next, Clients, Listen, InstanceThread
<1>2. TypeOK /\ OnePipeEach /\ FlushedFirst /\ [Next]_vars =>
        [\A h \in Handle :
           pipe[h] = "connected" /\ replies'[h] < replies[h] /\ listener' # "returned" =>
             replies'[h] = replies[h] - 1 /\ pipe'[h] = "connected"]_vars
  BY <1>1 DEF ReplyKept
<1>3. QED
  BY <1>2, Typing, PipesAreNotShared, FlushedInvariance, PTL
     DEF Spec, NoReplyDiscarded

==============================================================================
