------------------------- MODULE XmlRpcClient_proofs -------------------------
(* Theorems about the client's side of XML-RPC: the dispatcher, for all      *)
(* sources, timeouts and times; the calls of XmlRpcClient, for every number  *)
(* of them and whatever the server does; and the bytes of XmlRpcSocket, for  *)
(* every text and every size of the two buffers.                             *)
EXTENDS MCXmlRpcClient, FiniteSetTheorems, SequenceTheorems, TLAPS

(* -------------------- the dispatcher ------------------------------------- *)

(* What the end time stands for during a call, and how long the select that  *)
(* was started last may take.                                                *)
EndTimeOK ==
  /\ clock >= 1
  /\ pc # "idle" => endTime = IF exited THEN 0 ELSE IF timeout < 0 THEN -1 ELSE start + timeout
  /\ pc = "select" /\ timeout >= 0 => clock <= wake /\ wake <= endTime + timeout

DInv == TypeOK /\ EndTimeOK /\ ExitEndsWork

SInv == TypeOK /\ NoneForgotten /\ ReportedAreMonitored

(* Before the first call of work.                                           *)
LEMMA InitialStates == Init => DInv /\ SInv
<1> SUFFICES ASSUME Init PROVE DInv /\ SInv
  OBVIOUS
<1>1. TypeOK
  <2>1. timeout \in Nat \cup {-1} /\ endTime \in Nat \cup {-1}
    BY DEF Init
  <2>2. clock \in Nat /\ start \in Nat /\ wake \in Int
    BY DEF Init
  <2> QED BY <2>1, <2>2 DEF Init, TypeOK
<1>2. EndTimeOK /\ ExitEndsWork
  BY DEF Init, EndTimeOK, ExitEndsWork
<1>3. NoneForgotten /\ ReportedAreMonitored
  BY DEF Init, NoneForgotten, ReportedAreMonitored
<1> QED BY <1>1, <1>2, <1>3 DEF DInv, SInv

(* What the steps of Handlers have in common.                                *)
LEMMA HandlerStep ==
  ASSUME Handlers, TypeOK
  PROVE  \E s \in Source, mask \in 0 .. 1, effect \in Effect, new \in SUBSET Source :
           handleEvent(s, mask, new, effect)
<1>1. ASSUME NEW s \in Source, NEW mask \in 0 .. 1, NEW effect \in Effect,
             handleEvent(s, mask, {}, effect)
      PROVE  \E new \in SUBSET Source : handleEvent(s, mask, new, effect)
  <2>1. {} \in SUBSET Source
    OBVIOUS
  <2> QED BY <1>1, <2>1
<1>2. ASSUME NEW s \in Source, NEW mask \in 0 .. 1, NEW effect \in Effect,
             NEW n \in Source, handleEvent(s, mask, {n}, effect)
      PROVE  \E new \in SUBSET Source : handleEvent(s, mask, new, effect)
  <2>1. {n} \in SUBSET Source
    OBVIOUS
  <2> QED BY <1>2, <2>1
<1> QED BY <1>1, <1>2 DEF Handlers

(* Every variable keeps its type.                                            *)
LEMMA TypeStep == TypeOK /\ [Next]_vars => TypeOK'
<1> SUFFICES ASSUME TypeOK, [Next]_vars PROVE TypeOK'
  OBVIOUS
<1> USE DispatchAssumption DEF TypeOK
<1>1. ASSUME NEW s \in Source, addSource(s) \/ close(s) PROVE TypeOK'
  BY <1>1 DEF addSource, close
<1>2. CASE clear
  BY <1>2 DEF clear
<1>3. ASSUME NEW t \in Timeout, work(t) PROVE TypeOK'
  <2>1. t \in Nat \/ t = -1
    OBVIOUS
  <2>2. endTime' \in Nat \cup {-1} /\ wake' \in Int
    BY <1>3, <2>1 DEF work
  <2> QED BY <1>3, <2>1, <2>2 DEF work
<1>4. CASE SelectTimesOut \/ SelectFails \/ getTime
  BY <1>4 DEF SelectTimesOut, SelectFails, getTime
<1>5. ASSUME NEW R \in SUBSET Source, SelectReady(R) PROVE TypeOK'
  BY <1>5 DEF SelectReady
<1>6. CASE Handlers
  <2> PICK s \in Source, mask \in 0 .. 1, effect \in Effect, new \in SUBSET Source :
           handleEvent(s, mask, new, effect)
    BY <1>6, HandlerStep
  <2> QED BY DEF handleEvent
<1>7. CASE returns
  BY <1>7 DEF returns, endPass, monitored
<1>8. CASE loops
  <2>1. wake' \in Int
    BY <1>8 DEF loops
  <2>2. sources' \in SUBSET Source /\ open' \in SUBSET Source
    BY <1>8 DEF loops, endPass, monitored
  <2> QED BY <1>8, <2>1, <2>2 DEF loops, endPass
<1>9. CASE UNCHANGED vars
  BY <1>9 DEF vars
<1> QED BY <1>1, <1>2, <1>3, <1>4, <1>5, <1>6, <1>7, <1>8, <1>9 DEF Next, Loop

(* The end time is what the call and its handlers made it, and a select is   *)
(* only started before it.                                                   *)
LEMMA TimeStep == DInv /\ [Next]_vars => DInv'
<1> SUFFICES ASSUME DInv, [Next]_vars PROVE EndTimeOK' /\ ExitEndsWork'
  BY TypeStep DEF DInv
<1> USE DispatchAssumption DEF DInv, TypeOK, EndTimeOK, ExitEndsWork
<1>1. ASSUME NEW s \in Source, addSource(s) \/ close(s) PROVE EndTimeOK' /\ ExitEndsWork'
  BY <1>1 DEF addSource, close
<1>2. CASE clear
  BY <1>2 DEF clear
<1>3. ASSUME NEW t \in Timeout, work(t) PROVE EndTimeOK' /\ ExitEndsWork'
  <2>1. CASE t \in Nat
    BY <1>3, <2>1 DEF work
  <2>2. CASE t = -1
    BY <1>3, <2>2 DEF work
  <2> QED BY <2>1, <2>2
<1>4. CASE SelectTimesOut \/ SelectFails \/ getTime
  BY <1>4 DEF SelectTimesOut, SelectFails, getTime
<1>5. ASSUME NEW R \in SUBSET Source, SelectReady(R) PROVE EndTimeOK' /\ ExitEndsWork'
  BY <1>5 DEF SelectReady
<1>6. CASE Handlers
  <2> PICK s \in Source, mask \in 0 .. 1, effect \in Effect, new \in SUBSET Source :
           handleEvent(s, mask, new, effect)
    BY <1>6, HandlerStep
  <2> QED BY DEF handleEvent
<1>7. CASE returns
  BY <1>7 DEF returns, endPass, monitored
<1>8. CASE loops
  <2>1. ~ exited
    BY <1>8 DEF loops, endPass, timeIsUp
  <2>2. timeout >= 0 => clock <= endTime
    BY <1>8, <2>1 DEF loops, endPass, timeIsUp
  <2> QED BY <1>8, <2>1, <2>2 DEF loops, endPass
<1>9. CASE UNCHANGED vars
  BY <1>9 DEF vars
<1> QED BY <1>1, <1>2, <1>3, <1>4, <1>5, <1>6, <1>7, <1>8, <1>9 DEF Next, Loop

(* Handlers that drop their source, add one, or ask for a clear keep the     *)
(* sources, their sockets and what is still to be visited in agreement.      *)
LEMMA SourcesStep == SInv /\ [Next]_vars => SInv'
<1> SUFFICES ASSUME SInv, [Next]_vars PROVE NoneForgotten' /\ ReportedAreMonitored'
  BY TypeStep DEF SInv
<1> USE DispatchAssumption DEF SInv, TypeOK, NoneForgotten, ReportedAreMonitored
<1>1. ASSUME NEW s \in Source, addSource(s) \/ close(s)
      PROVE  NoneForgotten' /\ ReportedAreMonitored'
  BY <1>1 DEF addSource, close
<1>2. CASE clear
  BY <1>2 DEF clear
<1>3. ASSUME NEW t \in Timeout, work(t) PROVE NoneForgotten' /\ ReportedAreMonitored'
  BY <1>3 DEF work
<1>4. CASE SelectTimesOut \/ SelectFails \/ getTime
  BY <1>4 DEF SelectTimesOut, SelectFails, getTime
<1>5. ASSUME NEW R \in SUBSET Source, SelectReady(R)
      PROVE  NoneForgotten' /\ ReportedAreMonitored'
  BY <1>5 DEF SelectReady
<1>6. CASE Handlers
  <2> PICK s \in Source, mask \in 0 .. 1, effect \in Effect, new \in SUBSET Source :
           handleEvent(s, mask, new, effect)
    BY <1>6, HandlerStep
  <2> QED BY DEF handleEvent
<1>7. CASE returns
  BY <1>7 DEF returns, endPass, monitored
<1>8. CASE loops
  BY <1>8 DEF loops, endPass, monitored
<1>9. CASE UNCHANGED vars
  BY <1>9 DEF vars
<1> QED BY <1>1, <1>2, <1>3, <1>4, <1>5, <1>6, <1>7, <1>8, <1>9 DEF Next, Loop

(* Both invariants hold always.                                              *)
LEMMA Invariants == Spec => []DInv /\ []SInv
  BY InitialStates, TimeStep, SourcesStep, PTL DEF Spec

-----------------------------------------------------------------------------
(* Type correctness.                                                         *)
THEOREM Typing == Spec => []TypeOK
<1>1. DInv => TypeOK
  BY DEF DInv
<1> QED BY <1>1, Invariants, PTL

(* However often handlers run in between, work never waits for longer than   *)
(* twice the time it was called with.                                        *)
THEOREM TwiceAtMost == Spec => []WaitsTwiceAtMost
<1>1. DInv => WaitsTwiceAtMost
  BY DEF DInv, TypeOK, EndTimeOK, ExitEndsWork, WaitsTwiceAtMost
<1> QED BY <1>1, Invariants, PTL

(* A call of exit by a handler is never lost.                                *)
THEOREM ExitIsObeyed == Spec => []ExitEndsWork
<1>1. DInv => ExitEndsWork
  BY DEF DInv
<1> QED BY <1>1, Invariants, PTL

(* work returns early only because of exit, or with nothing to monitor.      *)
THEOREM TimeIsWaitedFor == Spec => NotBeforeTime
<1> DEFINE Early ==
      pc = "pass" /\ pc' = "idle" =>
        \/ exited
        \/ sources' = {}
        \/ timeout >= 0 /\ clock > start + timeout
<1>1. DInv /\ [Next]_vars => [Early]_vars
  <2> SUFFICES ASSUME DInv, Next PROVE Early
    BY DEF vars
  <2>1. CASE returns
    <3>1. timeIsUp /\ ~ exited => timeout >= 0 /\ clock > start + timeout
      BY <2>1 DEF timeIsUp, returns, endPass, DInv, TypeOK, EndTimeOK
    <3> QED BY <2>1, <3>1 DEF returns, endPass
  <2>2. CASE ~ returns
    <3>1. pc = "pass" => pc' # "idle"
      BY <2>2, HandlerStep DEF Next, Loop, Handlers, handleEvent, loops, SelectReady, SelectTimesOut,
         SelectFails, addSource, close, clear, work, getTime
    <3> QED BY <3>1
  <2> QED BY <2>1, <2>2
<1>2. []DInv /\ [][Next]_vars => [][Early]_vars
  BY <1>1, PTL
<1> QED BY <1>2, Invariants, PTL DEF Spec, NotBeforeTime

(* Every open socket is monitored or was to be kept open, and the handler of *)
(* every source select reported is called while it is monitored.             *)
THEOREM SourcesAgree == Spec => [](NoneForgotten /\ ReportedAreMonitored)
<1>1. SInv => NoneForgotten /\ ReportedAreMonitored
  BY DEF SInv
<1> QED BY <1>1, Invariants, PTL

(* Types, open sockets and what is still to be handled, together.           *)
THEOREM SourcesStayKept == Spec => []SourcesKept
  BY Typing, SourcesAgree, PTL DEF SourcesKept

(* A wait of work is in time and never follows an exit.                     *)
THEOREM EndsInTimeAlways == Spec => []EndsInTime
  BY TwiceAtMost, ExitIsObeyed, PTL DEF EndsInTime

(* -------------------- the calls ------------------------------------------ *)

(* Where execute waits, and for what.                                        *)
WaitInv ==
  /\ phase = "select" => call >= 1 /\ state \in {"WRITE_REQUEST", "READ_HEADER", "READ_RESPONSE"}
  /\ phase = "select" /\ "write" \in clientMask => state = "WRITE_REQUEST"
  /\ phase = "select" /\ "read" \in clientMask => state \in {"READ_HEADER", "READ_RESPONSE"}
  /\ state = "WRITE_REQUEST" => call >= 1 /\ written < 2 /\ have = 0 /\ attempts <= 1

(* A connection carries one request and its answer at most, those of the     *)
(* call it was opened or kept for; one that is kept is empty.                *)
LinkInv ==
  /\ state = "NO_CONNECTION" => link = Client!noLink
  /\ state \in {"WRITE_REQUEST", "IDLE"} => link.queue = << >> /\ link.resp = << >>
  /\ link.queue \in {<< >>, <<call>>}
  /\ link.resp \in {<< >>, <<call>>, <<call, call>>}
  /\ link.queue # << >> => link.resp = << >> /\ have = 0
  /\ have + Len(link.resp) <= 2
  /\ link.resp # << >> => runs[call] > 0

(* What the server has run or may still run, before the request is written   *)
(* and after.                                                                *)
asked(c) == IF c = call /\ link.queue # << >> THEN 1 ELSE 0
owed(c) == runs[c] + orphans[c] + asked(c)

RunsInv ==
  /\ \A c \in Client!Call :
       owed(c) <= IF c > call THEN 0 ELSE IF c = call /\ attempts = 0 THEN 1 ELSE 2
  /\ state = "WRITE_REQUEST" => owed(call) <= attempts

CallsInv == Client!TypeOK /\ WaitInv /\ LinkInv /\ RunsInv /\ Client!AnswerIsOwn

LEMMA NoLinkTyped == Client!noLink \in Client!Link /\ Client!newLink \in Client!Link
BY EmptySeq DEF Client!noLink, Client!newLink, Client!Link

LEMMA OnePiece ==
  ASSUME NEW c, NEW t \in Seq({c}), Len(t) = 1
  PROVE  t = <<c>>
<1>1. <<c>> \in Seq({c}) /\ Len(<<c>>) = 1 /\ <<c>>[1] = c
  OBVIOUS
<1>2. t[1] = c
  OBVIOUS
<1>3. \A i \in 1 .. Len(t) : t[i] = <<c>>[i]
  BY <1>1, <1>2
<1>4. QED
  BY <1>1, <1>3, SeqEqual

(* What the steps make of queues and responses of one and two pieces.        *)
LEMMA Pieces ==
  ASSUME NEW c
  PROVE  /\ Len(<< >>) = 0 /\ Len(<<c>>) = 1 /\ Len(<<c, c>>) = 2
         /\ << >> # <<c>> /\ << >> # <<c, c>>
         /\ Append(<< >>, c) = <<c>>
         /\ <<c>>[1] = c /\ <<c, c>>[1] = c
         /\ Head(<<c>>) = c /\ Tail(<<c>>) = << >>
         /\ << >> \o <<c, c>> = <<c, c>> /\ << >> \o <<c>> = <<c>> /\ << >> \o << >> = << >>
         /\ SubSeq(<<c>>, 1, 0) = << >> /\ SubSeq(<<c>>, 1, 1) = <<c>>
         /\ SubSeq(<<c>>, 2, 1) = << >>
         /\ SubSeq(<<c, c>>, 2, 2) = <<c>> /\ SubSeq(<<c, c>>, 3, 2) = << >>
<1>1. Len(<< >>) = 0 /\ Len(<<c>>) = 1 /\ Len(<<c, c>>) = 2
  OBVIOUS
<1>2. << >> # <<c>> /\ << >> # <<c, c>>
  BY <1>1
<1>3. Append(<< >>, c) = <<c>> /\ <<c>>[1] = c /\ <<c, c>>[1] = c
  OBVIOUS
<1>4. Head(<<c>>) = c /\ Tail(<<c>>) = << >>
  OBVIOUS
<1>5. << >> \o <<c, c>> = <<c, c>> /\ << >> \o <<c>> = <<c>> /\ << >> \o << >> = << >>
  OBVIOUS
<1>6. SubSeq(<<c>>, 1, 0) = << >> /\ SubSeq(<<c>>, 2, 1) = << >> /\ SubSeq(<<c, c>>, 3, 2) = << >>
  BY SubSeqEmpty
<1>7. SubSeq(<<c>>, 1, 1) = <<c>>
  <2>1. \A i \in 1 .. 1 : <<c>>[i] \in {c}
    OBVIOUS
  <2>2. SubSeq(<<c>>, 1, 1) \in Seq({c}) /\ Len(SubSeq(<<c>>, 1, 1)) = 1
    BY <2>1, SubSeqProperties
  <2>3. QED
    BY <2>2, OnePiece
<1>8. SubSeq(<<c, c>>, 2, 2) = <<c>>
  <2>1. \A i \in 2 .. 2 : <<c, c>>[i] \in {c}
    OBVIOUS
  <2>2. SubSeq(<<c, c>>, 2, 2) \in Seq({c}) /\ Len(SubSeq(<<c, c>>, 2, 2)) = 1
    BY <2>1, SubSeqProperties
  <2>3. QED
    BY <2>2, OnePiece
<1>9. QED
  BY <1>1, <1>2, <1>3, <1>4, <1>5, <1>6, <1>7, <1>8

LEMMA CallsInit == Client!Init => CallsInv
<1> SUFFICES ASSUME Client!Init PROVE CallsInv
  OBVIOUS
<1> USE ClientAssumption DEF Client!Init
<1>1. Client!TypeOK
  <2>1. /\ orphans \in [Client!Call -> Nat]
        /\ runs \in [Client!Call -> Nat]
        /\ result \in [Client!Call -> {Client!none, Client!failed} \cup Client!Call]
    OBVIOUS
  <2>2. /\ call \in 0 .. MaxCalls /\ attempts \in 0 .. 2 /\ written \in 0 .. 2
        /\ have \in 0 .. 2 /\ nodes \in 0 .. 1
    OBVIOUS
  <2>3. QED
    BY <2>1, <2>2, NoLinkTyped DEF Client!TypeOK
<1>2. link.queue = << >> /\ link.resp = << >>
  BY DEF Client!noLink
<1>3. WaitInv /\ LinkInv
  BY <1>2 DEF WaitInv, LinkInv
<1>4. RunsInv
  BY <1>2 DEF RunsInv, owed, asked, Client!Call
<1>5. Client!AnswerIsOwn
  BY DEF Client!AnswerIsOwn, Client!none, Client!Call
<1>6. QED
  BY <1>1, <1>3, <1>4, <1>5 DEF CallsInv

(* What a connection that is given up leaves behind.                         *)
LEMMA GiveUpLeaves ==
  ASSUME CallsInv, Client!giveUp
  PROVE  /\ orphans' \in [Client!Call -> Nat]
         /\ \A c \in Client!Call : orphans'[c] = orphans[c] + asked(c)
<1>1. /\ orphans \in [Client!Call -> Nat] /\ runs \in [Client!Call -> Nat]
      /\ link.queue \in Seq(Client!Call)
      /\ link.queue = << >> \/ link.queue = <<call>>
  BY DEF CallsInv, Client!TypeOK, LinkInv, Client!Link
<1>2. ASSUME NEW c \in Client!Call
      PROVE  (\E i \in DOMAIN link.queue : link.queue[i] = c) <=> c = call /\ link.queue # << >>
  <2>1. CASE link.queue = << >>
    BY <2>1
  <2>2. CASE link.queue = <<call>>
    <3>1. DOMAIN link.queue = 1 .. 1 /\ link.queue[1] = call /\ link.queue # << >>
      BY <2>2, Pieces
    <3>2. QED
      BY <3>1
  <2>3. QED
    BY <1>1, <2>1, <2>2
<1>3. orphans' = [c \in Client!Call |-> orphans[c] + asked(c)]
  BY <1>1, <1>2 DEF Client!giveUp, asked
<1>4. QED
  BY <1>1, <1>3 DEF asked

(* The steps of a connection: a request more, an answer, a part of one, or   *)
(* the end.                                                                  *)
LEMMA LinkSteps ==
  ASSUME CallsInv
  PROVE  /\ call \in Client!Call => [link EXCEPT !.queue = Append(@, call)] \in Client!Link
         /\ \A n \in 1 .. Len(link.resp) :
              [link EXCEPT !.resp = SubSeq(@, n + 1, Len(@))] \in Client!Link
         /\ \A v \in {"up", "reset"} : [link EXCEPT !.srv = v] \in Client!Link
         /\ \A v \in {"fin", "reset"} : [link EXCEPT !.srv = v, !.queue = << >>] \in Client!Link
         /\ link.queue # << >> =>
              /\ Head(link.queue) \in Client!Call
              /\ [link EXCEPT !.queue = Tail(@),
                              !.resp = @ \o <<Head(link.queue), Head(link.queue)>>] \in Client!Link
              /\ \A v \in {"fin", "reset"}, n \in 0 .. 1 :
                   [link EXCEPT !.srv = v, !.queue = << >>,
                                !.resp = @ \o SubSeq(link.queue, 1, n)] \in Client!Link
<1>1. /\ link \in Client!Link
      /\ link.queue \in Seq(Client!Call) /\ link.resp \in Seq(Client!Call)
  BY DEF CallsInv, Client!TypeOK, Client!Link
<1>2. /\ \A x \in Seq(Client!Call) : [link EXCEPT !.queue = x] \in Client!Link
      /\ \A x \in Seq(Client!Call) : [link EXCEPT !.resp = x] \in Client!Link
      /\ \A v \in {"fin", "up", "reset"} : [link EXCEPT !.srv = v] \in Client!Link
      /\ \A v \in {"fin", "reset"}, x \in Seq(Client!Call) :
           [link EXCEPT !.srv = v, !.queue = x] \in Client!Link
      /\ \A x \in Seq(Client!Call), y \in Seq(Client!Call) :
           [link EXCEPT !.queue = x, !.resp = y] \in Client!Link
      /\ \A v \in {"fin", "reset"}, x \in Seq(Client!Call), y \in Seq(Client!Call) :
           [link EXCEPT !.srv = v, !.queue = x, !.resp = y] \in Client!Link
  BY <1>1 DEF Client!Link
<1>3. call \in Client!Call => Append(link.queue, call) \in Seq(Client!Call)
  BY <1>1, AppendProperties
<1>4. \A n \in 1 .. Len(link.resp) : SubSeq(link.resp, n + 1, Len(link.resp)) \in Seq(Client!Call)
  BY <1>1, SubSeqProperties, LenProperties
<1>5. << >> \in Seq(Client!Call)
  OBVIOUS
<1>6. ASSUME link.queue # << >>
      PROVE  /\ Head(link.queue) \in Client!Call
             /\ Tail(link.queue) \in Seq(Client!Call)
             /\ link.resp \o <<Head(link.queue), Head(link.queue)>> \in Seq(Client!Call)
             /\ \A n \in 0 .. 1 : link.resp \o SubSeq(link.queue, 1, n) \in Seq(Client!Call)
  <2>1. Head(link.queue) \in Client!Call /\ Tail(link.queue) \in Seq(Client!Call)
    BY <1>1, <1>6, HeadTailProperties
  <2>2. <<Head(link.queue), Head(link.queue)>> \in Seq(Client!Call)
    BY <2>1
  <2>3. ASSUME NEW n \in 0 .. 1 PROVE SubSeq(link.queue, 1, n) \in Seq(Client!Call)
    <3>1. Len(link.queue) \in Nat \ {0}
      BY <1>1, <1>6, EmptySeq, LenProperties
    <3>2. \A k \in 1 .. n : link.queue[k] \in Client!Call
      BY <1>1, <3>1
    <3>3. QED
      BY <3>2, SubSeqProperties
  <2>4. QED
    BY <1>1, <2>1, <2>2, <2>3, ConcatProperties
<1>7. QED
  BY <1>2, <1>3, <1>4, <1>5, <1>6

CallsActions ==
  \/ Client!execute \/ Client!close
  \/ Client!writeRequest \/ Client!writeFails \/ Client!Exception
  \/ Client!readData \/ Client!retry \/ Client!readFails \/ Client!selectFails
  \/ Client!Accept \/ Client!Answer \/ Client!RunAndDie \/ Client!Disconnect
  \/ \E c \in Client!Call : Client!RunLate(c)

LEMMA CallsNext == Client!Next => CallsActions
BY DEF Client!Next, Client!Event, Client!Serve, CallsActions

LEMMA CallsTypes == CallsInv /\ Client!Next => Client!TypeOK'
<1> SUFFICES ASSUME CallsInv, CallsActions PROVE Client!TypeOK'
  BY CallsNext
<1> USE ClientAssumption DEF Client!TypeOK
<1>1. /\ Client!TypeOK
      /\ phase = "select" => call \in Client!Call
      /\ link.resp \in Seq(Client!Call) /\ link.queue \in Seq(Client!Call)
      /\ Client!noLink \in Client!Link /\ Client!newLink \in Client!Link
      /\ Client!monitored \in 0 .. 1
  BY NoLinkTyped DEF CallsInv, WaitInv, Client!Link, Client!Call, Client!monitored
<1>2. Client!giveUp => orphans' \in [Client!Call -> Nat]
  BY GiveUpLeaves
<1>3. \A k \in Client!Call, r \in {Client!failed} \cup Client!Call :
        [result EXCEPT ![k] = r] \in [Client!Call -> {Client!none, Client!failed} \cup Client!Call]
  BY <1>1
<1>4. \A k \in Client!Call : [runs EXCEPT ![k] = @ + 1] \in [Client!Call -> Nat]
  BY <1>1
<1>5. CASE Client!execute
  <2>1. call + 1 \in Client!Call /\ call + 1 \in 0 .. MaxCalls
    BY <1>1, <1>5 DEF Client!execute, Client!Call
  <2>2. orphans' \in [Client!Call -> Nat] /\ runs' = runs
    BY <1>1, <1>2, <1>5 DEF Client!execute
  <2>3. link' \in Client!Link
    BY <1>1, <1>5 DEF Client!execute
  <2>4. /\ result' \in [Client!Call -> {Client!none, Client!failed} \cup Client!Call]
        /\ clientMask' \subseteq {"read", "write", "exception"}
    BY <1>1, <1>3, <1>5, <2>1 DEF Client!execute
  <2>5. /\ phase' \in {"idle", "select", "crashed"}
        /\ state' \in {"NO_CONNECTION", "WRITE_REQUEST", "READ_HEADER", "READ_RESPONSE", "IDLE"}
        /\ written' \in 0 .. 2 /\ have' \in 0 .. 2 /\ nodes' \in 0 .. 1
    BY <1>1, <1>5 DEF Client!execute, Client!toWrite
  <2>6. call' \in 0 .. MaxCalls /\ attempts' \in 0 .. 2 /\ clientEof' \in BOOLEAN
    <3>1. call' = call + 1 /\ attempts' = 0 /\ clientEof' = FALSE
      BY <1>1, <1>5 DEF Client!execute
    <3>2. clientEof' \in BOOLEAN
      BY <3>1
    <3>3. call' \in 0 .. MaxCalls /\ attempts' \in 0 .. 2
      BY <2>1, <3>1
    <3>4. QED
      BY <3>2, <3>3
  <2>7. QED
    BY <1>1, <2>2, <2>3, <2>4, <2>5, <2>6
<1>6. CASE Client!close
  BY <1>1, <1>2, <1>6 DEF Client!close
<1>7. CASE Client!writeRequest
  BY SMTT(30), <1>1, <1>7, LinkSteps DEF Client!writeRequest, Client!waiting
<1>8. CASE Client!writeFails \/ Client!Exception \/ Client!selectFails
  <2>1. phase = "select" /\ call \in Client!Call
    BY <1>1, <1>8 DEF Client!writeFails, Client!Exception, Client!selectFails, Client!waiting
  <2>2. /\ phase' = "idle" /\ nodes' \in {0, nodes}
        /\ result' = [result EXCEPT ![call] = Client!failed]
        /\ UNCHANGED <<call, state, clientEof, attempts, written, have, clientMask, link,
                      orphans, runs>>
    BY <1>8 DEF Client!writeFails, Client!Exception, Client!selectFails,
         Client!gives0, Client!returns
  <2>3. result' \in [Client!Call -> {Client!none, Client!failed} \cup Client!Call]
    BY <1>3, <2>1, <2>2
  <2>4. QED
    BY <1>1, <2>2, <2>3
<1>9. CASE Client!readFails
  BY <1>1, <1>3, <1>9 DEF Client!readFails, Client!waiting, Client!streamEnds,
     Client!gives0, Client!returns
<1>10. CASE Client!readData
  <2>0. Len(link.resp) \in Nat /\ have \in 0 .. 2
    BY <1>1, LenProperties
  <2>1. PICK n \in 1 .. Len(link.resp) :
          /\ link' = [link EXCEPT !.resp = SubSeq(@, n + 1, Len(@))]
          /\ \/ have' = 2 /\ state' = "IDLE" /\ Client!gives0(link.resp[1])
             \/ ~ (have + n >= 2) /\ have' = have + n /\ Client!gives0(Client!failed)
                /\ UNCHANGED state
             \/ ~ (have + n >= 2) /\ have' = have + n /\ state' = "READ_RESPONSE"
                /\ UNCHANGED <<phase, nodes, result>>
    BY <1>10 DEF Client!readData
  <2>2. call \in Client!Call /\ link.resp[1] \in Client!Call
    BY <1>1, <1>10, <2>1, LenProperties DEF Client!readData, Client!waiting
  <2>3. link' \in Client!Link
    BY <2>1, LinkSteps
  <2>9. clientEof' \in BOOLEAN
    BY <1>10 DEF Client!readData
  <2>4. have' \in 0 .. 2
    BY <2>0, <2>1
  <2>5. /\ result' \in [Client!Call -> {Client!none, Client!failed} \cup Client!Call]
        /\ state' \in {"NO_CONNECTION", "WRITE_REQUEST", "READ_HEADER", "READ_RESPONSE", "IDLE"}
        /\ phase' \in {"idle", "select", "crashed"} /\ nodes' \in 0 .. 1
    <3>1. \/ result' = result
          \/ result' = [result EXCEPT ![call] = link.resp[1]]
          \/ result' = [result EXCEPT ![call] = Client!failed]
      BY <2>1 DEF Client!gives0, Client!returns
    <3>2. /\ state' \in {"IDLE", "READ_RESPONSE", state}
          /\ phase' \in {"idle", phase} /\ nodes' \in {0, nodes}
      BY <2>1 DEF Client!gives0, Client!returns
    <3>3. QED
      BY <1>1, <1>3, <2>2, <3>1, <3>2
  <2>6. UNCHANGED <<call, attempts, written, clientMask, orphans, runs>>
    BY <1>10 DEF Client!readData
  <2>7. QED
    BY <1>1, <2>3, <2>9, <2>4, <2>5, <2>6
<1>11. CASE Client!retry
  <2>1. call \in Client!Call
    BY <1>1, <1>11 DEF Client!retry, Client!streamEnds, Client!waiting
  <2>2. orphans' \in [Client!Call -> Nat] /\ UNCHANGED <<call, runs>> /\ attempts' = 1
    BY <1>2, <1>11 DEF Client!retry, Client!retryConnects
  <2>3. /\ phase' \in {"idle", "select", "crashed"}
        /\ result' \in [Client!Call -> {Client!none, Client!failed} \cup Client!Call]
        /\ link' \in Client!Link
    BY <1>1, <1>3, <1>11, <2>1 DEF Client!retry, Client!retryConnects, Client!returns
  <2>4. /\ state' \in {"NO_CONNECTION", "WRITE_REQUEST"}
        /\ written' \in 0 .. 2 /\ have' \in 0 .. 2 /\ nodes' \in 0 .. 1
        /\ clientMask' \subseteq {"read", "write", "exception"} /\ clientEof' \in BOOLEAN
    <3>1. \/ /\ written' = 0 /\ have' = 0 /\ nodes' = Client!monitored
             /\ state' = "WRITE_REQUEST" /\ clientMask' \in {{"write"}, {"write", "exception"}}
          \/ /\ written' = written /\ have' = have /\ nodes' = 0
             /\ state' = "NO_CONNECTION" /\ clientMask' = clientMask
      BY <1>11 DEF Client!retry, Client!retryConnects, Client!toWrite
    <3>2. clientEof' = FALSE
      BY <1>11 DEF Client!retry, Client!retryConnects
    <3>3. clientEof' \in BOOLEAN
      BY <3>2
    <3>4. /\ state' \in {"NO_CONNECTION", "WRITE_REQUEST"}
          /\ written' \in 0 .. 2 /\ have' \in 0 .. 2 /\ nodes' \in 0 .. 1
      BY <1>1, <3>1
    <3>5. clientMask' \subseteq {"read", "write", "exception"}
      BY <1>1, <3>1
    <3>6. QED
      BY <3>3, <3>4, <3>5
  <2>5. QED
    BY <1>1, <2>2, <2>3, <2>4
<1>12. CASE Client!Accept
  BY <1>1, <1>12, LinkSteps DEF Client!Accept, Client!client
<1>13. CASE Client!Answer
  <2>1. link' \in Client!Link /\ Head(link.queue) \in Client!Call
    BY <1>13, LinkSteps DEF Client!Answer
  <2>2. runs' \in [Client!Call -> Nat]
    BY <1>4, <1>13, <2>1 DEF Client!Answer
  <2>3. UNCHANGED <<Client!client, orphans, result>>
    BY <1>13 DEF Client!Answer
  <2>4. QED
    BY <1>1, <2>1, <2>2, <2>3 DEF Client!client
<1>14. CASE Client!RunAndDie
  <2>1. link' \in Client!Link /\ Head(link.queue) \in Client!Call
    BY <1>14, LinkSteps DEF Client!RunAndDie
  <2>2. runs' \in [Client!Call -> Nat]
    BY <1>4, <1>14, <2>1 DEF Client!RunAndDie
  <2>3. UNCHANGED <<Client!client, orphans, result>>
    BY <1>14 DEF Client!RunAndDie
  <2>4. QED
    BY <1>1, <2>1, <2>2, <2>3 DEF Client!client
<1>15. CASE Client!Disconnect
  BY <1>1, <1>15, LinkSteps DEF Client!Disconnect, Client!client
<1>16. ASSUME NEW c \in Client!Call, Client!RunLate(c) PROVE Client!TypeOK'
  <2>1. orphans' \in [Client!Call -> Nat] /\ runs' \in [Client!Call -> Nat]
    BY <1>1, <1>4, <1>16 DEF Client!RunLate
  <2>2. UNCHANGED <<Client!client, link, result>>
    BY <1>16 DEF Client!RunLate
  <2>3. QED
    BY <1>1, <2>1, <2>2 DEF Client!client
<1>17. QED
  BY <1>5, <1>6, <1>7, <1>8, <1>9, <1>10, <1>11, <1>12, <1>13, <1>14, <1>15, <1>16
     DEF CallsActions

CallsParts == WaitInv /\ LinkInv /\ RunsInv /\ Client!AnswerIsOwn

(* What the invariant says of numbers and of the two ends of a connection.   *)
LEMMA CallsFacts ==
  ASSUME CallsInv
  PROVE  /\ MaxCalls \in Nat /\ call \in 0 .. MaxCalls
         /\ attempts \in 0 .. 2 /\ have \in 0 .. 2 /\ written \in 0 .. 2
         /\ runs \in [Client!Call -> Nat] /\ orphans \in [Client!Call -> Nat]
         /\ result \in [Client!Call -> {0, MaxCalls + 1} \cup Client!Call]
         /\ link = [srv |-> link.srv, queue |-> link.queue, resp |-> link.resp]
         /\ \A c \in Client!Call : asked(c) \in 0 .. 1 /\ owed(c) \in Nat
         /\ phase = "select" \/ state = "WRITE_REQUEST" => call \in Client!Call
         /\ Client!noLink.queue = << >> /\ Client!noLink.resp = << >>
         /\ Client!newLink.queue = << >> /\ Client!newLink.resp = << >>
         /\ Client!noLink.srv = "none" /\ Client!newLink.srv = "pending"
<1>1. link = [srv |-> link.srv, queue |-> link.queue, resp |-> link.resp]
  BY DEF CallsInv, Client!TypeOK, Client!Link
<1>2. /\ Client!noLink.queue = << >> /\ Client!noLink.resp = << >>
      /\ Client!newLink.queue = << >> /\ Client!newLink.resp = << >>
      /\ Client!noLink.srv = "none" /\ Client!newLink.srv = "pending"
  BY DEF Client!noLink, Client!newLink
<1>3. /\ MaxCalls \in Nat /\ call \in 0 .. MaxCalls
      /\ attempts \in 0 .. 2 /\ have \in 0 .. 2 /\ written \in 0 .. 2
      /\ runs \in [Client!Call -> Nat] /\ orphans \in [Client!Call -> Nat]
      /\ result \in [Client!Call -> {0, MaxCalls + 1} \cup Client!Call]
  BY ClientAssumption DEF CallsInv, Client!TypeOK, Client!none, Client!failed
<1>4. \A c \in Client!Call : asked(c) \in 0 .. 1 /\ owed(c) \in Nat
  BY <1>3 DEF asked, owed
<1>5. phase = "select" \/ state = "WRITE_REQUEST" => call \in Client!Call
  BY <1>3 DEF CallsInv, WaitInv, Client!Call
<1>6. QED
  BY <1>1, <1>2, <1>3, <1>4, <1>5

(* A connection that is given up, lost or closed leaves no more runs to come *)
(* than there were.                                                          *)
LEMMA NoMoreOwed ==
  ASSUME CallsInv, link'.queue = << >>, runs' = runs, Client!giveUp \/ orphans' = orphans
  PROVE  /\ \A c \in Client!Call : owed(c)' \in Nat /\ owed(c)' <= owed(c)
         /\ orphans' \in [Client!Call -> Nat]
<1>1. /\ orphans' \in [Client!Call -> Nat]
      /\ \A c \in Client!Call : orphans'[c] = orphans[c] \/ orphans'[c] = orphans[c] + asked(c)
  BY CallsFacts, GiveUpLeaves
<1>2. \A c \in Client!Call : owed(c)' = runs[c] + orphans'[c]
  BY <1>1, CallsFacts DEF owed, asked
<1>3. \A c \in Client!Call : owed(c) = runs[c] + orphans[c] + asked(c) /\ asked(c) \in 0 .. 1
  BY CallsFacts DEF owed
<1>4. runs \in [Client!Call -> Nat] /\ orphans \in [Client!Call -> Nat]
  BY CallsFacts
<1>5. ASSUME NEW c \in Client!Call PROVE owed(c)' \in Nat /\ owed(c)' <= owed(c)
  <2>1. /\ owed(c)' = runs[c] + orphans'[c] /\ owed(c) = runs[c] + orphans[c] + asked(c)
        /\ asked(c) \in 0 .. 1 /\ runs[c] \in Nat /\ orphans[c] \in Nat
        /\ orphans'[c] = orphans[c] \/ orphans'[c] = orphans[c] + asked(c)
    BY <1>1, <1>2, <1>3, <1>4
  <2>2. QED
    BY <2>1
<1>6. QED
  BY <1>1, <1>5

LEMMA ExecuteKeeps ==
  ASSUME CallsInv, Client!execute
  PROVE  CallsParts'
<1>1. /\ call \in 0 .. MaxCalls /\ call + 1 \in Client!Call /\ call' = call + 1
      /\ attempts' = 0 /\ runs' = runs
  BY CallsFacts DEF Client!execute, Client!Call
<1>2. Client!giveUp \/ orphans' = orphans
  BY DEF Client!execute
<1>3. link'.queue = << >> /\ link'.resp = << >>
  <2>1. link' \in {Client!newLink, Client!noLink} \/ (link' = link /\ state = "IDLE")
    BY DEF Client!execute
  <2>2. QED
    BY <2>1, CallsFacts DEF CallsInv, LinkInv
<1>4. \/ /\ state' = "WRITE_REQUEST" /\ written' = 0 /\ have' = 0
         /\ clientMask' = {"write", "exception"} /\ phase' = "select"
         /\ result' = result
      \/ /\ state' = "NO_CONNECTION" /\ link' = Client!noLink
         /\ phase' = "idle" /\ have' = have
         /\ result' = [result EXCEPT ![call + 1] = Client!failed]
  BY DEF Client!execute, Client!toWrite
<1>5. \A c \in Client!Call : owed(c)' \in Nat /\ owed(c)' <= owed(c)
  BY <1>1, <1>2, <1>3, NoMoreOwed
<1>6. WaitInv'
  <2>1. "read" \notin {"write", "exception"}
    OBVIOUS
  <2>2. QED
    BY <1>1, <1>4, <2>1 DEF WaitInv
<1>7. LinkInv'
  BY <1>3, <1>4, CallsFacts DEF LinkInv
<1>8. RunsInv'
  <2>1. \A c \in Client!Call :
          owed(c) <= IF c > call THEN 0 ELSE IF c = call /\ attempts = 0 THEN 1 ELSE 2
    BY DEF CallsInv, RunsInv
  <2>2. \A c \in Client!Call : owed(c) \in Nat
    BY CallsFacts
  <2>3. \A c \in Client!Call : owed(c)' <= IF c >= call + 1 THEN 0 ELSE 2
    BY <1>1, <1>5, <2>1, <2>2 DEF Client!Call
  <2>4. call' \in Client!Call
    BY <1>1
  <2>5. owed(call)' <= 0
    BY <1>1, <2>3, <2>4
  <2>6. QED
    BY <1>1, <1>5, <2>3, <2>5 DEF RunsInv, Client!Call
<1>9. Client!AnswerIsOwn'
  <2>1. \A c \in Client!Call : result'[c] \in Client!Call => result'[c] = result[c]
    BY <1>1, <1>4, CallsFacts DEF Client!failed, Client!Call
  <2>2. QED
    BY <1>1, <2>1 DEF CallsInv, Client!AnswerIsOwn
<1>10. QED
  BY <1>6, <1>7, <1>8, <1>9 DEF CallsParts

(* A step that leaves no call with more runs to come keeps the bounds.       *)
LEMMA RunsKept ==
  ASSUME CallsInv, call' = call, attempts' \in 0 .. 2, attempts <= attempts',
         \A c \in Client!Call : owed(c)' \in Nat /\ owed(c)' <= owed(c),
         state' = "WRITE_REQUEST" =>
           \/ state = "WRITE_REQUEST" /\ attempts' = attempts
           \/ call \in Client!Call /\ attempts = 0 /\ attempts' = 1
  PROVE  RunsInv'
<1>1. /\ \A c \in Client!Call :
           owed(c) <= IF c > call THEN 0 ELSE IF c = call /\ attempts = 0 THEN 1 ELSE 2
      /\ state = "WRITE_REQUEST" => owed(call) <= attempts
  BY DEF CallsInv, RunsInv
<1>2. /\ call \in 0 .. MaxCalls /\ attempts \in 0 .. 2
      /\ \A c \in Client!Call : owed(c) \in Nat
      /\ state = "WRITE_REQUEST" => call \in Client!Call
      /\ \A c \in Client!Call : c \in Nat
  BY CallsFacts DEF Client!Call
<1>3. \A c \in Client!Call :
        owed(c)' <= IF c > call THEN 0 ELSE IF c = call /\ attempts' = 0 THEN 1 ELSE 2
  BY <1>1, <1>2
<1>4. state' = "WRITE_REQUEST" => owed(call)' <= attempts'
  <2>1. SUFFICES ASSUME state' = "WRITE_REQUEST" PROVE owed(call)' <= attempts'
    OBVIOUS
  <2>2. call \in Client!Call /\ owed(call) <= attempts'
    BY <1>1, <1>2, <2>1
  <2>3. \A c \in Client!Call : c = call => owed(c)' <= attempts'
    BY <1>2, <2>2
  <2>4. QED
    BY <2>2, <2>3
<1>5. QED
  BY <1>3, <1>4 DEF RunsInv, Client!Call

LEMMA CloseKeeps ==
  ASSUME CallsInv, Client!close
  PROVE  CallsParts'
<1>1. /\ phase = "idle" /\ state' = "NO_CONNECTION" /\ Client!giveUp /\ link' = Client!noLink
      /\ UNCHANGED <<phase, call, attempts, written, have, clientMask, runs, result>>
  BY DEF Client!close
<1>2. link'.queue = << >> /\ link'.resp = << >>
  BY <1>1, CallsFacts
<1>3. \A c \in Client!Call : owed(c)' \in Nat /\ owed(c)' <= owed(c)
  BY <1>1, <1>2, NoMoreOwed
<1>4. RunsInv'
  BY <1>1, <1>3, RunsKept, CallsFacts
<1>5. WaitInv'
  BY <1>1 DEF WaitInv
<1>6. LinkInv'
  BY <1>1, <1>2, CallsFacts DEF LinkInv
<1>7. Client!AnswerIsOwn'
  BY <1>1 DEF CallsInv, Client!AnswerIsOwn
<1>8. QED
  BY <1>4, <1>5, <1>6, <1>7 DEF CallsParts

LEMMA WriteKeeps ==
  ASSUME CallsInv, Client!writeRequest
  PROVE  CallsParts'
<1>1. /\ phase = "select" /\ "write" \in clientMask
      /\ UNCHANGED <<phase, call, attempts, have, orphans, runs, result>>
  BY DEF Client!writeRequest, Client!waiting
<1>2. /\ state = "WRITE_REQUEST" /\ call \in Client!Call /\ have = 0 /\ attempts \in 0 .. 1
      /\ link.queue = << >> /\ link.resp = << >>
      /\ written \in 0 .. 1 /\ call >= 1
  BY <1>1, CallsFacts DEF CallsInv, WaitInv, LinkInv
<1>3. PICK n \in written + 1 .. 2 :
        /\ written' = n
        /\ state' = IF n = 2 THEN "READ_HEADER" ELSE state
        /\ clientMask' = IF n = 2 THEN {"read"} ELSE {"write"}
        /\ link' = IF n = 2 /\ link.srv = "up"
                   THEN [link EXCEPT !.queue = Append(@, call)] ELSE link
  BY DEF Client!writeRequest
<1>4. /\ n = 1 => state' = "WRITE_REQUEST" /\ clientMask' = {"write"} /\ link' = link
      /\ n = 2 => state' = "READ_HEADER" /\ clientMask' = {"read"}
      /\ n \in 1 .. 2
  BY <1>2, <1>3
<1>5. \/ link' = link
      \/ link'.queue = <<call>> /\ link'.resp = << >> /\ n = 2
  BY <1>2, <1>3, Pieces, CallsFacts
<1>6. WaitInv'
  <2>1. "read" \notin {"write"} /\ "write" \notin {"read"}
    OBVIOUS
  <2>2. CASE n = 1
    BY <1>1, <1>2, <1>3, <1>4, <2>1, <2>2 DEF WaitInv
  <2>3. CASE n = 2
    BY <1>1, <1>2, <1>3, <1>4, <2>1, <2>3 DEF WaitInv
  <2>4. QED
    BY <1>4, <2>2, <2>3
<1>7. LinkInv'
  <2>1. link' = link \/ (link'.queue = <<call>> /\ link'.resp = << >>)
    BY <1>5
  <2>2. state' = "WRITE_REQUEST" => link' = link
    BY <1>4, <1>5
  <2>3. link'.resp = << >> /\ link'.queue \in {<< >>, <<call>>} /\ Len(link'.resp) = 0
    BY <1>2, <2>1, Pieces
  <2>4. state' \in {"WRITE_REQUEST", "READ_HEADER"}
    BY <1>4
  <2>5. QED
    BY <1>1, <1>2, <2>2, <2>3, <2>4 DEF LinkInv
<1>8. RunsInv'
  <2>1. /\ \A c \in Client!Call :
             owed(c) <= IF c > call THEN 0 ELSE IF c = call /\ attempts = 0 THEN 1 ELSE 2
        /\ owed(call) <= attempts
    BY <1>2 DEF CallsInv, RunsInv
  <2>2. \A c \in Client!Call : owed(c) = runs[c] + orphans[c] /\ owed(c) \in Nat
    BY <1>2, CallsFacts DEF owed, asked
  <2>3. ASSUME NEW c \in Client!Call
        PROVE  owed(c)' = owed(c) \/ (c = call /\ n = 2 /\ owed(c)' = owed(c) + 1)
    BY <1>1, <1>2, <1>5, <2>2 DEF owed, asked
  <2>4. \A c \in Client!Call :
          owed(c)' <= IF c > call THEN 0 ELSE IF c = call /\ attempts = 0 THEN 1 ELSE 2
    <3>1. ASSUME NEW c \in Client!Call
          PROVE  owed(c)' <= IF c > call THEN 0 ELSE IF c = call /\ attempts = 0 THEN 1 ELSE 2
      <4>1. c \in Nat /\ call \in Nat /\ owed(c) \in Nat
        BY <1>2, <2>2 DEF Client!Call
      <4>2. CASE c = call
        BY <1>2, <2>1, <2>3, <4>1, <4>2
      <4>3. CASE c # call
        BY <1>2, <2>1, <2>3, <4>1, <4>3
      <4>4. QED
        BY <4>2, <4>3
    <3>2. QED
      BY <3>1
  <2>5. n = 1 => owed(call)' <= attempts
    <3>1. n = 1 => \A c \in Client!Call : owed(c)' = owed(c)
      BY <2>3
    <3>2. \A c \in Client!Call : c = call => (n = 1 => owed(c)' <= attempts)
      BY <2>1, <3>1
    <3>3. QED
      BY <1>1, <1>2, <3>2
  <2>6. QED
    BY <1>1, <1>4, <2>4, <2>5 DEF RunsInv, Client!Call
<1>9. Client!AnswerIsOwn'
  BY <1>1 DEF CallsInv, Client!AnswerIsOwn
<1>10. QED
  BY <1>6, <1>7, <1>8, <1>9 DEF CallsParts

(* The ways a call breaks off: the connection is left as it is.              *)
LEMMA FailureKeeps ==
  ASSUME CallsInv,
         Client!writeFails \/ Client!Exception \/ Client!readFails \/ Client!selectFails
  PROVE  CallsParts'
<1>1. /\ phase = "select" /\ phase' = "idle"
      /\ result' = [result EXCEPT ![call] = Client!failed]
      /\ UNCHANGED <<call, state, written, have, clientMask, link, orphans, runs>>
  BY DEF Client!writeFails, Client!Exception, Client!readFails, Client!selectFails,
         Client!waiting, Client!streamEnds, Client!gives0, Client!returns
<1>2. \/ attempts' = attempts
      \/ attempts' = 2 /\ "read" \in clientMask
  BY DEF Client!writeFails, Client!Exception, Client!readFails, Client!selectFails,
         Client!streamEnds, Client!waiting
<1>3. attempts' = attempts \/ (attempts' = 2 /\ state # "WRITE_REQUEST")
  BY <1>1, <1>2 DEF CallsInv, WaitInv
<1>4. \A c \in Client!Call : owed(c)' = owed(c) /\ owed(c) \in Nat
  BY <1>1, CallsFacts DEF owed, asked
<1>5. RunsInv'
  <2>1. /\ attempts' \in 0 .. 2 /\ attempts <= attempts'
        /\ \A c \in Client!Call : owed(c)' \in Nat /\ owed(c)' <= owed(c)
    BY <1>3, <1>4, CallsFacts
  <2>2. QED
    BY <1>1, <1>3, <2>1, RunsKept
<1>6. WaitInv'
  BY <1>1, <1>3 DEF CallsInv, WaitInv
<1>7. LinkInv'
  BY <1>1 DEF CallsInv, LinkInv, Client!noLink
<1>8. Client!AnswerIsOwn'
  <2>1. \A c \in Client!Call : result'[c] \in Client!Call => result'[c] = result[c]
    BY <1>1, CallsFacts DEF Client!failed, Client!Call
  <2>2. QED
    BY <1>1, <2>1 DEF CallsInv, Client!AnswerIsOwn
<1>9. QED
  BY <1>5, <1>6, <1>7, <1>8 DEF CallsParts

LEMMA ReadKeeps ==
  ASSUME CallsInv, Client!readData
  PROVE  CallsParts'
<1>1. /\ phase = "select" /\ "read" \in clientMask
      /\ UNCHANGED <<call, attempts, written, clientMask, orphans, runs>>
  BY DEF Client!readData, Client!waiting
<1>2. PICK n \in 1 .. Len(link.resp) :
        /\ link' = [link EXCEPT !.resp = SubSeq(@, n + 1, Len(@))]
        /\ \/ have' = 2 /\ state' = "IDLE" /\ Client!gives0(link.resp[1]) /\ have + n >= 2
           \/ ~ (have + n >= 2) /\ have' = have + n /\ Client!gives0(Client!failed)
              /\ UNCHANGED state
           \/ ~ (have + n >= 2) /\ have' = have + n /\ state' = "READ_RESPONSE"
              /\ UNCHANGED <<phase, nodes, result>>
  BY DEF Client!readData
<1>3. /\ link.resp \in {<<call>>, <<call, call>>} /\ link.queue = << >>
      /\ runs[call] > 0 /\ have + Len(link.resp) <= 2 /\ have \in 0 .. 2
      /\ state \in {"READ_HEADER", "READ_RESPONSE"} /\ call >= 1 /\ call \in Client!Call
      /\ Len(link.resp) \in 1 .. 2 /\ link.resp[1] = call
  <2>1. link.resp # << >>
    BY <1>2, Pieces
  <2>2. QED
    BY <1>1, <2>1, CallsFacts, Pieces DEF CallsInv, WaitInv, LinkInv
<1>4. /\ link'.queue = << >> /\ link'.resp = SubSeq(link.resp, n + 1, Len(link.resp))
      /\ n \in 1 .. Len(link.resp)
  BY <1>2, <1>3, CallsFacts
<1>5. /\ link'.resp \in {<< >>, <<call>>}
      /\ Len(link'.resp) = Len(link.resp) - n
  <2>1. CASE link.resp = <<call>>
    <3>1. n = 1 /\ Len(link.resp) = 1
      BY <1>4, <2>1, Pieces
    <3>2. QED
      BY <1>4, <2>1, <3>1, Pieces
  <2>2. CASE link.resp = <<call, call>>
    <3>1. n \in 1 .. 2 /\ Len(link.resp) = 2
      BY <1>4, <2>2, Pieces
    <3>2. CASE n = 1
      <4>1. link'.resp = SubSeq(<<call, call>>, 2, 2)
        BY <1>4, <2>2, <3>1, <3>2
      <4>2. link'.resp = <<call>>
        BY <4>1, Pieces
      <4>3. Len(link'.resp) = 1
        BY <4>2, Pieces
      <4>4. QED
        BY <3>1, <3>2, <4>2, <4>3
    <3>3. CASE n = 2
      BY <1>4, <2>2, <3>1, <3>3, Pieces
    <3>4. QED
      BY <3>1, <3>2, <3>3
  <2>3. QED
    BY <1>3, <2>1, <2>2
<1>6. \/ /\ have' = 2 /\ state' = "IDLE" /\ phase' = "idle" /\ link'.resp = << >>
         /\ result' = [result EXCEPT ![call] = call]
      \/ /\ have' = have + n /\ have' < 2 /\ phase' = "idle" /\ state' = state
         /\ result' = [result EXCEPT ![call] = Client!failed]
      \/ /\ have' = have + n /\ have' < 2 /\ phase' = "select" /\ state' = "READ_RESPONSE"
         /\ result' = result
  <2>1. have + n >= 2 => n = Len(link.resp)
    BY <1>3, <1>4
  <2>2. n = Len(link.resp) => link'.resp = << >>
    BY <1>4, <1>5, Pieces
  <2>3. ~ (have + n >= 2) => have + n < 2
    BY <1>3, <1>4
  <2>4. QED
    BY <1>1, <1>2, <1>3, <2>1, <2>2, <2>3 DEF Client!gives0, Client!returns
<1>7. WaitInv'
  BY <1>1, <1>3, <1>6 DEF CallsInv, WaitInv
<1>8. LinkInv'
  <2>1. have' + Len(link'.resp) <= 2
    <3>1. have' = 2 => Len(link'.resp) = 0
      <4>1. have' = 2 => link'.resp = << >>
        BY <1>6
      <4>2. QED
        BY <4>1, Pieces
    <3>2. have' # 2 => have' = have + n
      BY <1>6
    <3>3. Len(link'.resp) = Len(link.resp) - n
      BY <1>5
    <3> DEFINE a == have'
               b == Len(link'.resp)
               c == Len(link.resp)
    <3>4. /\ a = 2 => b = 0
          /\ a # 2 => a = have + n
          /\ b = c - n /\ c \in Nat /\ n \in Nat /\ have \in Nat /\ have + c <= 2
      BY <1>3, <1>4, <3>1, <3>2, <3>3
    <3> HIDE DEF a, b, c
    <3>5. a + b <= 2
      <4>1. CASE a = 2
        BY <3>4, <4>1
      <4>2. CASE a # 2
        <5>1. a = have + n /\ b = c - n
          BY <3>4, <4>2
        <5>2. QED
          BY <3>4, <5>1
      <4>3. QED
        BY <4>1, <4>2
    <3>6. QED
      BY <3>5 DEF a, b
  <2>2. link'.queue \in {<< >>, <<call>>} /\ link'.resp \in {<< >>, <<call>>, <<call, call>>}
    BY <1>4, <1>5
  <2>3. state' \in {"IDLE", "READ_HEADER", "READ_RESPONSE"} /\ (state' = "IDLE" => link'.resp = << >>)
    BY <1>3, <1>6
  <2>4. QED
    BY <1>1, <1>3, <1>4, <2>1, <2>2, <2>3 DEF LinkInv
<1>9. RunsInv'
  <2>1. \A c \in Client!Call : owed(c)' = owed(c) /\ owed(c) \in Nat
    BY <1>1, <1>3, <1>4, CallsFacts DEF owed, asked
  <2>2. /\ attempts' \in 0 .. 2 /\ attempts <= attempts' /\ state' # "WRITE_REQUEST"
        /\ \A c \in Client!Call : owed(c)' \in Nat /\ owed(c)' <= owed(c)
    BY <1>1, <1>3, <1>6, <2>1, CallsFacts
  <2>3. QED
    BY <1>1, <2>2, RunsKept
<1>10. Client!AnswerIsOwn'
  <2>1. \A c \in Client!Call : result'[c] \in Client!Call =>
          result'[c] = result[c] \/ (c = call /\ result'[c] = call)
    BY SMTT(30), <1>3, <1>6, CallsFacts DEF Client!failed, Client!Call
  <2>2. QED
    BY <1>1, <1>3, <2>1 DEF CallsInv, Client!AnswerIsOwn
<1>11. QED
  BY <1>7, <1>8, <1>9, <1>10 DEF CallsParts

LEMMA RetryKeeps ==
  ASSUME CallsInv, Client!retry
  PROVE  CallsParts'
<1>1. /\ phase = "select" /\ attempts = 0 /\ attempts' = 1 /\ have = 0
      /\ Client!giveUp /\ UNCHANGED <<call, runs>>
  BY DEF Client!retry, Client!streamEnds, Client!waiting, Client!retryConnects
<1>2. \/ /\ state' = "WRITE_REQUEST" /\ written' = 0 /\ have' = 0 /\ phase' = "select"
         /\ clientMask' \in {{"write"}, {"write", "exception"}}
         /\ link' = Client!newLink /\ result' = result
      \/ /\ state' = "NO_CONNECTION" /\ link' = Client!noLink /\ have' = have
         /\ phase' \in {"idle", "crashed"}
         /\ result' \in {result, [result EXCEPT ![call] = Client!failed]}
  BY <1>1 DEF Client!retry, Client!retryConnects, Client!toWrite, Client!returns
<1>3. link'.queue = << >> /\ link'.resp = << >>
  BY <1>2, CallsFacts
<1>4. call \in Client!Call /\ call >= 1
  BY <1>1, CallsFacts DEF CallsInv, WaitInv
<1>5. RunsInv'
  <2>1. \A c \in Client!Call : owed(c)' \in Nat /\ owed(c)' <= owed(c)
    BY <1>1, <1>3, NoMoreOwed
  <2>2. QED
    BY <1>1, <1>4, <2>1, RunsKept
<1>6. WaitInv'
  <2>1. "read" \notin clientMask' \/ phase' # "select"
    BY <1>2
  <2>2. QED
    BY <1>1, <1>2, <1>4, <2>1 DEF WaitInv
<1>7. LinkInv'
  BY <1>1, <1>2, <1>3, Pieces DEF LinkInv
<1>8. Client!AnswerIsOwn'
  <2>1. \A c \in Client!Call : result'[c] \in Client!Call => result'[c] = result[c]
    BY <1>2, CallsFacts DEF Client!failed, Client!Call
  <2>2. QED
    BY <1>1, <2>1 DEF CallsInv, Client!AnswerIsOwn
<1>9. QED
  BY <1>5, <1>6, <1>7, <1>8 DEF CallsParts

(* The server's steps on the connection in use, none of which the client     *)
(* notices before select reports them.                                       *)
ServerForm ==
  /\ UNCHANGED <<Client!client, result>>
  /\ \/ /\ link.srv = "pending" /\ link'.queue = link.queue /\ link'.resp = link.resp
        /\ UNCHANGED <<orphans, runs>>
     \/ /\ link.srv = "up" /\ link'.queue = << >> /\ link'.resp = link.resp
        /\ UNCHANGED <<orphans, runs>>
     \/ /\ link.srv = "up" /\ link.queue = <<call>> /\ link'.queue = << >>
        /\ link'.resp \in {<< >>, <<call>>, <<call, call>>}
        /\ call \in Client!Call
        /\ runs' = [runs EXCEPT ![call] = @ + 1] /\ orphans' = orphans

LEMMA ServeForm ==
  ASSUME CallsInv, Client!Accept \/ Client!Answer \/ Client!RunAndDie \/ Client!Disconnect
  PROVE  ServerForm
<1>1. /\ link.queue \in {<< >>, <<call>>}
      /\ link.queue # << >> => link.resp = << >>
      /\ link.queue \in Seq(Client!Call)
      /\ link = [srv |-> link.srv, queue |-> link.queue, resp |-> link.resp]
  BY CallsFacts DEF CallsInv, LinkInv, Client!TypeOK, Client!Link
<1>2. link.queue = <<call>> => call \in Client!Call
  BY <1>1, Pieces
<1>3. CASE Client!Accept
  BY <1>1, <1>3 DEF Client!Accept, ServerForm
<1>4. CASE Client!Answer
  <2>1. /\ link.queue = <<call>> /\ link.resp = << >> /\ Head(link.queue) = call
        /\ Tail(link.queue) = << >>
    <3>1. link.queue # << >>
      BY <1>4 DEF Client!Answer
    <3>2. link.queue = <<call>> /\ link.resp = << >>
      BY <1>1, <3>1
    <3>3. QED
      BY <3>2, Pieces
  <2>2. /\ link' = [link EXCEPT !.queue = Tail(@), !.resp = @ \o <<call, call>>]
        /\ runs' = [runs EXCEPT ![call] = @ + 1]
        /\ link.srv = "up" /\ UNCHANGED <<Client!client, orphans, result>>
    BY <1>4, <2>1 DEF Client!Answer
  <2>3. link'.queue = << >> /\ link'.resp = << >> \o <<call, call>>
    BY <1>1, <2>1, <2>2
  <2>4. link'.resp = <<call, call>>
    BY <2>3, Pieces
  <2>5. QED
    BY <1>2, <2>1, <2>2, <2>3, <2>4 DEF ServerForm
<1>5. CASE Client!RunAndDie
  <2>1. link.queue = <<call>> /\ link.resp = << >> /\ Head(link.queue) = call
    BY <1>1, <1>5, Pieces DEF Client!RunAndDie
  <2>2. /\ runs' = [runs EXCEPT ![call] = @ + 1]
        /\ link.srv = "up" /\ UNCHANGED <<Client!client, orphans, result>>
    BY <1>5, <2>1 DEF Client!RunAndDie
  <2>3. PICK end \in {"fin", "reset"}, n \in 0 .. 1 :
          link' = [link EXCEPT !.srv = end, !.queue = << >>, !.resp = @ \o SubSeq(link.queue, 1, n)]
    BY <1>5 DEF Client!RunAndDie
  <2>4. link'.queue = << >> /\ link'.resp = << >> \o SubSeq(<<call>>, 1, n)
    BY <1>1, <2>1, <2>3
  <2>5. link'.resp \in {<< >>, <<call>>}
    <3>1. CASE n = 0
      BY <2>4, <3>1, Pieces
    <3>2. CASE n = 1
      BY <2>4, <3>2, Pieces
    <3>3. QED
      BY <3>1, <3>2
  <2>6. QED
    BY <1>2, <2>1, <2>2, <2>4, <2>5 DEF ServerForm
<1>6. CASE Client!Disconnect
  BY <1>1, <1>6 DEF Client!Disconnect, ServerForm
<1>7. QED
  BY <1>3, <1>4, <1>5, <1>6

LEMMA ServeKeeps ==
  ASSUME CallsInv, ServerForm
  PROVE  CallsParts'
<1>1. UNCHANGED <<phase, call, state, attempts, written, have, clientMask, result>>
  BY DEF ServerForm, Client!client
<1>2. /\ link # Client!noLink
      /\ state # "NO_CONNECTION"
      /\ runs \in [Client!Call -> Nat] /\ orphans \in [Client!Call -> Nat]
  <2>1. link # Client!noLink
    BY CallsFacts DEF ServerForm
  <2>2. QED
    BY <2>1, CallsFacts DEF CallsInv, LinkInv
<1>3. WaitInv'
  BY <1>1 DEF CallsInv, WaitInv
<1>4. \A c \in Client!Call : runs'[c] \in Nat /\ runs[c] <= runs'[c]
  BY <1>2 DEF ServerForm
<1>5. \A c \in Client!Call : owed(c)' \in Nat /\ owed(c)' <= owed(c)
  <2>1. ASSUME NEW c \in Client!Call
        PROVE  owed(c)' \in Nat /\ owed(c)' <= owed(c)
    <3>1. runs[c] \in Nat /\ orphans[c] \in Nat
      BY <1>2
    <3>2. CASE UNCHANGED <<orphans, runs>>
               /\ (link'.queue = link.queue \/ link'.queue = << >>)
      BY <1>1, <3>1, <3>2 DEF owed, asked
    <3>3. CASE /\ link.queue = <<call>> /\ link'.queue = << >>
               /\ runs' = [runs EXCEPT ![call] = @ + 1] /\ orphans' = orphans
      <4>1. link.queue # << >>
        BY <3>3, Pieces
      <4>2. QED
        BY <1>1, <1>2, <3>1, <3>3, <4>1 DEF owed, asked
    <3>4. QED
      BY <3>2, <3>3 DEF ServerForm
  <2>2. QED
    BY <2>1
<1>6. RunsInv'
  BY <1>1, <1>5, RunsKept, CallsFacts
<1>7. LinkInv'
  <2>1. CASE UNCHANGED <<orphans, runs>> /\ link'.resp = link.resp
             /\ (link'.queue = link.queue \/ link'.queue = << >>)
    BY <1>1, <1>2, <2>1 DEF CallsInv, LinkInv
  <2>2. CASE /\ link.queue = <<call>> /\ link'.queue = << >> /\ call \in Client!Call
             /\ link'.resp \in {<< >>, <<call>>, <<call, call>>}
             /\ runs' = [runs EXCEPT ![call] = @ + 1]
    <3>1. link.queue # << >>
      BY <2>2, Pieces
    <3>2. have = 0 /\ state \notin {"WRITE_REQUEST", "IDLE"} /\ Len(link'.resp) \in 0 .. 2
      BY <2>2, <3>1, Pieces DEF CallsInv, LinkInv
    <3>3. runs'[call] > 0
      BY <1>2, <2>2
    <3>4. have' + Len(link'.resp) <= 2
      <4> DEFINE k == Len(link'.resp)
      <4>1. have' = 0 /\ k \in 0 .. 2
        BY <1>1, <3>2
      <4>2. have' + k <= 2
        <5> HIDE DEF k
        <5>1. QED
          BY <4>1
      <4>3. QED
        BY <4>2
    <3>5. QED
      BY <1>1, <1>2, <2>2, <3>2, <3>3, <3>4 DEF LinkInv
  <2>3. QED
    BY <2>1, <2>2 DEF ServerForm
<1>8. Client!AnswerIsOwn'
  <2>1. \A c \in Client!Call : runs[c] \in Nat
    BY <1>2
  <2>2. QED
    BY <1>1, <1>4, <2>1 DEF CallsInv, Client!AnswerIsOwn
<1>9. QED
  BY <1>3, <1>6, <1>7, <1>8 DEF CallsParts

(* A request that is left over is run or lost.                               *)
LEMMA RunLateKeeps ==
  ASSUME CallsInv, NEW d \in Client!Call, Client!RunLate(d)
  PROVE  CallsParts'
<1>1. UNCHANGED <<phase, call, state, attempts, written, have, clientMask, link, result>>
  BY DEF Client!RunLate, Client!client
<1>2. runs \in [Client!Call -> Nat] /\ orphans \in [Client!Call -> Nat]
  BY CallsFacts
<1>3. /\ orphans[d] > 0 /\ orphans' = [orphans EXCEPT ![d] = @ - 1]
      /\ runs' = runs \/ runs' = [runs EXCEPT ![d] = @ + 1]
  BY DEF Client!RunLate
<1>4. \A c \in Client!Call : runs'[c] \in Nat /\ runs[c] \in Nat /\ runs[c] <= runs'[c]
  BY <1>2, <1>3
<1>5. \A c \in Client!Call : owed(c)' \in Nat /\ owed(c)' <= owed(c)
  BY <1>1, <1>2, <1>3 DEF owed, asked
<1>6. RunsInv'
  BY <1>1, <1>5, RunsKept, CallsFacts
<1>7. WaitInv'
  BY <1>1 DEF CallsInv, WaitInv
<1>8. LinkInv'
  <2>1. link.resp # << >> => call \in Client!Call
    <3>1. link.resp \in Seq(Client!Call) /\ link.resp \in {<< >>, <<call>>, <<call, call>>}
      BY DEF CallsInv, LinkInv, Client!TypeOK, Client!Link
    <3>2. QED
      BY <3>1, Pieces
  <2>2. link.resp # << >> => runs'[call] > 0
    BY <1>4, <2>1 DEF CallsInv, LinkInv
  <2>3. QED
    BY <1>1, <2>2 DEF CallsInv, LinkInv, Client!noLink
<1>9. Client!AnswerIsOwn'
  BY <1>1, <1>4 DEF CallsInv, Client!AnswerIsOwn
<1>10. QED
  BY <1>6, <1>7, <1>8, <1>9 DEF CallsParts

LEMMA CallsStep == CallsInv /\ [Client!Next]_calls => CallsInv'
<1> SUFFICES ASSUME CallsInv, [Client!Next]_calls PROVE CallsInv'
  OBVIOUS
<1>1. CASE Client!Next
  <2>1. Client!TypeOK'
    BY <1>1, CallsTypes
  <2>2. CallsParts'
    BY <1>1, CallsNext, ExecuteKeeps, CloseKeeps, WriteKeeps, FailureKeeps, ReadKeeps,
       RetryKeeps, ServeForm, ServeKeeps, RunLateKeeps DEF CallsActions
  <2>3. QED
    BY <2>1, <2>2 DEF CallsInv, CallsParts
<1>2. CASE UNCHANGED calls
  BY <1>2 DEF calls, CallsInv, Client!TypeOK, WaitInv, LinkInv, RunsInv, owed, asked,
     Client!AnswerIsOwn
<1>3. QED
  BY <1>1, <1>2

(* The count of the property is that of the invariant.                       *)
LEMMA CallsAreSound == CallsInv => Client!AnswersSound /\ Client!AtMostTwice
<1> SUFFICES ASSUME CallsInv PROVE Client!AnswersSound /\ Client!AtMostTwice
  OBVIOUS
<1>1. Client!AnswersSound
  BY DEF CallsInv, Client!AnswersSound
<1>2. ASSUME NEW c \in Client!Call PROVE Client!due(c) = owed(c)
  <2>1. link.queue \in {<< >>, <<call>>} /\ link.queue \in Seq(Client!Call)
    BY DEF CallsInv, LinkInv, Client!TypeOK, Client!Link
  <2> DEFINE P == {i \in DOMAIN link.queue : link.queue[i] = c}
  <2>2. Cardinality(P) = asked(c)
    <3>1. CASE link.queue = << >>
      <4>1. P = {}
        BY <3>1
      <4>2. QED
        BY <3>1, <4>1, FS_EmptySet DEF asked
    <3>2. CASE link.queue = <<call>> /\ c = call
      <4>1. P = {1} /\ link.queue # << >>
        BY <3>2, Pieces
      <4>2. QED
        BY <3>2, <4>1, FS_Singleton DEF asked
    <3>3. CASE link.queue = <<call>> /\ c # call
      <4>1. P = {}
        BY <3>3, Pieces
      <4>2. QED
        BY <3>3, <4>1, FS_EmptySet DEF asked
    <3>4. QED
      BY <2>1, <3>1, <3>2, <3>3
  <2>3. Client!due(c) = runs[c] + orphans[c] + Cardinality(P)
    BY DEF Client!due, Client!Cardinality, Cardinality
  <2>4. QED
    <3> HIDE DEF P
    <3>1. QED
      BY <2>2, <2>3 DEF owed
<1>3. Client!AtMostTwice
  BY <1>2 DEF CallsInv, RunsInv, Client!AtMostTwice
<1>4. QED
  BY <1>1, <1>3

(* -------------------- the bytes ------------------------------------------ *)

(* A piece of a sequence, from the place after a on.                         *)
LEMMA PieceOf ==
  ASSUME NEW S, NEW s, NEW a \in Nat, NEW n \in Nat, \A i \in a + 1 .. a + n : s[i] \in S
  PROVE  /\ SubSeq(s, a + 1, a + n) \in Seq(S) /\ Len(SubSeq(s, a + 1, a + n)) = n
         /\ \A i \in 1 .. n : SubSeq(s, a + 1, a + n)[i] = s[a + i]
<1> DEFINE t == SubSeq(s, a + 1, a + n)
<1>1. a + 1 \in Int /\ a + n \in Int
  OBVIOUS
<1>2. /\ t \in Seq(S) /\ Len(t) = IF a + 1 <= a + n THEN a + n - (a + 1) + 1 ELSE 0
      /\ \A i \in 1 .. a + n - (a + 1) + 1 : t[i] = s[a + 1 + i - 1]
  BY <1>1, SubSeqProperties
<1>3. Len(t) = n
  BY <1>2
<1>4. ASSUME NEW i \in 1 .. n PROVE t[i] = s[a + i]
  <2>1. i \in 1 .. a + n - (a + 1) + 1 /\ a + 1 + i - 1 = a + i
    OBVIOUS
  <2>2. QED
    BY <1>2, <2>1
<1>5. QED
  BY <1>2, <1>3, <1>4

(* The bytes between the ends and those that have come out, by the place in  *)
(* the text each of them has. After a reset nothing is on its way.           *)
BytesInv ==
  /\ conn \in {"none", "pending", "up", "shut", "reset"}
  /\ bytesSoFar \in 0 .. Length
  /\ received \in Seq(Nat) /\ channel \in Seq(Nat)
  /\ \A i \in 1 .. Len(received) : received[i] = i
  /\ \A i \in 1 .. Len(channel) : channel[i] = Len(received) + i
  /\ IF conn = "reset" THEN channel = << >> /\ Len(received) <= bytesSoFar
                       ELSE Len(received) + Len(channel) = bytesSoFar
  /\ conn = "shut" => bytesSoFar = Length
  /\ eof => Len(received) = Length

LEMMA BytesInit == Socket!Init => BytesInv
BY ClientAssumption, EmptySeq DEF Socket!Init, BytesInv

SocketForm ==
  /\ received' = received
  /\ \/ /\ UNCHANGED <<bytesSoFar, channel>> /\ (eof' => eof)
        /\ \/ conn' = conn
           \/ conn \in {"none", "pending"} /\ conn' \in {"up", "pending"}
           \/ conn' = "shut" /\ conn = "up" /\ bytesSoFar = Length
     \/ /\ conn' = "reset" /\ channel' = << >> /\ UNCHANGED <<bytesSoFar, eof>>
     \/ /\ conn = "shut" /\ channel = << >> /\ UNCHANGED <<conn, bytesSoFar, channel>>

LEMMA SocketSteps ==
  Socket!Next => SocketForm \/ Socket!send \/ Socket!recv
BY DEF Socket!Next, SocketForm, Socket!connect, Socket!Connected, Socket!Lost, Socket!close,
   Socket!nbWrite, Socket!sendBlocks, Socket!sendFails, Socket!nbRead, Socket!recvEnds,
   Socket!recvBlocks, Socket!recvFails, Socket!reading, Socket!writing

LEMMA SendKeeps ==
  ASSUME BytesInv, Socket!send
  PROVE  BytesInv'
<1>1. PICK n \in 1 .. Length - bytesSoFar :
        /\ channel' = channel \o SubSeq(Socket!s, bytesSoFar + 1, bytesSoFar + n)
        /\ bytesSoFar' = bytesSoFar + n
  BY DEF Socket!send
<1>2. conn = "up" /\ UNCHANGED <<conn, received, eof>>
  BY DEF Socket!send, Socket!reading
<1>3. /\ Length \in Nat /\ bytesSoFar \in 0 .. Length /\ n \in Nat \ {0}
      /\ bytesSoFar + n <= Length
      /\ Len(received) \in Nat /\ Len(channel) \in Nat
      /\ Len(received) + Len(channel) = bytesSoFar
      /\ received \in Seq(Nat) /\ channel \in Seq(Nat)
  BY <1>2, ClientAssumption, LenProperties DEF BytesInv
<1> DEFINE t == SubSeq(Socket!s, bytesSoFar + 1, bytesSoFar + n)
<1>4. t \in Seq(Nat) /\ Len(t) = n /\ \A i \in 1 .. n : t[i] = bytesSoFar + i
  <2>1. \A i \in bytesSoFar + 1 .. bytesSoFar + n : Socket!s[i] = i /\ Socket!s[i] \in Nat
    BY <1>3 DEF Socket!s
  <2>2. bytesSoFar \in Nat /\ n \in Nat
    BY <1>3
  <2>3. t \in Seq(Nat) /\ Len(t) = n /\ \A i \in 1 .. n : t[i] = Socket!s[bytesSoFar + i]
    BY <2>1, <2>2, PieceOf
  <2>4. ASSUME NEW i \in 1 .. n PROVE t[i] = bytesSoFar + i
    <3>1. bytesSoFar + i \in bytesSoFar + 1 .. bytesSoFar + n
      BY <1>3
    <3>2. QED
      BY <2>1, <2>3, <3>1
  <2>5. QED
    BY <2>3, <2>4
<1>5. /\ channel' \in Seq(Nat) /\ Len(channel') = Len(channel) + n
      /\ \A i \in 1 .. Len(channel) + n :
           channel'[i] = IF i <= Len(channel) THEN channel[i] ELSE t[i - Len(channel)]
  <2>1. channel' = channel \o t
    BY <1>1
  <2>2. QED
    <3> HIDE DEF t
    <3>1. QED
      BY <1>3, <1>4, <2>1, ConcatProperties
<1>6. ASSUME NEW i \in 1 .. Len(channel') PROVE channel'[i] = Len(received') + i
  <2> HIDE DEF t
  <2>1. i \in 1 .. Len(channel) + n
    BY <1>5
  <2>2. CASE i <= Len(channel)
    <3>1. channel'[i] = channel[i] /\ i \in 1 .. Len(channel)
      BY <1>3, <1>5, <2>1, <2>2
    <3>2. channel[i] = Len(received) + i
      BY <3>1 DEF BytesInv
    <3>3. QED
      BY <1>2, <3>1, <3>2
  <2>3. CASE i > Len(channel)
    <3>1. i - Len(channel) \in 1 .. n
      BY <1>3, <2>1, <2>3
    <3>2. channel'[i] = bytesSoFar + (i - Len(channel))
      BY <1>3, <1>4, <1>5, <2>1, <2>3, <3>1
    <3>3. QED
      BY SMTT(30), <1>2, <1>3, <2>1, <3>2
  <2>4. QED
    BY <1>3, <2>1, <2>2, <2>3
<1>7. /\ bytesSoFar' \in 0 .. Length /\ Len(received') + Len(channel') = bytesSoFar'
      /\ conn' = "up" /\ received' = received /\ eof' = eof
  <2> DEFINE k == Len(channel')
  <2>1. /\ k = Len(channel) + n /\ bytesSoFar' = bytesSoFar + n
        /\ conn' = "up" /\ received' = received /\ eof' = eof
    BY <1>1, <1>2, <1>5
  <2>2. Len(received) + k = bytesSoFar' /\ bytesSoFar' \in 0 .. Length
    <3> HIDE DEF k
    <3>1. QED
      BY SMTT(30), <1>3, <2>1
  <2>3. QED
    BY <2>1, <2>2
<1>8. QED
  BY <1>3, <1>5, <1>6, <1>7 DEF BytesInv

LEMMA RecvKeeps ==
  ASSUME BytesInv, Socket!recv
  PROVE  BytesInv'
<1>1. PICK n \in 1 .. ReadSize :
        /\ n <= Len(channel)
        /\ received' = received \o SubSeq(channel, 1, n)
        /\ channel' = SubSeq(channel, n + 1, Len(channel))
  BY DEF Socket!recv
<1>2. ~ eof /\ UNCHANGED <<conn, bytesSoFar, eof>>
  BY DEF Socket!recv, Socket!writing
<1>3. /\ Length \in Nat /\ bytesSoFar \in 0 .. Length /\ n \in Nat \ {0}
      /\ Len(received) \in Nat /\ Len(channel) \in Nat
      /\ received \in Seq(Nat) /\ channel \in Seq(Nat)
      /\ Len(received) + Len(channel) = bytesSoFar /\ conn # "reset"
  BY <1>1, ClientAssumption, LenProperties, EmptySeq DEF BytesInv
<1> DEFINE t == SubSeq(channel, 1, n)
<1>4. t \in Seq(Nat) /\ Len(t) = n /\ \A i \in 1 .. n : t[i] = channel[i]
  <2>1. \A i \in 1 .. n : channel[i] \in Nat
    BY <1>1, <1>3
  <2>2. /\ t \in Seq(Nat) /\ Len(t) = IF 1 <= n THEN n - 1 + 1 ELSE 0
        /\ \A i \in 1 .. n - 1 + 1 : t[i] = channel[1 + i - 1]
    BY <1>3, <2>1, SubSeqProperties
  <2>3. QED
    <3> HIDE DEF t
    <3>1. QED
      BY <1>3, <2>2
<1>5. /\ channel' \in Seq(Nat) /\ Len(channel') = Len(channel) - n
      /\ \A i \in 1 .. Len(channel) - n : channel'[i] = channel[n + i]
  <2>1. \A i \in n + 1 .. Len(channel) : channel[i] \in Nat
    BY <1>1, <1>3
  <2>2. n + (Len(channel) - n) = Len(channel) /\ Len(channel) - n \in Nat /\ n \in Nat
    BY <1>1, <1>3
  <2>3. ASSUME NEW k \in Nat, k = Len(channel) - n
        PROVE  /\ channel' \in Seq(Nat) /\ Len(channel') = k
               /\ \A i \in 1 .. k : channel'[i] = channel[n + i]
    <3>1. n \in Nat /\ n + k = Len(channel) /\ channel' = SubSeq(channel, n + 1, n + k)
      BY <1>1, <2>2, <2>3
    <3>2. \A i \in n + 1 .. n + k : channel[i] \in Nat
      BY <2>1, <3>1
    <3>3. QED
      BY <3>1, <3>2, PieceOf
  <2>4. QED
    BY <2>2, <2>3
<1>6. /\ received' \in Seq(Nat) /\ Len(received') = Len(received) + n
      /\ \A i \in 1 .. Len(received) + n :
           received'[i] = IF i <= Len(received) THEN received[i] ELSE t[i - Len(received)]
  <2>1. received' = received \o t
    BY <1>1
  <2>2. QED
    <3> HIDE DEF t
    <3>1. QED
      BY <1>3, <1>4, <2>1, ConcatProperties
<1>7. \A i \in 1 .. Len(received') : received'[i] = i
  <2> HIDE DEF t
  <2>1. QED
    BY <1>1, <1>3, <1>4, <1>6 DEF BytesInv
<1>8. \A i \in 1 .. Len(channel') : channel'[i] = Len(received') + i
  BY <1>1, <1>3, <1>5, <1>6 DEF BytesInv
<1>9. Len(received') + Len(channel') = bytesSoFar'
  <2> DEFINE k == Len(received')
             l == Len(channel')
  <2>1. k = Len(received) + n /\ l = Len(channel) - n /\ bytesSoFar' = bytesSoFar
    BY <1>2, <1>5, <1>6
  <2>2. k + l = bytesSoFar'
    <3> HIDE DEF k, l
    <3>1. QED
      BY SMTT(30), <1>3, <2>1
  <2>3. QED
    BY <2>2
<1>10. QED
  BY <1>2, <1>3, <1>5, <1>6, <1>7, <1>8, <1>9 DEF BytesInv

LEMMA BytesStep == BytesInv /\ [Socket!Next]_bytes => BytesInv'
<1> SUFFICES ASSUME BytesInv, [Socket!Next]_bytes PROVE BytesInv'
  OBVIOUS
<1>1. CASE Socket!Next
  <2>1. CASE SocketForm
    <3>1. /\ received \in Seq(Nat) /\ Len(received) \in Nat /\ Length \in Nat
          /\ bytesSoFar \in 0 .. Length /\ Len(<< >>) = 0 /\ << >> \in Seq(Nat)
          /\ channel \in Seq(Nat) /\ Len(channel) \in Nat
      BY ClientAssumption, LenProperties, EmptySeq DEF BytesInv
    <3>2. CASE UNCHANGED <<received, bytesSoFar, channel>> /\ (eof' => eof)
               /\ \/ conn' = conn
                  \/ conn \in {"none", "pending"} /\ conn' \in {"up", "pending"}
                  \/ conn' = "shut" /\ conn = "up" /\ bytesSoFar = Length
      BY <3>2 DEF BytesInv
    <3>3. CASE UNCHANGED <<received, bytesSoFar, eof>> /\ conn' = "reset" /\ channel' = << >>
      <4>1. Len(received) <= bytesSoFar
        BY <3>1 DEF BytesInv
      <4>2. QED
        BY <3>1, <3>3, <4>1 DEF BytesInv
    <3>4. CASE conn = "shut" /\ channel = << >> /\ UNCHANGED <<received, conn, bytesSoFar, channel>>
      <4>1. Len(received) = Length
        BY <3>1, <3>4 DEF BytesInv
      <4>2. QED
        BY <3>1, <3>4, <4>1 DEF BytesInv
    <3>5. QED
      BY <2>1, <3>2, <3>3, <3>4 DEF SocketForm
  <2>2. QED
    BY <1>1, <2>1, SocketSteps, SendKeeps, RecvKeeps
<1>2. CASE UNCHANGED bytes
  BY <1>2 DEF bytes, BytesInv
<1>3. QED
  BY <1>1, <1>2

LEMMA BytesAreInOrder == BytesInv => BytesInOrder
<1> SUFFICES ASSUME BytesInv PROVE Socket!BytesInOrder
  BY DEF BytesInOrder
<1>1. /\ received \in Seq(Nat) /\ Len(received) \in Nat
      /\ channel \in Seq(Nat) /\ Len(channel) \in Nat
      /\ Length \in Nat /\ bytesSoFar \in 0 .. Length
  BY ClientAssumption, LenProperties DEF BytesInv
<1> DEFINE m == IF conn = "reset" THEN Len(received) ELSE bytesSoFar
           t == SubSeq(Socket!s, 1, m)
<1>2. m \in 0 .. Length /\ Len(received) + Len(channel) = m
  BY <1>1, EmptySeq DEF BytesInv
<1>3. t \in Seq(Nat) /\ Len(t) = m /\ \A i \in 1 .. m : t[i] = i
  <2> HIDE DEF m
  <2>1. \A i \in 1 .. m : Socket!s[i] = i /\ Socket!s[i] \in Nat
    BY <1>1, <1>2 DEF Socket!s
  <2>2. /\ t \in Seq(Nat) /\ Len(t) = IF 1 <= m THEN m - 1 + 1 ELSE 0
        /\ \A i \in 1 .. m - 1 + 1 : t[i] = Socket!s[1 + i - 1]
    BY <1>2, <2>1, SubSeqProperties
  <2>3. Len(t) = m
    BY <1>2, <2>2
  <2>4. ASSUME NEW i \in 1 .. m PROVE t[i] = i
    <3>1. i \in 1 .. m - 1 + 1 /\ 1 + i - 1 = i
      BY <1>2
    <3>2. t[i] = Socket!s[i]
      <4> HIDE DEF t
      <4>1. QED
        BY <2>2, <3>1
    <3>3. QED
      BY <2>1, <3>2
  <2>5. QED
    BY <2>2, <2>3, <2>4
<1>4. received \o channel = t
  <2> DEFINE u == received \o channel
  <2>1. /\ u \in Seq(Nat) /\ Len(u) = Len(received) + Len(channel)
        /\ \A i \in 1 .. Len(received) + Len(channel) :
             u[i] = IF i <= Len(received) THEN received[i] ELSE channel[i - Len(received)]
    BY <1>1, ConcatProperties
  <2> HIDE DEF u, t, m
  <2>2. ASSUME NEW i \in 1 .. m PROVE u[i] = i
    <3>1. CASE i <= Len(received)
      <4>1. i \in 1 .. Len(received) /\ u[i] = received[i]
        BY <1>1, <1>2, <2>1, <3>1
      <4>2. QED
        BY <4>1 DEF BytesInv
    <3>2. CASE i > Len(received)
      <4>1. i - Len(received) \in 1 .. Len(channel) /\ u[i] = channel[i - Len(received)]
        BY <1>1, <1>2, <2>1, <3>2
      <4>2. channel[i - Len(received)] = Len(received) + (i - Len(received))
        BY <4>1 DEF BytesInv
      <4>3. QED
        BY <1>1, <1>2, <4>1, <4>2
    <3>3. QED
      BY <1>1, <1>2, <3>1, <3>2
  <2>3. Len(u) = Len(t) /\ \A i \in 1 .. Len(u) : u[i] = t[i]
    BY <1>2, <1>3, <2>1, <2>2
  <2>4. u = t
    BY <1>3, <2>1, <2>3, SeqEqual
  <2>5. QED
    BY <2>4 DEF u
<1>5. eof => received = Socket!s
  <2>1. SUFFICES ASSUME eof PROVE received = Socket!s
    OBVIOUS
  <2>2. /\ received = [i \in 1 .. Length |-> received[i]]
        /\ \A i \in 1 .. Length : received[i] = i
    BY <1>1, <2>1, LenProperties DEF BytesInv
  <2>3. QED
    BY <2>2 DEF Socket!s
<1>6. QED
  BY <1>4, <1>5 DEF Socket!BytesInOrder

(* -------------------- the theorems --------------------------------------- *)

LEMMA AllInvariant == AllSpec => []CallsInv /\ []BytesInv
<1>1. AllInit => CallsInv /\ BytesInv
  BY CallsInit, BytesInit DEF AllInit
<1>2. [AllNext]_AllVars => [Client!Next]_calls /\ [Socket!Next]_bytes
  BY DEF AllNext, AllVars
<1>3. CallsInv /\ [AllNext]_AllVars => CallsInv'
  BY <1>2, CallsStep
<1>4. BytesInv /\ [AllNext]_AllVars => BytesInv'
  BY <1>2, BytesStep
<1>5. QED
  BY <1>1, <1>3, <1>4, PTL DEF AllSpec

(* Whatever the server, the connection and the retry of execute do, a call   *)
(* that succeeds returns the answer to its own request; the method of a call *)
(* is run twice at most, and once at most if the call was not retried.       *)
THEOREM CallsStaySound == AllSpec => []CallsSound
<1>1. CallsInv => CallsSound
  BY CallsAreSound DEF CallsSound
<1>2. QED
  BY <1>1, AllInvariant, PTL

(* However send and recv split the text, block and are interrupted, what     *)
(* comes out of a connection is the beginning of what went in, and the end   *)
(* of it is reported only to one who has received all.                       *)
THEOREM BytesStayInOrder == AllSpec => []BytesInOrder
<1>1. QED
  BY AllInvariant, BytesAreInOrder, PTL

=============================================================================
