------------------------- MODULE XmlRpcServer_proofs -------------------------
(* Theorems about the server's list of sources, its sockets and its         *)
(* responses, for any number of connections, sockets and waiting clients.   *)
EXTENDS XmlRpcServer, FiniteSetTheorems, SequenceTheorems, TLAPS

listed(s) == \E i \in 1 .. Len(sources) : sources[i] = s

(* The list, the objects and the sockets agree, in the form that the steps   *)
(* keep: no source is listed twice, and the listed ones are those with a     *)
(* socket, which is theirs alone. While the server listens it comes first.   *)
ListInv ==
  /\ \A i, j \in 1 .. Len(sources) : sources[i] = sources[j] => i = j
  /\ \A s \in Source : listed(s) <=> fd[s] # -1
  /\ \A s, t \in Source : fd[s] = fd[t] /\ fd[s] # -1 => s = t
  /\ \A c \in Conn : exists(c) <=> fd[c] # -1
  /\ Len(sources) > 0 => sources[1] = Server
  /\ phase = "select" => Len(sources) > 0
  /\ phase = "pass" => it = End \/ listed(it)

(* During a pass the sockets that select reported belong to the sources it   *)
(* reported. None of them has been closed when the server, which comes first *)
(* and alone gives out numbers, is visited.                                  *)
PassInv ==
  phase = "pass" =>
    /\ \A s \in Source : fd[s] \in ready => s \in selected
    /\ it = Server => \A f \in ready : \E s \in Source : fd[s] = f

(* What a connection knows of its request and its response. There is more to *)
(* write of a response as long as it is kept, and its request was run once.  *)
ConnOK(k) ==
  /\ k.sent >= 2 => k.kind \in Kind
  /\ k.size # 0 => k.written < k.size
  /\ k.size = 0 => k.runs = 0
  /\ k.runs <= 1
  /\ k.state \in {"READ_REQUEST", "WRITE_RESPONSE"} =>
       /\ k.sent >= 2
       /\ k.kind # "bad"
       /\ k.keepAlive <=> k.kind = "keep"

ConnInv == \A c \in Conn : ConnOK(conn[c])

IInv == TypeOK /\ ListInv /\ PassInv /\ ConnInv /\ WholeResponse

------------------------------------------------------------------------------
(* What erasing one element of a sequence leaves.                           *)
LEMMA Erased ==
  ASSUME NEW S, NEW q \in Seq(S), NEW p \in 1 .. Len(q)
  PROVE  /\ RemoveAt(q, p) \in Seq(S)
         /\ Len(RemoveAt(q, p)) = Len(q) - 1
         /\ \A i \in 1 .. Len(q) - 1 :
              RemoveAt(q, p)[i] = IF i < p THEN q[i] ELSE q[i + 1]
<1> DEFINE front == SubSeq(q, 1, p - 1)
           back == SubSeq(q, p + 1, Len(q))
<1>1. Len(q) \in Nat /\ p \in 1 .. Len(q) /\ \A i \in 1 .. Len(q) : q[i] \in S
  BY LenProperties
<1>2. front \in Seq(S) /\ Len(front) = p - 1 /\ \A i \in 1 .. p - 1 : front[i] = q[i]
  <2>1. 1 \in Int /\ p - 1 \in Int /\ \A i \in 1 .. p - 1 : q[i] \in S
    BY <1>1
  <2>2. /\ front \in Seq(S)
        /\ Len(front) = IF 1 <= p - 1 THEN (p - 1) - 1 + 1 ELSE 0
        /\ \A i \in 1 .. (p - 1) - 1 + 1 : front[i] = q[1 + i - 1]
    BY <2>1, SubSeqProperties
  <2> HIDE DEF front
  <2> QED BY <1>1, <2>2
<1>3. back \in Seq(S) /\ Len(back) = Len(q) - p /\ \A i \in 1 .. Len(q) - p : back[i] = q[p + i]
  <2>1. p + 1 \in Int /\ Len(q) \in Int /\ \A i \in p + 1 .. Len(q) : q[i] \in S
    BY <1>1
  <2>2. /\ back \in Seq(S)
        /\ Len(back) = IF p + 1 <= Len(q) THEN Len(q) - (p + 1) + 1 ELSE 0
        /\ \A i \in 1 .. Len(q) - (p + 1) + 1 : back[i] = q[p + 1 + i - 1]
    BY <2>1, SubSeqProperties
  <2> HIDE DEF back
  <2> QED BY <1>1, <2>2
<1>4. RemoveAt(q, p) = front \o back
  BY DEF RemoveAt
<1> HIDE DEF front, back
<1>5. /\ front \o back \in Seq(S)
      /\ Len(front \o back) = Len(front) + Len(back)
      /\ \A i \in 1 .. Len(front) + Len(back) :
           (front \o back)[i] = IF i <= Len(front) THEN front[i] ELSE back[i - Len(front)]
  BY <1>2, <1>3, ConcatProperties
<1>6. ASSUME NEW i \in 1 .. Len(q) - 1
      PROVE  (front \o back)[i] = IF i < p THEN q[i] ELSE q[i + 1]
  <2>1. i \in 1 .. Len(front) + Len(back)
    BY <1>1, <1>2, <1>3
  <2>2. CASE i < p
    BY <1>1, <1>2, <1>5, <2>1, <2>2
  <2>3. CASE ~ (i < p)
    <3>1. i - (p - 1) \in 1 .. Len(q) - p /\ p + (i - (p - 1)) = i + 1 /\ ~ (i <= p - 1)
      BY <1>1, <2>3
    <3> QED BY <1>2, <1>3, <1>5, <2>1, <2>3, <3>1
  <2> QED BY <2>2, <2>3
<1>7. Len(front) + Len(back) = Len(q) - 1
  BY <1>1, <1>2, <1>3
<1> QED BY <1>4, <1>5, <1>6, <1>7

(* Where a listed source stands.                                            *)
LEMMA PositionOf ==
  ASSUME NEW s, listed(s)
  PROVE  position(s) \in 1 .. Len(sources) /\ sources[position(s)] = s
BY DEF listed, position

(* The iterator moves from a listed source to another one, which is not the *)
(* server, or to the end.                                                   *)
LEMMA MovesOn ==
  ASSUME TypeOK, ListInv, NEW s, listed(s)
  PROVE  after(s) = End \/ (listed(after(s)) /\ after(s) # Server /\ after(s) # s)
<1>1. position(s) \in 1 .. Len(sources) /\ sources[position(s)] = s
  BY PositionOf
<1>2. Len(sources) \in Nat
  BY LenProperties DEF TypeOK
<1>3. CASE position(s) < Len(sources)
  <2>1. position(s) + 1 \in 1 .. Len(sources) /\ position(s) + 1 # 1
    BY <1>1, <1>2, <1>3
  <2>2. 1 \in 1 .. Len(sources)
    BY <1>1, <1>2
  <2>3. after(s) = sources[position(s) + 1]
    BY <1>3 DEF after
  <2> QED BY <1>1, <1>2, <2>1, <2>2, <2>3 DEF ListInv, listed
<1>4. CASE ~ (position(s) < Len(sources))
  BY <1>4 DEF after
<1> QED BY <1>3, <1>4

(* The list after a connection is erased from it.                           *)
LEMMA Unlisted ==
  ASSUME TypeOK, ListInv, NEW c \in Conn, listed(c), remove(c)
  PROVE  /\ sources' \in Seq(Source)
         /\ \A i, j \in 1 .. Len(sources') : sources'[i] = sources'[j] => i = j
         /\ \A s \in Source : listed(s)' <=> listed(s) /\ s # c
         /\ Len(sources') > 0
         /\ sources'[1] = Server
<1> DEFINE p == position(c)
           n == Len(sources)
<1>1. p \in 1 .. n /\ sources[p] = c
  BY PositionOf
<1>2. n \in Nat /\ sources \in Seq(Source)
  BY LenProperties DEF TypeOK
<1>3. /\ sources' \in Seq(Source)
      /\ Len(sources') = n - 1
      /\ \A i \in 1 .. n - 1 : sources'[i] = IF i < p THEN sources[i] ELSE sources[i + 1]
  BY <1>1, <1>2, Erased DEF remove
<1>4. sources[1] = Server /\ c # Server /\ p # 1
  BY <1>1, <1>2, ServerAssumption DEF ListInv
<1> HIDE DEF p
<1>5. ASSUME NEW i \in 1 .. Len(sources'), NEW j \in 1 .. Len(sources'), sources'[i] = sources'[j]
      PROVE  i = j
  <2> DEFINE old(k) == IF k < p THEN k ELSE k + 1
  <2>1. /\ old(i) \in 1 .. n /\ sources'[i] = sources[old(i)]
        /\ old(j) \in 1 .. n /\ sources'[j] = sources[old(j)]
    BY <1>1, <1>2, <1>3
  <2>2. old(i) = old(j)
    BY <1>5, <2>1 DEF ListInv
  <2> QED BY <1>1, <1>2, <1>3, <2>2
<1>6. ASSUME NEW s \in Source PROVE listed(s)' <=> listed(s) /\ s # c
  <2>1. ASSUME NEW i \in 1 .. Len(sources'), sources'[i] = s
        PROVE  listed(s) /\ s # c
    <3> DEFINE k == IF i < p THEN i ELSE i + 1
    <3>1. k \in 1 .. n /\ k # p /\ sources[k] = s
      BY <1>1, <1>2, <1>3, <2>1
    <3> HIDE DEF k
    <3> QED BY <1>1, <3>1 DEF listed, ListInv
  <2>2. ASSUME NEW k \in 1 .. n, sources[k] = s, s # c
        PROVE  listed(s)'
    <3> DEFINE i == IF k < p THEN k ELSE k - 1
    <3>1. i \in 1 .. Len(sources') /\ sources'[i] = s
      BY <1>1, <1>2, <1>3, <2>2
    <3> HIDE DEF i
    <3> QED BY <3>1 DEF listed
  <2> QED BY <2>1, <2>2 DEF listed
<1> QED BY <1>1, <1>2, <1>3, <1>4, <1>5, <1>6

(* The list after a source is added at its end.                             *)
LEMMA Appended ==
  ASSUME TypeOK, ListInv, NEW t \in Source, ~ listed(t), sources' = Append(sources, t)
  PROVE  /\ sources' \in Seq(Source)
         /\ \A i, j \in 1 .. Len(sources') : sources'[i] = sources'[j] => i = j
         /\ \A s \in Source : listed(s)' <=> listed(s) \/ s = t
         /\ Len(sources') > 0
         /\ Len(sources) > 0 => sources'[1] = Server
         /\ Len(sources) = 0 => sources'[1] = t
<1> DEFINE n == Len(sources)
<1>1. n \in Nat /\ sources \in Seq(Source)
  BY LenProperties DEF TypeOK
<1>2. /\ sources' \in Seq(Source)
      /\ Len(sources') = n + 1
      /\ \A i \in 1 .. n : sources'[i] = sources[i]
      /\ sources'[n + 1] = t
  BY <1>1, AppendProperties
<1>3. \A i \in 1 .. n : sources[i] # t
  BY DEF listed
<1>4. \A i \in 1 .. n + 1 : i \in 1 .. n \/ i = n + 1
  BY <1>1
<1>5. ASSUME NEW i \in 1 .. Len(sources'), NEW j \in 1 .. Len(sources'), sources'[i] = sources'[j]
      PROVE  i = j
  BY <1>2, <1>3, <1>4, <1>5 DEF ListInv
<1>6. ASSUME NEW s \in Source PROVE listed(s)' <=> listed(s) \/ s = t
  <2>1. n + 1 \in 1 .. n + 1 /\ \A i \in 1 .. n : i \in 1 .. n + 1
    BY <1>1
  <2> QED BY <1>2, <1>4, <2>1 DEF listed
<1> QED BY <1>1, <1>2, <1>5, <1>6 DEF ListInv

------------------------------------------------------------------------------
(* A source whose socket select reported, and that is visited, is listed.    *)
LEMMA VisitedIsListed ==
  ASSUME TypeOK, ListInv, NEW s \in Source, visiting(s)
  PROVE  listed(s) /\ it = s /\ phase = "pass"
BY ServerAssumption DEF visiting, TypeOK, ListInv

(* Where the iterator goes has its type.                                     *)
LEMMA AfterIsSource ==
  ASSUME TypeOK, ListInv, NEW s, listed(s)
  PROVE  after(s) \in Source \cup {End}
<1>1. ASSUME NEW t, listed(t) PROVE t \in Source
  BY <1>1, LenProperties DEF listed, TypeOK
<1> QED BY <1>1, MovesOn

(* A new connection, and none.                                               *)
LEMMA NewTyped == accepted \in Connection /\ none \in Connection
<1>1. accepted \in Connection
  BY DEF accepted, Connection
<1>2. \A r \in Connection : [r EXCEPT !.state = "none"] \in Connection
  BY DEF Connection
<1>3. none \in Connection
  BY <1>1, <1>2 DEF none
<1> QED BY <1>1, <1>3

(* Erasing a connection's source and destroying its object keeps the types.  *)
LEMMA DestroyTyped ==
  ASSUME TypeOK, ListInv, ConnInv, NEW c \in Conn, listed(c), remove(c),
         NEW unfinished \in BOOLEAN, destroy(c, unfinished),
         unfinished => conn[c].kind \in Kind
  PROVE  /\ sources' \in Seq(Source)
         /\ mask' \in [Source -> {"readable", "writable"}]
         /\ fd' \in [Source -> Fd \cup {-1}]
         /\ conn' \in [Conn -> Connection]
         /\ cut' \subseteq Kind
         /\ selected' \subseteq Source
<1>1. sources' \in Seq(Source)
  BY Unlisted
<1>2. none \in Connection
  BY NewTyped
<1>3. conn' \in [Conn -> Connection]
  BY <1>2 DEF destroy, TypeOK
<1>4. mask' \in [Source -> {"readable", "writable"}] /\ fd' \in [Source -> Fd \cup {-1}]
  BY DEF destroy, TypeOK
<1>5. cut' \subseteq Kind /\ selected' \subseteq Source
  BY DEF destroy, TypeOK
<1> QED BY <1>1, <1>3, <1>4, <1>5

(* Closing everything keeps the types.                                       *)
LEMMA CloseTyped ==
  ASSUME TypeOK, closeAll
  PROVE  /\ sources' \in Seq(Source)
         /\ mask' \in [Source -> {"readable", "writable"}]
         /\ fd' \in [Source -> Fd \cup {-1}]
         /\ conn' \in [Conn -> Connection]
         /\ backlog' \in 0 .. MaxBacklog
<1>1. none \in Connection
  BY NewTyped
<1>2. sources' \in Seq(Source)
  BY EmptySeq DEF closeAll
<1> QED BY <1>1, <1>2, ServerAssumption DEF closeAll, TypeOK

(* What the three outcomes of writing a response have in common: there is    *)
(* more to write, the response is whole, or the connection is closed.        *)
Outcome(c, n, w, ran, alive) ==
  /\ visiting(c)
  /\ conn[c].sent = 3
  /\ conn[c].kind \in Kind
  /\ w <= n
  /\ alive <=> conn[c].kind = "keep"
  /\ conn[c].kind # "bad"
  /\ it' = after(c)
  /\ doClear' \in BOOLEAN
  /\ deadline' \in {"never", "ahead", "passed"}
  /\ UNCHANGED <<phase, ready, backlog>>
  /\ \/ /\ alive /\ w < n
        /\ conn' = [conn EXCEPT ![c] = [conn[c] EXCEPT
             !.state = "WRITE_RESPONSE", !.got = 3, !.keepAlive = alive,
             !.size = n, !.written = w, !.unread = TRUE, !.runs = ran]]
        /\ mask' = [mask EXCEPT ![c] = "writable"]
        /\ UNCHANGED <<sources, fd, cut, selected>>
     \/ /\ alive
        /\ conn' = [conn EXCEPT ![c] = [accepted EXCEPT
             !.keepAlive = alive, !.written = w, !.peer = conn[c].peer, !.unread = TRUE]]
        /\ mask' = [mask EXCEPT ![c] = "readable"]
        /\ UNCHANGED <<sources, fd, cut, selected>>
     \/ ~ alive /\ remove(c) /\ destroy(c, w # n)

LEMMA OutcomeOfAnswer ==
  ASSUME TypeOK, ListInv, ConnInv, NEW c \in Conn, writeResponse(c)
  PROVE  \E n \in 1 .. 2, w \in 0 .. 2, ran \in 0 .. 1, alive \in BOOLEAN :
           Outcome(c, n, w, ran, alive)
<1> DEFINE k == conn[c]
           first == k.size = 0
           before == IF first THEN 0 ELSE k.written
           alive == IF k.state = "READ_HEADER" THEN k.kind = "keep" ELSE k.keepAlive
           now == IF k.unread THEN before ELSE before + 1
           ran == IF first THEN k.runs + 1 ELSE k.runs
<1>1. PICK n \in 1 .. 2, effect \in Effect : answer(c, n, effect, first, before)
  BY DEF writeResponse
<1>2. k \in Connection
  BY DEF TypeOK
<1>3. /\ visiting(c) /\ k.sent = 3
      /\ k.state = "READ_HEADER" => k.kind # "bad"
      /\ ~ first => n = k.size
      /\ it' = after(c)
      /\ doClear' = (doClear \/ effect = "shutdown")
      /\ deadline' = IF effect = "exit" THEN "passed" ELSE deadline
      /\ UNCHANGED <<phase, ready, backlog>>
  BY <1>1 DEF answer
<1>4. k.state \in {"READ_HEADER", "READ_REQUEST", "WRITE_RESPONSE"}
  <2>1. fd[c] # -1
    BY <1>3, ServerAssumption DEF visiting, TypeOK, Source
  <2> QED BY <1>2, <2>1 DEF ListInv, exists, Connection
<1>5. k.kind \in Kind /\ k.kind # "bad"
  BY <1>3, <1>4 DEF ConnInv, ConnOK
<1>6. alive <=> k.kind = "keep"
  BY <1>4 DEF ConnInv, ConnOK
<1>7. alive \in BOOLEAN
  BY <1>2 DEF Connection
<1>8. now \in 0 .. 2 /\ now <= n /\ ran \in 0 .. 1
  <2>1. k.written \in 0 .. 2 /\ k.size \in 0 .. 2 /\ k.runs \in Nat
    BY <1>2 DEF Connection
  <2>2. k.size # 0 => k.written < k.size
    BY DEF ConnInv, ConnOK
  <2>3. k.runs <= 1 /\ (k.size = 0 => k.runs = 0)
    BY DEF ConnInv, ConnOK
  <2>4. now \in {before, before + 1} /\ ran \in {k.runs, k.runs + 1} /\ (ran = k.runs + 1 => first)
    BY <2>1
  <2> HIDE DEF now, ran
  <2>5. CASE first
    BY <2>1, <2>3, <2>4, <2>5
  <2>6. CASE ~ first
    BY <1>3, <2>1, <2>2, <2>3, <2>4, <2>6
  <2> QED BY <2>5, <2>6
<1>9. doClear' \in BOOLEAN /\ deadline' \in {"never", "ahead", "passed"}
  BY <1>3 DEF TypeOK
<1>10. \/ /\ alive /\ now # n
          /\ conn' = [conn EXCEPT ![c] = [conn[c] EXCEPT
               !.state = "WRITE_RESPONSE", !.got = 3, !.keepAlive = alive,
               !.size = n, !.written = now, !.unread = TRUE, !.runs = ran]]
          /\ mask' = [mask EXCEPT ![c] = "writable"]
          /\ UNCHANGED <<sources, fd, cut, selected>>
       \/ /\ alive
          /\ conn' = [conn EXCEPT ![c] = [accepted EXCEPT
               !.keepAlive = alive, !.written = now, !.peer = conn[c].peer, !.unread = TRUE]]
          /\ mask' = [mask EXCEPT ![c] = "readable"]
          /\ UNCHANGED <<sources, fd, cut, selected>>
       \/ ~ alive /\ remove(c) /\ destroy(c, now # n)
  BY <1>1 DEF answer
<1>11. now # n => now < n
  BY <1>8
<1> HIDE DEF alive, now, ran
<1>12. Outcome(c, n, now, ran, alive)
  BY <1>3, <1>5, <1>6, <1>8, <1>9, <1>10, <1>11 DEF Outcome
<1> QED BY <1>7, <1>8, <1>12

(* A connection that goes on, with its types and what it knows.              *)
LEMMA OutcomeTyped ==
  ASSUME TypeOK, ListInv, ConnInv, NEW c \in Conn,
         NEW n \in 1 .. 2, NEW w \in 0 .. 2, NEW ran \in 0 .. 1, NEW alive \in BOOLEAN,
         Outcome(c, n, w, ran, alive)
  PROVE  /\ TypeOK'
         /\ \A d \in Conn : exists(d)' <=> exists(d) /\ (alive \/ d # c)
<1>1. conn[c] \in Connection /\ listed(c) /\ c \in Source
  BY VisitedIsListed DEF Outcome, TypeOK, Source
<1>2. it' \in Source \cup {End}
  BY <1>1, AfterIsSource DEF Outcome
<1>3. exists(c)
  BY <1>1 DEF ListInv
<1>4. CASE ~ alive
  <2>1. remove(c) /\ destroy(c, w # n)
    BY <1>4 DEF Outcome
  <2>2. /\ sources' \in Seq(Source)
        /\ mask' \in [Source -> {"readable", "writable"}]
        /\ fd' \in [Source -> Fd \cup {-1}]
        /\ conn' \in [Conn -> Connection]
        /\ cut' \subseteq Kind
        /\ selected' \subseteq Source
    BY <1>1, <2>1, DestroyTyped DEF Outcome
  <2>3. TypeOK'
    BY <1>2, <2>2 DEF Outcome, TypeOK
  <2>4. conn' = [conn EXCEPT ![c] = none] /\ none.state = "none"
    BY <2>1 DEF destroy, none, accepted
  <2> QED BY <1>4, <2>3, <2>4 DEF exists, TypeOK
<1>5. ASSUME alive, NEW r \in Connection, conn' = [conn EXCEPT ![c] = r], r.state # "none",
             mask' \in [Source -> {"readable", "writable"}],
             UNCHANGED <<sources, fd, cut, selected>>
      PROVE  /\ TypeOK'
             /\ \A d \in Conn : exists(d)' <=> exists(d) /\ (alive \/ d # c)
  <2>1. TypeOK'
    BY <1>2, <1>5 DEF Outcome, TypeOK
  <2> QED BY <1>3, <1>5, <2>1 DEF exists, TypeOK
<1>6. CASE /\ alive
           /\ conn' = [conn EXCEPT ![c] = [conn[c] EXCEPT
                !.state = "WRITE_RESPONSE", !.got = 3, !.keepAlive = alive,
                !.size = n, !.written = w, !.unread = TRUE, !.runs = ran]]
           /\ mask' = [mask EXCEPT ![c] = "writable"]
           /\ UNCHANGED <<sources, fd, cut, selected>>
  <2> DEFINE r == [conn[c] EXCEPT
                !.state = "WRITE_RESPONSE", !.got = 3, !.keepAlive = alive,
                !.size = n, !.written = w, !.unread = TRUE, !.runs = ran]
  <2>1. ran \in Nat /\ n \in 0 .. 2
    OBVIOUS
  <2>2. r \in Connection
    <3>1. \A q \in Connection : [q EXCEPT !.state = "WRITE_RESPONSE"] \in Connection
      BY DEF Connection
    <3>2. \A q \in Connection : [q EXCEPT !.got = 3] \in Connection
      BY DEF Connection
    <3>3. \A q \in Connection : [q EXCEPT !.keepAlive = alive, !.size = n] \in Connection
      BY <2>1 DEF Connection
    <3>4. \A q \in Connection : [q EXCEPT !.written = w, !.unread = TRUE, !.runs = ran] \in Connection
      BY <2>1 DEF Connection
    <3> QED BY <1>1, <3>1, <3>2, <3>3, <3>4
  <2>3. r.state = "WRITE_RESPONSE"
    BY <1>1 DEF Connection
  <2>4. mask' \in [Source -> {"readable", "writable"}]
    BY <1>6 DEF TypeOK
  <2> QED BY <1>5, <1>6, <2>2, <2>3, <2>4
<1>7. CASE /\ alive
           /\ conn' = [conn EXCEPT ![c] = [accepted EXCEPT
                !.keepAlive = alive, !.written = w, !.peer = conn[c].peer, !.unread = TRUE]]
           /\ mask' = [mask EXCEPT ![c] = "readable"]
           /\ UNCHANGED <<sources, fd, cut, selected>>
  <2> DEFINE r == [accepted EXCEPT
                !.keepAlive = alive, !.written = w, !.peer = conn[c].peer, !.unread = TRUE]
  <2>1. conn[c].peer \in {"open", "shut", "reset"} /\ accepted.state = "READ_HEADER"
    BY <1>1 DEF Connection, accepted
  <2>2. r \in Connection /\ r.state # "none"
    BY <2>1, NewTyped DEF Connection
  <2>3. mask' \in [Source -> {"readable", "writable"}]
    BY <1>7 DEF TypeOK
  <2> QED BY <1>5, <1>7, <2>2, <2>3
<1> QED BY <1>4, <1>6, <1>7 DEF Outcome

(* What the steps of clients, and of a handler that reads on, change of a    *)
(* connection.                                                               *)
LEMMA ReadsOn ==
  ASSUME TypeOK, ListInv, ConnInv, NEW c \in Conn, HandlerReadsOn(c)
  PROVE  \E r \in Connection :
           /\ conn' = [conn EXCEPT ![c] = r]
           /\ r.sent = conn[c].sent /\ r.kind = conn[c].kind
           /\ r.size = conn[c].size /\ r.written = conn[c].written
           /\ r.runs = conn[c].runs
           /\ r.state \in {"READ_HEADER", "READ_REQUEST"}
           /\ r.state = "READ_REQUEST" =>
                /\ r.sent >= 2 /\ r.kind # "bad"
                /\ r.keepAlive <=> r.kind = "keep"
<1> DEFINE k == conn[c]
           s == IF k.sent = 2 THEN "READ_REQUEST" ELSE k.state
           a == IF k.sent = 2 THEN k.kind = "keep" ELSE k.keepAlive
           r == [k EXCEPT !.got = k.sent, !.state = s, !.keepAlive = a]
<1>1. /\ k \in Connection /\ k.sent \in 0 .. 3 /\ k.state # "none"
      /\ k.state \in {"READ_HEADER", "READ_REQUEST"}
      /\ k.sent < 3 /\ (k.state = "READ_HEADER" /\ k.sent = 2 => k.kind # "bad")
  <2>1. k \in Connection
    BY DEF TypeOK
  <2>2. k.state # "none"
    BY VisitedIsListed DEF HandlerReadsOn, ListInv, exists, Source
  <2> QED BY <2>1, <2>2 DEF Connection, HandlerReadsOn
<1>2. s \in {"READ_HEADER", "READ_REQUEST"} /\ a \in BOOLEAN
  BY <1>1 DEF Connection
<1>3. /\ r \in Connection
      /\ r.sent = k.sent /\ r.kind = k.kind /\ r.size = k.size /\ r.written = k.written
      /\ r.runs = k.runs /\ r.state = s /\ r.keepAlive = a
  <2> HIDE DEF s, a
  <2>1. \A q \in Connection : [q EXCEPT !.got = k.sent] \in Connection
    BY <1>1 DEF Connection
  <2>2. \A q \in Connection : [q EXCEPT !.state = s, !.keepAlive = a] \in Connection
    BY <1>2 DEF Connection
  <2>3. r \in Connection
    BY <1>1, <2>1, <2>2
  <2> QED BY <1>1, <2>3 DEF Connection
<1>4. conn' = [conn EXCEPT ![c] = r]
  BY DEF HandlerReadsOn, TypeOK
<1>5. s = "READ_REQUEST" => k.sent >= 2 /\ k.kind # "bad" /\ (a <=> k.kind = "keep")
  BY <1>1 DEF ConnInv, ConnOK
<1> HIDE DEF r, s, a
<1> QED BY <1>2, <1>3, <1>4, <1>5

LEMMA ClientStep ==
  ASSUME TypeOK, NEW c \in Conn, Send(c) \/ Receive(c) \/ Hangup(c)
  PROVE  \E r \in Connection :
           /\ conn' = [conn EXCEPT ![c] = r]
           /\ exists(c) /\ r.state = conn[c].state
           /\ r.size = conn[c].size /\ r.written = conn[c].written
           /\ r.runs = conn[c].runs /\ r.keepAlive = conn[c].keepAlive
           /\ \/ r.sent = conn[c].sent /\ r.kind = conn[c].kind
              \/ conn[c].sent = 1 /\ r.sent = 2 /\ r.kind \in Kind
              \/ conn[c].sent # 1 /\ r.sent = conn[c].sent + 1 /\ r.kind = conn[c].kind
<1> DEFINE k == conn[c]
<1>1. k \in Connection /\ k.sent \in 0 .. 3 /\ k.kind \in {"keep", "close", "bad"}
  BY DEF TypeOK, Connection
<1>2. CASE Send(c)
  <2>1. PICK m \in IF k.sent = 1 THEN Kind ELSE {k.kind} :
          conn' = [conn EXCEPT ![c].sent = @ + 1, ![c].kind = m]
    BY <1>2 DEF Send
  <2> DEFINE r == [k EXCEPT !.sent = k.sent + 1, !.kind = m]
  <2>2. k.sent + 1 \in 0 .. 3 /\ m \in {"keep", "close", "bad"}
    BY <1>1, <1>2, ServerAssumption DEF Send
  <2>3. \A q \in Connection : [q EXCEPT !.sent = k.sent + 1] \in Connection
    BY <2>2 DEF Connection
  <2>4. \A q \in Connection : [q EXCEPT !.kind = m] \in Connection
    BY <2>2 DEF Connection
  <2>5. r \in Connection
    BY <1>1, <2>3, <2>4
  <2>6. conn' = [conn EXCEPT ![c] = r]
    BY <2>1 DEF TypeOK
  <2>7. /\ r.state = k.state /\ r.size = k.size /\ r.written = k.written
        /\ r.runs = k.runs /\ r.keepAlive = k.keepAlive
        /\ r.sent = k.sent + 1 /\ r.kind = m
    BY <1>1 DEF Connection
  <2>8. exists(c) /\ (k.sent = 1 => m \in Kind) /\ (k.sent # 1 => m = k.kind)
    BY <1>2 DEF Send
  <2> HIDE DEF r
  <2>9. CASE k.sent = 1
    <3>1. r.sent = 2 /\ r.kind \in Kind
      BY <2>7, <2>8, <2>9
    <3> QED BY <2>5, <2>6, <2>7, <2>8, <2>9, <3>1
  <2>10. CASE k.sent # 1
    BY <2>5, <2>6, <2>7, <2>8, <2>10
  <2> QED BY <2>9, <2>10
<1>3. CASE Receive(c)
  <2> DEFINE r == [k EXCEPT !.unread = FALSE]
  <2>1. r \in Connection
    BY <1>1 DEF Connection
  <2>2. conn' = [conn EXCEPT ![c] = r]
    BY <1>3 DEF Receive, TypeOK
  <2> QED BY <1>1, <1>3, <2>1, <2>2 DEF Receive, Connection
<1>4. CASE Hangup(c)
  <2>1. PICK p \in {"shut", "reset"} : conn' = [conn EXCEPT ![c].peer = p]
    BY <1>4 DEF Hangup
  <2> DEFINE r == [k EXCEPT !.peer = p]
  <2>2. r \in Connection
    BY <1>1 DEF Connection
  <2>3. conn' = [conn EXCEPT ![c] = r]
    BY <2>1 DEF TypeOK
  <2> QED BY <1>1, <1>4, <2>2, <2>3 DEF Hangup, Connection
<1> QED BY <1>2, <1>3, <1>4

(* Every variable keeps its type.                                            *)
LEMMA TypeStep == TypeOK /\ ListInv /\ ConnInv /\ [Next]_vars => TypeOK'
<1> SUFFICES ASSUME TypeOK, ListInv, ConnInv, [Next]_vars PROVE TypeOK'
  OBVIOUS
<1> USE ServerAssumption
<1>1. CASE Knock
  BY <1>1 DEF Knock, dispatcher, TypeOK
<1>2. ASSUME NEW c \in Conn, Send(c) \/ Receive(c) \/ Hangup(c) PROVE TypeOK'
  <2>1. conn' \in [Conn -> Connection]
    BY <1>2, ClientStep DEF TypeOK
  <2> QED BY <1>2, <2>1 DEF Send, Receive, Hangup, dispatcher, TypeOK
<1>3. CASE bindAndListen
  <2>1. sources' \in Seq(Source)
    BY <1>3, AppendProperties DEF bindAndListen, Source, TypeOK
  <2>2. fd' \in [Source -> Fd \cup {-1}] /\ mask' \in [Source -> {"readable", "writable"}]
    BY <1>3 DEF bindAndListen, TypeOK
  <2> QED BY <1>3, <2>1, <2>2 DEF bindAndListen, TypeOK
<1>4. CASE work
  BY <1>4 DEF work, TypeOK
<1>5. CASE shutdown
  BY <1>5, CloseTyped DEF shutdown, TypeOK
<1>6. CASE Select
  <2>1. Len(sources) > 0 /\ Head(sources) = sources[1] /\ sources[1] = Server
    BY <1>6, HeadTailProperties DEF Select, ListInv, TypeOK
  <2>2. it' \in Source
    BY <1>6, <2>1 DEF Select, Source
  <2>3. \A s \in pending : s \in Source /\ fd[s] \in Fd
    BY LenProperties DEF pending, Range, ListInv, listed, TypeOK
  <2>4. selected' \subseteq Source /\ ready' \subseteq Fd
    BY <1>6, <2>3 DEF Select
  <2> QED BY <1>6, <2>2, <2>4 DEF Select, TypeOK
<1>7. CASE SelectFails
  BY <1>7 DEF SelectFails, TypeOK
<1>8. CASE Skip
  <2>1. listed(it)
    BY <1>8 DEF Skip, ListInv
  <2> QED BY <1>8, <2>1, AfterIsSource DEF Skip, TypeOK
<1>9. CASE EndOfPass
  BY <1>9 DEF EndOfPass, TypeOK
<1>10. CASE ClearAfterPass
  BY <1>10, CloseTyped DEF ClearAfterPass, endLoop, TypeOK
<1>11. CASE NextPass
  BY <1>11 DEF NextPass, endLoop, TypeOK
<1>12. ASSUME NEW c \in Conn, NEW f \in Fd, acceptConnection(c, f) PROVE TypeOK'
  <2>1. sources' \in Seq(Source)
    BY <1>12, AppendProperties DEF acceptConnection, Source, TypeOK
  <2>2. fd' \in [Source -> Fd \cup {-1}] /\ mask' \in [Source -> {"readable", "writable"}]
    BY <1>12 DEF acceptConnection, TypeOK
  <2>3. conn' \in [Conn -> Connection]
    BY <1>12, NewTyped DEF acceptConnection, TypeOK
  <2>4. it' \in Source \cup {End}
    BY <1>12, VisitedIsListed, AfterIsSource DEF acceptConnection, Source
  <2> QED BY <1>12, <2>1, <2>2, <2>3, <2>4 DEF acceptConnection, TypeOK
<1>13. CASE acceptFails
  <2>1. it' \in Source \cup {End}
    BY <1>13, VisitedIsListed, AfterIsSource DEF acceptFails, Source
  <2> QED BY <1>13, <2>1 DEF acceptFails, TypeOK
<1>14. ASSUME NEW c \in Conn, HandlerGivesUp(c) PROVE TypeOK'
  <2> DEFINE unfinished == conn[c].state = "WRITE_RESPONSE" /\ conn[c].peer # "reset"
  <2>1. listed(c) /\ c \in Source
    BY <1>14, VisitedIsListed DEF HandlerGivesUp, Source
  <2>2. unfinished \in BOOLEAN /\ (unfinished => conn[c].kind \in Kind)
    BY DEF ConnInv, ConnOK
  <2>3. it' \in Source \cup {End}
    BY <1>14, <2>1, AfterIsSource DEF HandlerGivesUp
  <2>4. remove(c) /\ destroy(c, unfinished)
    BY <1>14 DEF HandlerGivesUp
  <2> HIDE DEF unfinished
  <2> QED BY <1>14, <2>1, <2>2, <2>3, <2>4, DestroyTyped DEF HandlerGivesUp, TypeOK
<1>15. ASSUME NEW c \in Conn, HandlerReadsOn(c) PROVE TypeOK'
  <2>1. conn' \in [Conn -> Connection]
    BY <1>15, ReadsOn DEF TypeOK
  <2>2. it' \in Source \cup {End}
    BY <1>15, VisitedIsListed, AfterIsSource DEF HandlerReadsOn, Source
  <2> QED BY <1>15, <2>1, <2>2 DEF HandlerReadsOn, TypeOK
<1>16. ASSUME NEW c \in Conn, writeResponse(c) PROVE TypeOK'
  BY <1>16, OutcomeOfAnswer, OutcomeTyped
<1>17. CASE UNCHANGED vars
  BY <1>17 DEF vars, dispatcher, TypeOK
<1> QED BY <1>1, <1>2, <1>3, <1>4, <1>5, <1>6, <1>7, <1>8, <1>9, <1>10, <1>11, <1>12,
           <1>13, <1>14, <1>15, <1>16, <1>17 DEF Next, Clients, Application, Dispatcher

------------------------------------------------------------------------------
(* A step that leaves list and sockets alone, and the objects where they     *)
(* are, keeps them in agreement, wherever the iterator moves on to.          *)
LEMMA ListKept ==
  ASSUME TypeOK, ListInv, UNCHANGED <<sources, fd>>,
         \A c \in Conn : exists(c)' <=> exists(c),
         phase' = "select" => Len(sources) > 0,
         phase' = "pass" => it' = End \/ listed(it') \/ (phase = "pass" /\ it' = it)
  PROVE  ListInv'
<1>1. \A s : listed(s)' <=> listed(s)
  BY DEF listed
<1>2. phase' = "pass" => it' = End \/ listed(it')
  BY DEF ListInv
<1>3. phase' = "pass" => it' = End \/ listed(it)'
  BY <1>2 DEF listed
<1> QED BY <1>1, <1>3 DEF ListInv

(* When everything is closed they agree.                                     *)
LEMMA ListClosed ==
  ASSUME TypeOK, closeAll, phase' \notin {"select", "pass"}
  PROVE  ListInv'
<1>1. Len(sources') = 0
  BY DEF closeAll
<1>2. \A s : ~ listed(s)'
  BY <1>1 DEF listed
<1>3. \A s \in Source : fd'[s] = -1
  BY DEF closeAll
<1>4. \A c \in Conn : ~ exists(c)'
  BY DEF closeAll, exists, none, accepted
<1> QED BY <1>1, <1>2, <1>3, <1>4 DEF ListInv, Source

(* When a connection is erased and destroyed they agree, and the iterator    *)
(* that moved on before stands on a source that is still listed.             *)
LEMMA ListErased ==
  ASSUME TypeOK, ListInv, NEW c \in Conn, visiting(c), remove(c), it' = after(c),
         NEW unfinished \in BOOLEAN, destroy(c, unfinished), phase' = phase
  PROVE  ListInv'
<1>1. listed(c) /\ c \in Source /\ phase = "pass"
  BY VisitedIsListed DEF Source
<1>2. /\ \A i, j \in 1 .. Len(sources') : sources'[i] = sources'[j] => i = j
      /\ \A s \in Source : listed(s)' <=> listed(s) /\ s # c
      /\ Len(sources') > 0
      /\ sources'[1] = Server
  BY <1>1, Unlisted
<1>3. fd' = [fd EXCEPT ![c] = -1] /\ conn' = [conn EXCEPT ![c] = none] /\ none.state = "none"
  BY DEF destroy, none, accepted
<1>4. \A s \in Source : fd'[s] = IF s = c THEN -1 ELSE fd[s]
  BY <1>3 DEF TypeOK
<1>5. \A s, t \in Source : fd'[s] = fd'[t] /\ fd'[s] # -1 => s = t
  BY <1>4 DEF ListInv
<1>6. \A d \in Conn : exists(d)' <=> exists(d) /\ d # c
  BY <1>3 DEF exists, TypeOK
<1>7. \A s \in Source : listed(s)' <=> fd'[s] # -1
  BY <1>2, <1>4 DEF ListInv
<1>8. \A d \in Conn : exists(d)' <=> fd'[d] # -1
  BY <1>4, <1>6 DEF ListInv, Source
<1>9. it' = End \/ listed(it)'
  <2>1. it' = End \/ (listed(it') /\ it' # c)
    BY <1>1, MovesOn
  <2>2. ASSUME listed(it'), it' # c PROVE listed(it)'
    <3>1. it' \in Source
      BY <2>2, LenProperties DEF listed, TypeOK
    <3>2. PICK i \in 1 .. Len(sources) : sources[i] = it'
      BY <2>2 DEF listed
    <3>3. fd[it'] # -1
      BY <2>2, <3>1 DEF ListInv
    <3>4. fd'[it'] # -1
      BY <1>4, <2>2, <3>1, <3>3
    <3>5. \A s \in Source : fd'[s] # -1 => \E j \in 1 .. Len(sources') : sources'[j] = s
      BY <1>7 DEF listed
    <3> QED BY <3>1, <3>4, <3>5 DEF listed
  <2> QED BY <2>1, <2>2
<1> QED BY <1>1, <1>2, <1>5, <1>7, <1>8, <1>9 DEF ListInv

(* List, objects and sockets agree after every step.                         *)
LEMMA ListStep == TypeOK /\ ListInv /\ ConnInv /\ [Next]_vars => ListInv'
<1> SUFFICES ASSUME TypeOK, ListInv, ConnInv, [Next]_vars PROVE ListInv'
  OBVIOUS
<1>1. CASE Knock
  BY <1>1, ListKept DEF Knock, dispatcher, exists, ListInv
<1>2. ASSUME NEW c \in Conn, Send(c) \/ Receive(c) \/ Hangup(c) PROVE ListInv'
  <2>1. \A d \in Conn : exists(d)' <=> exists(d)
    BY <1>2, ClientStep DEF exists, TypeOK
  <2>2. UNCHANGED <<phase, sources, fd, it>>
    BY <1>2 DEF Send, Receive, Hangup, dispatcher
  <2> QED BY <2>1, <2>2, ListKept DEF ListInv
<1>3. CASE bindAndListen
  <2>1. PICK f \in Fd \ Range(fd) : fd' = [fd EXCEPT ![Server] = f]
    BY <1>3 DEF bindAndListen
  <2>2. \A s \in Source : fd[s] # f
    BY <2>1 DEF Range, TypeOK
  <2>3. Server \in Source /\ ~ listed(Server) /\ f # -1 /\ Server \notin Conn
    BY <1>3, <2>1, ServerAssumption DEF bindAndListen, Source, ListInv
  <2>4. Len(sources) = 0
    <3>1. Len(sources) > 0 => listed(Server)
      BY LenProperties DEF ListInv, listed, TypeOK
    <3>2. Len(sources) \in Nat
      BY LenProperties DEF TypeOK
    <3> QED BY <2>3, <3>1, <3>2
  <2>5. /\ \A i, j \in 1 .. Len(sources') : sources'[i] = sources'[j] => i = j
        /\ \A s \in Source : listed(s)' <=> listed(s) \/ s = Server
        /\ sources'[1] = Server
    BY <1>3, <2>3, <2>4, Appended DEF bindAndListen
  <2>6. \A s \in Source : fd'[s] = IF s = Server THEN f ELSE fd[s]
    BY <2>1 DEF TypeOK
  <2>7. /\ \A s, t \in Source : fd'[s] = fd'[t] /\ fd'[s] # -1 => s = t
        /\ \A s \in Source : listed(s)' <=> fd'[s] # -1
    BY <2>2, <2>3, <2>5, <2>6 DEF ListInv
  <2>8. \A c \in Conn : exists(c)' <=> fd'[c] # -1
    BY <1>3, <2>3, <2>6 DEF bindAndListen, exists, ListInv, Source
  <2>9. phase' \notin {"select", "pass"}
    BY <1>3 DEF bindAndListen, InWork
  <2> QED BY <2>5, <2>7, <2>8, <2>9 DEF ListInv
<1>4. CASE work
  <2>1. Len(sources) > 0
    BY <1>4, EmptySeq, LenProperties DEF work, TypeOK
  <2> QED BY <1>4, <2>1, ListKept DEF work, exists
<1>5. CASE shutdown
  BY <1>5, ListClosed DEF shutdown, InWork
<1>6. CASE Select
  <2>1. Head(sources) = sources[1] /\ 1 \in 1 .. Len(sources)
    BY <1>6, LenProperties, HeadTailProperties DEF Select, ListInv, TypeOK
  <2>2. listed(it')
    BY <1>6, <2>1 DEF Select, listed
  <2> QED BY <1>6, <2>2, ListKept DEF Select, exists
<1>7. CASE SelectFails \/ EndOfPass
  BY <1>7, ListKept DEF SelectFails, EndOfPass, exists
<1>8. CASE Skip
  <2>1. it' = End \/ listed(it')
    BY <1>8, MovesOn DEF Skip, ListInv
  <2> QED BY <1>8, <2>1, ListKept DEF Skip, exists
<1>9. CASE ClearAfterPass
  <2>1. Len(sources') = 0 /\ sources' = << >>
    BY <1>9 DEF ClearAfterPass, closeAll
  <2>2. phase' = "idle"
    BY <1>9, <2>1 DEF ClearAfterPass, endLoop
  <2> QED BY <1>9, <2>2, ListClosed DEF ClearAfterPass
<1>10. CASE NextPass
  <2>1. phase' = "select" => Len(sources) > 0
    BY <1>10, EmptySeq, LenProperties DEF NextPass, endLoop, TypeOK
  <2>2. phase' # "pass"
    BY <1>10 DEF NextPass, endLoop
  <2> QED BY <1>10, <2>1, <2>2, ListKept DEF NextPass, exists
<1>11. ASSUME NEW c \in Conn, NEW f \in Fd, acceptConnection(c, f) PROVE ListInv'
  <2>1. \A s \in Source : fd[s] # f
    BY <1>11 DEF acceptConnection, Range, TypeOK
  <2>2. c \in Source /\ ~ listed(c) /\ f # -1 /\ c # Server
    BY <1>11, ServerAssumption DEF acceptConnection, Source, ListInv
  <2>3. listed(Server) /\ Len(sources) > 0
    <3>1. listed(Server)
      BY <1>11, VisitedIsListed DEF acceptConnection, Source
    <3> QED BY <3>1, LenProperties DEF listed, TypeOK
  <2>4. /\ \A i, j \in 1 .. Len(sources') : sources'[i] = sources'[j] => i = j
        /\ \A s \in Source : listed(s)' <=> listed(s) \/ s = c
        /\ Len(sources') > 0 /\ sources'[1] = Server
    BY <1>11, <2>2, <2>3, Appended DEF acceptConnection
  <2>5. \A s \in Source : fd'[s] = IF s = c THEN f ELSE fd[s]
    BY <1>11 DEF acceptConnection, TypeOK
  <2>6. /\ \A s, t \in Source : fd'[s] = fd'[t] /\ fd'[s] # -1 => s = t
        /\ \A s \in Source : listed(s)' <=> fd'[s] # -1
    BY <2>1, <2>2, <2>4, <2>5 DEF ListInv
  <2>7. \A d \in Conn : exists(d)' <=> exists(d) \/ d = c
    BY <1>11 DEF acceptConnection, exists, accepted, TypeOK
  <2>8. \A d \in Conn : exists(d)' <=> fd'[d] # -1
    BY <2>2, <2>5, <2>7 DEF ListInv, Source
  <2>9. it' = End \/ listed(it)'
    <3>1. it' = End \/ listed(it')
      BY <1>11, <2>3, MovesOn DEF acceptConnection
    <3>2. ASSUME listed(it') PROVE listed(it)'
      <4>1. it' \in Source
        BY <3>2, LenProperties DEF listed, TypeOK
      <4>2. fd'[it'] # -1
        BY <2>2, <2>5, <3>2, <4>1 DEF ListInv
      <4>3. \A s \in Source : fd'[s] # -1 => \E j \in 1 .. Len(sources') : sources'[j] = s
        BY <2>6 DEF listed
      <4> QED BY <4>1, <4>2, <4>3 DEF listed
    <3> QED BY <3>1, <3>2
  <2> QED BY <2>4, <2>6, <2>8, <2>9 DEF ListInv
<1>12. CASE acceptFails
  <2>1. it' = End \/ listed(it')
    BY <1>12, VisitedIsListed, MovesOn DEF acceptFails, Source
  <2>2. phase' = "pass"
    BY <1>12 DEF acceptFails, visiting
  <2> QED BY <1>12, <2>1, <2>2, ListKept DEF acceptFails, exists
<1>13. ASSUME NEW c \in Conn, HandlerGivesUp(c) PROVE ListInv'
  <2> DEFINE unfinished == conn[c].state = "WRITE_RESPONSE" /\ conn[c].peer # "reset"
  <2>1. unfinished \in BOOLEAN
    OBVIOUS
  <2>2. /\ visiting(c) /\ remove(c) /\ it' = after(c)
        /\ destroy(c, unfinished) /\ phase' = phase
    BY <1>13 DEF HandlerGivesUp
  <2> HIDE DEF unfinished
  <2> QED BY <2>1, <2>2, ListErased
<1>14. ASSUME NEW c \in Conn, HandlerReadsOn(c) PROVE ListInv'
  <2>1. listed(c)
    BY <1>14, VisitedIsListed DEF HandlerReadsOn, Source
  <2>2. exists(c)
    BY <2>1 DEF ListInv, Source
  <2>3. \A d \in Conn : exists(d)' <=> exists(d)
    BY <1>14, <2>2, ReadsOn DEF exists, TypeOK
  <2>4. it' = End \/ listed(it')
    BY <1>14, <2>1, MovesOn DEF HandlerReadsOn
  <2>5. phase' = "pass"
    BY <1>14 DEF HandlerReadsOn, visiting
  <2> QED BY <1>14, <2>3, <2>4, <2>5, ListKept DEF HandlerReadsOn
<1>15. ASSUME NEW c \in Conn, writeResponse(c) PROVE ListInv'
  <2>1. PICK n \in 1 .. 2, w \in 0 .. 2, ran \in 0 .. 1, alive \in BOOLEAN :
          Outcome(c, n, w, ran, alive)
    BY <1>15, OutcomeOfAnswer
  <2>2. visiting(c) /\ it' = after(c) /\ phase' = phase
    BY <2>1 DEF Outcome
  <2>3. listed(c) /\ phase = "pass"
    BY <2>2, VisitedIsListed DEF Source
  <2>4. CASE ~ alive
    <3>1. remove(c) /\ destroy(c, w # n) /\ (w # n) \in BOOLEAN
      BY <2>1, <2>4 DEF Outcome
    <3> QED BY <2>2, <3>1, ListErased
  <2>5. CASE alive
    <3>1. UNCHANGED <<sources, fd>>
      BY <2>1, <2>5 DEF Outcome
    <3>2. \A d \in Conn : exists(d)' <=> exists(d)
      BY <2>1, <2>5, OutcomeTyped
    <3>3. it' = End \/ listed(it')
      BY <2>2, <2>3, MovesOn
    <3> QED BY <2>2, <2>3, <3>1, <3>2, <3>3, ListKept
  <2> QED BY <2>4, <2>5
<1>16. CASE UNCHANGED vars
  BY <1>16, ListKept DEF vars, dispatcher, exists, ListInv
<1> QED BY <1>1, <1>2, <1>3, <1>4, <1>5, <1>6, <1>7, <1>8, <1>9, <1>10, <1>11, <1>12,
           <1>13, <1>14, <1>15, <1>16 DEF Next, Clients, Application, Dispatcher

------------------------------------------------------------------------------
(* What select reported stays with the sources it was reported for.          *)
LEMMA PassStep == TypeOK /\ ListInv /\ ConnInv /\ PassInv /\ [Next]_vars => PassInv'
<1> SUFFICES ASSUME TypeOK, ListInv, ConnInv, PassInv, [Next]_vars, phase' = "pass"
             PROVE  PassInv'
  BY DEF PassInv
<1>1. ASSUME NEW s \in Source, visiting(s) \/ (phase = "pass" /\ it = s /\ s # End),
             it' = after(s)
      PROVE  it' # Server /\ phase = "pass"
  <2>1. listed(s) /\ phase = "pass"
    BY <1>1, VisitedIsListed DEF ListInv
  <2>2. it' = End \/ it' # Server
    BY <1>1, <2>1, MovesOn
  <2> QED BY <2>1, <2>2, ServerAssumption DEF End
<1>2. ASSUME UNCHANGED <<ready, fd, selected>>, phase = "pass", it' = it \/ it' # Server
      PROVE  PassInv'
  BY <1>2 DEF PassInv
<1>3. ASSUME NEW c \in Conn, visiting(c), it' = after(c), ready' = ready,
             NEW unfinished \in BOOLEAN, destroy(c, unfinished)
      PROVE  PassInv'
  <2>1. it' # Server /\ phase = "pass"
    BY <1>1, <1>3 DEF Source
  <2>2. \A s \in Source : fd'[s] = IF s = c THEN -1 ELSE fd[s]
    BY <1>3 DEF destroy, TypeOK
  <2>3. -1 \notin ready /\ selected' = selected \ {c}
    BY <1>3, ServerAssumption DEF destroy, TypeOK
  <2> QED BY <1>3, <2>1, <2>2, <2>3 DEF PassInv
<1>4. CASE Clients
  BY <1>2, <1>4 DEF Clients, Knock, Send, Receive, Hangup, dispatcher
<1>5. CASE Application
  BY <1>5 DEF Application, bindAndListen, work, shutdown, InWork
<1>6. CASE Select
  <2>1. selected' = pending /\ ready' = {fd[s] : s \in pending} /\ fd' = fd
    BY <1>6 DEF Select
  <2>2. \A s \in pending : s \in Source /\ fd[s] # -1
    BY LenProperties DEF pending, Range, ListInv, listed, TypeOK
  <2>3. \A s \in Source : fd'[s] \in ready' => s \in selected'
    BY <2>1, <2>2 DEF ListInv
  <2>4. \A f \in ready' : \E s \in Source : fd'[s] = f
    BY <2>1, <2>2
  <2> QED BY <2>3, <2>4 DEF PassInv
<1>7. CASE Skip
  <2>1. it \in Source /\ it # End /\ phase = "pass" /\ it' = after(it)
    BY <1>7 DEF Skip, TypeOK
  <2>2. it' # Server
    BY <1>1, <2>1
  <2> QED BY <1>2, <1>7, <2>2 DEF Skip
<1>8. ASSUME NEW c \in Conn, NEW f \in Fd, acceptConnection(c, f) PROVE PassInv'
  <2>1. it' # Server /\ phase = "pass" /\ it = Server
    BY <1>1, <1>8, VisitedIsListed DEF acceptConnection, Source
  <2>2. f \notin ready
    <3>1. \A s \in Source : fd[s] # f
      BY <1>8 DEF acceptConnection, Range, TypeOK
    <3> QED BY <2>1, <3>1 DEF PassInv
  <2>3. \A s \in Source : fd'[s] = IF s = c THEN f ELSE fd[s]
    BY <1>8 DEF acceptConnection, TypeOK
  <2> QED BY <1>8, <2>1, <2>2, <2>3 DEF acceptConnection, PassInv
<1>9. CASE acceptFails
  <2>1. it' # Server /\ phase = "pass"
    BY <1>1, <1>9 DEF acceptFails, Source
  <2> QED BY <1>2, <1>9, <2>1 DEF acceptFails
<1>10. ASSUME NEW c \in Conn, HandlerGivesUp(c) PROVE PassInv'
  <2> DEFINE unfinished == conn[c].state = "WRITE_RESPONSE" /\ conn[c].peer # "reset"
  <2>1. unfinished \in BOOLEAN
    OBVIOUS
  <2>2. visiting(c) /\ it' = after(c) /\ destroy(c, unfinished) /\ ready' = ready
    BY <1>10 DEF HandlerGivesUp
  <2> HIDE DEF unfinished
  <2> QED BY <1>3, <2>1, <2>2
<1>11. ASSUME NEW c \in Conn, HandlerReadsOn(c) PROVE PassInv'
  <2>1. it' # Server /\ phase = "pass"
    BY <1>1, <1>11 DEF HandlerReadsOn, Source
  <2> QED BY <1>2, <1>11, <2>1 DEF HandlerReadsOn
<1>12. ASSUME NEW c \in Conn, writeResponse(c) PROVE PassInv'
  <2>1. PICK n \in 1 .. 2, w \in 0 .. 2, ran \in 0 .. 1, alive \in BOOLEAN :
          Outcome(c, n, w, ran, alive)
    BY <1>12, OutcomeOfAnswer
  <2>2. visiting(c) /\ it' = after(c) /\ ready' = ready
    BY <2>1 DEF Outcome
  <2>3. it' # Server /\ phase = "pass"
    BY <1>1, <2>2 DEF Source
  <2>4. CASE ~ alive
    <3>1. destroy(c, w # n) /\ (w # n) \in BOOLEAN
      BY <2>1, <2>4 DEF Outcome
    <3> QED BY <1>3, <2>2, <3>1
  <2>5. CASE alive
    <3>1. UNCHANGED <<fd, selected>>
      BY <2>1, <2>5 DEF Outcome
    <3> QED BY <1>2, <2>2, <2>3, <3>1
  <2> QED BY <2>4, <2>5
<1>13. CASE SelectFails \/ EndOfPass \/ ClearAfterPass \/ NextPass
  BY <1>13 DEF SelectFails, EndOfPass, ClearAfterPass, NextPass, endLoop
<1>14. CASE UNCHANGED vars
  BY <1>2, <1>14 DEF vars, dispatcher
<1> QED BY <1>4, <1>5, <1>6, <1>7, <1>8, <1>9, <1>10, <1>11, <1>12, <1>13, <1>14
        DEF Next, Dispatcher

------------------------------------------------------------------------------
(* One connection changes, into one that knows as much.                      *)
LEMMA ConnChanged ==
  ASSUME TypeOK, ConnInv, NEW c \in Conn, NEW r, ConnOK(r), conn' = [conn EXCEPT ![c] = r]
  PROVE  ConnInv'
<1>1. \A d \in Conn : conn'[d] = IF d = c THEN r ELSE conn[d]
  BY DEF TypeOK
<1>2. ASSUME NEW d \in Conn PROVE ConnOK(conn[d])'
  <2>1. CASE d = c
    <3>1. conn'[d] = r
      BY <1>1, <2>1
    <3> QED BY <3>1 DEF ConnOK
  <2>2. CASE d # c
    <3>1. conn'[d] = conn[d] /\ ConnOK(conn[d])
      BY <1>1, <2>2 DEF ConnInv
    <3> QED BY <3>1 DEF ConnOK
  <2> QED BY <2>1, <2>2
<1> QED BY <1>2 DEF ConnInv

(* A new connection has no response and has run nothing.                     *)
LEMMA NewOK == ConnOK(accepted) /\ ConnOK(none)
<1>1. ConnOK(accepted)
  BY DEF ConnOK, accepted
<1>2. none.sent = 0 /\ none.size = 0 /\ none.runs = 0 /\ none.state = "none"
  BY DEF none, accepted
<1>3. ConnOK(none)
  BY <1>2 DEF ConnOK
<1> QED BY <1>1, <1>3

(* When everything is closed, no connection has a response.                  *)
LEMMA AllNew == ASSUME closeAll PROVE ConnInv'
<1>1. \A c \in Conn : conn'[c] = none
  BY DEF closeAll
<1>2. ASSUME NEW c \in Conn PROVE ConnOK(conn[c])'
  BY <1>1, NewOK DEF ConnOK
<1> QED BY <1>2 DEF ConnInv

(* Requests are run once, and what is left of a response is known.           *)
LEMMA ConnStep == TypeOK /\ ListInv /\ ConnInv /\ [Next]_vars => ConnInv'
<1> SUFFICES ASSUME TypeOK, ListInv, ConnInv, [Next]_vars PROVE ConnInv'
  OBVIOUS
<1>1. ASSUME UNCHANGED conn PROVE ConnInv'
  BY <1>1 DEF ConnInv, ConnOK
<1>2. ASSUME NEW c \in Conn, NEW unfinished, destroy(c, unfinished) PROVE ConnInv'
  <2>1. conn' = [conn EXCEPT ![c] = none]
    BY <1>2 DEF destroy
  <2> QED BY <2>1, NewOK, ConnChanged
<1>3. ASSUME NEW c \in Conn, Send(c) \/ Receive(c) \/ Hangup(c) PROVE ConnInv'
  <2>1. PICK r \in Connection :
          /\ conn' = [conn EXCEPT ![c] = r]
          /\ exists(c) /\ r.state = conn[c].state
          /\ r.size = conn[c].size /\ r.written = conn[c].written
          /\ r.runs = conn[c].runs /\ r.keepAlive = conn[c].keepAlive
          /\ \/ r.sent = conn[c].sent /\ r.kind = conn[c].kind
             \/ conn[c].sent = 1 /\ r.sent = 2 /\ r.kind \in Kind
             \/ conn[c].sent # 1 /\ r.sent = conn[c].sent + 1 /\ r.kind = conn[c].kind
    BY <1>3, ClientStep
  <2>2. ConnOK(conn[c]) /\ conn[c].sent \in 0 .. 3 /\ r.keepAlive \in BOOLEAN
    BY DEF ConnInv, TypeOK, Connection
  <2>3. ConnOK(r)
    BY <2>1, <2>2 DEF ConnOK
  <2> QED BY <2>1, <2>3, ConnChanged
<1>4. CASE Knock \/ bindAndListen \/ work
  BY <1>1, <1>4 DEF Knock, bindAndListen, work
<1>5. CASE shutdown
  BY <1>5, AllNew DEF shutdown
<1>6. CASE Select \/ SelectFails \/ Skip \/ EndOfPass \/ NextPass \/ acceptFails
  BY <1>1, <1>6 DEF Select, SelectFails, Skip, EndOfPass, NextPass, acceptFails
<1>7. CASE ClearAfterPass
  BY <1>7, AllNew DEF ClearAfterPass
<1>8. ASSUME NEW c \in Conn, NEW f \in Fd, acceptConnection(c, f) PROVE ConnInv'
  <2>1. conn' = [conn EXCEPT ![c] = accepted]
    BY <1>8 DEF acceptConnection
  <2> QED BY <2>1, NewOK, ConnChanged
<1>9. ASSUME NEW c \in Conn, HandlerGivesUp(c) PROVE ConnInv'
  BY <1>2, <1>9 DEF HandlerGivesUp
<1>10. ASSUME NEW c \in Conn, HandlerReadsOn(c) PROVE ConnInv'
  <2>1. PICK r \in Connection :
          /\ conn' = [conn EXCEPT ![c] = r]
          /\ r.sent = conn[c].sent /\ r.kind = conn[c].kind
          /\ r.size = conn[c].size /\ r.written = conn[c].written
          /\ r.runs = conn[c].runs
          /\ r.state \in {"READ_HEADER", "READ_REQUEST"}
          /\ r.state = "READ_REQUEST" =>
               /\ r.sent >= 2 /\ r.kind # "bad"
               /\ r.keepAlive <=> r.kind = "keep"
    BY <1>10, ReadsOn
  <2>2. ConnOK(conn[c])
    BY DEF ConnInv
  <2>3. ConnOK(r)
    BY <2>1, <2>2 DEF ConnOK
  <2> QED BY <2>1, <2>3, ConnChanged
<1>11. ASSUME NEW c \in Conn, writeResponse(c) PROVE ConnInv'
  <2>1. PICK n \in 1 .. 2, w \in 0 .. 2, ran \in 0 .. 1, alive \in BOOLEAN :
          Outcome(c, n, w, ran, alive)
    BY <1>11, OutcomeOfAnswer
  <2>2. conn[c] \in Connection
    BY DEF TypeOK
  <2>3. CASE ~ alive
    BY <1>2, <2>1, <2>3 DEF Outcome
  <2>4. CASE /\ alive /\ w < n
             /\ conn' = [conn EXCEPT ![c] = [conn[c] EXCEPT
                  !.state = "WRITE_RESPONSE", !.got = 3, !.keepAlive = alive,
                  !.size = n, !.written = w, !.unread = TRUE, !.runs = ran]]
    <3> DEFINE r == [conn[c] EXCEPT
                  !.state = "WRITE_RESPONSE", !.got = 3, !.keepAlive = alive,
                  !.size = n, !.written = w, !.unread = TRUE, !.runs = ran]
    <3>1. /\ r.sent = 3 /\ r.kind = conn[c].kind /\ r.keepAlive = alive
          /\ r.size = n /\ r.written = w /\ r.runs = ran
      BY <2>1, <2>2 DEF Connection, Outcome
    <3>2. /\ conn[c].kind \in Kind /\ conn[c].kind # "bad"
          /\ alive <=> conn[c].kind = "keep"
      BY <2>1 DEF Outcome
    <3>3. conn' = [conn EXCEPT ![c] = r]
      BY <2>4
    <3> HIDE DEF r
    <3>4. ConnOK(r)
      BY <2>4, <3>1, <3>2 DEF ConnOK
    <3> QED BY <3>3, <3>4, ConnChanged
  <2>5. CASE conn' = [conn EXCEPT ![c] = [accepted EXCEPT
                  !.keepAlive = alive, !.written = w, !.peer = conn[c].peer, !.unread = TRUE]]
    <3> DEFINE r == [accepted EXCEPT
                  !.keepAlive = alive, !.written = w, !.peer = conn[c].peer, !.unread = TRUE]
    <3>1. r.sent = 0 /\ r.size = 0 /\ r.runs = 0 /\ r.state = "READ_HEADER"
      BY DEF accepted
    <3>2. conn' = [conn EXCEPT ![c] = r]
      BY <2>5
    <3> HIDE DEF r
    <3>3. ConnOK(r)
      BY <3>1 DEF ConnOK
    <3> QED BY <3>2, <3>3, ConnChanged
  <2> QED BY <2>1, <2>3, <2>4, <2>5 DEF Outcome
<1>12. CASE UNCHANGED vars
  BY <1>1, <1>12 DEF vars
<1> QED BY <1>3, <1>4, <1>5, <1>6, <1>7, <1>8, <1>9, <1>10, <1>11, <1>12
        DEF Next, Clients, Application, Dispatcher

(* Only a response whose client asked for the connection to be closed is cut *)
(* off.                                                                      *)
LEMMA CutStep == TypeOK /\ ListInv /\ ConnInv /\ WholeResponse /\ [Next]_vars => WholeResponse'
<1> SUFFICES ASSUME TypeOK, ListInv, ConnInv, WholeResponse, [Next]_vars PROVE WholeResponse'
  OBVIOUS
<1>1. ASSUME UNCHANGED cut PROVE WholeResponse'
  BY <1>1 DEF WholeResponse
<1>2. ASSUME NEW c \in Conn, HandlerGivesUp(c) PROVE WholeResponse'
  <2>1. ~ (conn[c].state = "WRITE_RESPONSE" /\ conn[c].peer # "reset")
    BY <1>2 DEF HandlerGivesUp
  <2>2. cut' = cut
    BY <1>2, <2>1 DEF HandlerGivesUp, destroy
  <2> QED BY <1>1, <2>2
<1>3. ASSUME NEW c \in Conn, writeResponse(c) PROVE WholeResponse'
  <2>1. PICK n \in 1 .. 2, w \in 0 .. 2, ran \in 0 .. 1, alive \in BOOLEAN :
          Outcome(c, n, w, ran, alive)
    BY <1>3, OutcomeOfAnswer
  <2>2. CASE alive
    BY <1>1, <2>1, <2>2 DEF Outcome
  <2>3. CASE ~ alive
    <3>1. conn[c].kind = "close"
      BY <2>1, <2>3 DEF Outcome, TypeOK, Connection
    <3>2. cut' \subseteq cut \cup {"close"}
      BY <2>1, <2>3, <3>1 DEF Outcome, destroy
    <3> QED BY <3>2 DEF WholeResponse
  <2> QED BY <2>2, <2>3
<1>4. ASSUME NEW c \in Conn, Send(c) \/ Receive(c) \/ Hangup(c) \/ HandlerReadsOn(c)
      PROVE  WholeResponse'
  BY <1>1, <1>4 DEF Send, Receive, Hangup, HandlerReadsOn
<1>5. CASE Knock \/ Application
  BY <1>1, <1>5 DEF Knock, Application, bindAndListen, work, shutdown
<1>6. CASE Select \/ SelectFails \/ Skip \/ EndOfPass \/ NextPass \/ acceptFails \/ ClearAfterPass
  BY <1>1, <1>6 DEF Select, SelectFails, Skip, EndOfPass, NextPass, acceptFails, ClearAfterPass
<1>7. ASSUME NEW c \in Conn, NEW f \in Fd, acceptConnection(c, f) PROVE WholeResponse'
  BY <1>1, <1>7 DEF acceptConnection
<1>8. CASE UNCHANGED vars
  BY <1>1, <1>8 DEF vars
<1> QED BY <1>2, <1>3, <1>4, <1>5, <1>6, <1>7, <1>8 DEF Next, Clients, Dispatcher

------------------------------------------------------------------------------
(* Before bindAndListen.                                                     *)
LEMMA InitialStates == Init => IInv
<1> SUFFICES ASSUME Init PROVE IInv
  OBVIOUS
<1>1. TypeOK
  <2>1. sources \in Seq(Source)
    BY EmptySeq DEF Init
  <2>2. conn \in [Conn -> Connection]
    BY NewTyped DEF Init
  <2>3. mask \in [Source -> {"readable", "writable"}] /\ fd \in [Source -> Fd \cup {-1}]
    BY DEF Init
  <2>4. backlog \in 0 .. MaxBacklog
    BY ServerAssumption DEF Init
  <2> QED BY <2>1, <2>2, <2>3, <2>4 DEF Init, TypeOK
<1>2. ListInv
  <2>1. Len(sources) = 0
    BY DEF Init
  <2>2. \A c \in Conn : ~ exists(c)
    BY DEF Init, exists, none, accepted
  <2>3. \A s : ~ listed(s)
    BY <2>1 DEF listed
  <2>4. (\A s \in Source : fd[s] = -1) /\ phase = "idle"
    BY DEF Init
  <2>5. \A c \in Conn : exists(c) <=> fd[c] # -1
    BY <2>2, <2>4 DEF Source
  <2>6. \A i, j \in 1 .. Len(sources) : sources[i] = sources[j] => i = j
    BY <2>1
  <2>7. ~ (Len(sources) > 0)
    BY <2>1
  <2>8. \A s \in Source : listed(s) <=> fd[s] # -1
    BY <2>3, <2>4
  <2>9. \A s, t \in Source : fd[s] = fd[t] /\ fd[s] # -1 => s = t
    BY <2>4
  <2> QED BY <2>4, <2>5, <2>6, <2>7, <2>8, <2>9, Zenon DEF ListInv
<1>3. PassInv
  BY DEF Init, PassInv
<1>4. ConnInv
  BY NewOK DEF Init, ConnInv
<1>5. WholeResponse
  BY DEF Init, WholeResponse
<1> QED BY <1>1, <1>2, <1>3, <1>4, <1>5 DEF IInv

(* The inductive invariant.                                                  *)
LEMMA Invariant == Spec => []IInv
<1>1. IInv /\ [Next]_vars => IInv'
  BY TypeStep, ListStep, PassStep, ConnStep, CutStep DEF IInv
<1> QED BY <1>1, InitialStates, PTL DEF Spec

(* The list of sources has each source as often as it has a socket.          *)
LEMMA ListedOnce ==
  ASSUME TypeOK, ListInv
  PROVE  SourcesAreAlive
<1>1. ASSUME NEW s \in Source
      PROVE  Cardinality({i \in DOMAIN sources : sources[i] = s}) = IF fd[s] # -1 THEN 1 ELSE 0
  <2> DEFINE P == {i \in DOMAIN sources : sources[i] = s}
  <2>1. DOMAIN sources = 1 .. Len(sources)
    BY LenProperties DEF TypeOK
  <2>2. CASE fd[s] # -1
    <3>1. PICK k \in 1 .. Len(sources) : sources[k] = s
      BY <2>2 DEF ListInv, listed
    <3>2. P = {k}
      BY <2>1, <3>1 DEF ListInv
    <3> QED BY <2>2, <3>2, FS_Singleton
  <2>3. CASE ~ (fd[s] # -1)
    <3>1. P = {}
      BY <2>1, <2>3 DEF ListInv, listed
    <3> QED BY <2>3, <3>1, FS_EmptySet
  <2> QED BY <2>2, <2>3
<1>2. phase = "pass" => it \in Range(sources) \cup {End}
  BY LenProperties DEF ListInv, listed, Range, TypeOK
<1>3. /\ \A s, t \in Source : fd[s] = fd[t] /\ fd[s] # -1 => s = t
      /\ \A c \in Conn : exists(c) <=> fd[c] # -1
  BY DEF ListInv
<1> QED BY <1>1, <1>2, <1>3 DEF SourcesAreAlive

------------------------------------------------------------------------------
(* Type correctness.                                                         *)
THEOREM Typing == Spec => []TypeOK
<1>1. IInv => TypeOK
  BY DEF IInv
<1> QED BY <1>1, Invariant, PTL

(* However connections are accepted, closed and destroyed while work visits  *)
(* the list, every source in it is an object that exists, is there once and  *)
(* has a socket of its own, and the iterator never stands on one that is     *)
(* gone.                                                                     *)
THEOREM SourcesStaySound == Spec => []SourcesSound
<1>1. IInv => SourcesSound
  BY ListedOnce DEF IInv, SourcesSound
<1> QED BY <1>1, Invariant, PTL

(* No handler runs on the event of a source that had its socket number       *)
(* before it: numbers are given out before any is free in a pass.            *)
THEOREM EventsAreFresh == Spec => []NoStaleEvent
<1>1. IInv => NoStaleEvent
  <2>1. ASSUME IInv, phase = "pass", it # End, fd[it] \in ready
        PROVE  it \in selected
    <3>1. it \in Source
      BY <2>1 DEF IInv, TypeOK
    <3> QED BY <2>1, <3>1 DEF IInv, PassInv
  <2> QED BY <2>1 DEF NoStaleEvent
<1> QED BY <1>1, Invariant, PTL

(* The method of a request is run once, however many writes its response     *)
(* takes, and only a response after which the client wanted no more is cut   *)
(* off.                                                                      *)
THEOREM RequestsStaySound == Spec => []RequestsSound
<1>1. IInv => RequestsSound
  BY DEF IInv, ConnInv, ConnOK, RunOnce, RequestsSound
<1> QED BY <1>1, Invariant, PTL
==============================================================================
