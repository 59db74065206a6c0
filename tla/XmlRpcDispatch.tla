--------------------------- MODULE XmlRpcDispatch ---------------------------
(***************************************************************************)
(* XmlRpcDispatch::work on its own, with its clock: how long it waits, how *)
(* a handler ends it with exit, and how clear is put off to the end of the *)
(* pass. XmlRpcServer has the same loop with its sources in order, what    *)
(* their handlers do and the sockets, and leaves the clock out.            *)
(*                                                                         *)
(* Time is counted in units of the clock, which is read after a pass and   *)
(* not before the next select: no time passes between the two. Handlers    *)
(* take time, select returns when its time is up.                          *)
(***************************************************************************)
EXTENDS Integers

CONSTANTS Source,
          KeepOpen,   \* sources that are not closed when their handler is done
          Timeout,    \* arguments of work: -1, or a time
          MaxClock    \* bound on the clock

ASSUME DispatchAssumption ==
  /\ KeepOpen \subseteq Source
  /\ Timeout \subseteq Nat \cup {-1}
  /\ MaxClock \in Nat

VARIABLES
  pc,        \* "idle" outside work, "select", or "pass"
  clock,
  timeout,   \* argument of the call of work
  endTime,   \* _endTime
  wake,      \* when select gives up
  sources,   \* _sources
  pending,   \* sources whose handler the pass has still to call
  doClear,   \* _doClear
  open,      \* sources with an open socket
  start,     \* history: when work was called
  exited     \* history: exit was called in this call of work

vars == <<pc, clock, timeout, endTime, wake, sources, pending, doClear, open, start, exited>>

TypeOK ==
  /\ pc \in {"idle", "select", "pass"}
  /\ clock \in Nat
  /\ timeout \in Nat \cup {-1}
  /\ endTime \in Nat \cup {-1}
  /\ wake \in Int
  /\ sources \in SUBSET Source
  /\ pending \in SUBSET Source
  /\ doClear \in BOOLEAN
  /\ pc # "pass" => pending = {} /\ ~ doClear
  /\ open \in SUBSET Source
  /\ start \in Nat
  /\ exited \in BOOLEAN

(* Any time is later than 0, with which exit marks the end.                 *)
Init ==
  /\ pc = "idle"
  /\ clock = 1 /\ start = 1
  /\ timeout = -1 /\ endTime = -1 /\ wake = 0
  /\ sources = {} /\ pending = {} /\ open = {}
  /\ doClear = FALSE /\ exited = FALSE

-----------------------------------------------------------------------------
addSource(s) ==
  /\ pc = "idle"
  /\ s \notin sources
  /\ sources' = sources \cup {s}
  /\ open' = open \cup {s}
  /\ UNCHANGED <<pc, clock, timeout, endTime, wake, pending, doClear, start, exited>>

(* Outside work, clear closes everything at once.                           *)
clear ==
  /\ pc = "idle"
  /\ sources' = {}
  /\ open' = open \ sources
  /\ UNCHANGED <<pc, clock, timeout, endTime, wake, pending, doClear, start, exited>>

(* The owner of a source that was kept open closes it.                      *)
close(s) ==
  /\ s \in open \ sources
  /\ open' = open \ {s}
  /\ UNCHANGED <<pc, clock, timeout, endTime, wake, sources, pending, doClear, start, exited>>

(* Mistake: the end of the last call is not forgotten.                      *)
work_KeepsEnd(t) ==
  /\ pc = "idle" /\ sources # {}
  /\ t >= 0 => clock + t < MaxClock
  /\ timeout' = t
  /\ endTime' = IF t < 0 THEN endTime ELSE clock + t
  /\ start' = clock
  /\ doClear' = FALSE /\ exited' = FALSE
  /\ pc' = "select" /\ wake' = clock + t
  /\ UNCHANGED <<clock, sources, pending, open>>

(* With nothing to monitor work returns at once.                            *)
work(t) ==
  /\ pc = "idle" /\ sources # {}
  /\ t >= 0 => clock + t < MaxClock
  /\ timeout' = t
  /\ endTime' = IF t < 0 THEN -1 ELSE clock + t
  /\ start' = clock
  /\ doClear' = FALSE /\ exited' = FALSE
  /\ pc' = "select" /\ wake' = clock + t
  /\ UNCHANGED <<clock, sources, pending, open>>

SelectReady(R) ==
  /\ pc = "select"
  /\ R # {} /\ R \subseteq sources
  /\ pending' = R
  /\ pc' = "pass"
  /\ UNCHANGED <<clock, timeout, endTime, wake, sources, doClear, open, start, exited>>

SelectTimesOut ==
  /\ pc = "select"
  /\ timeout >= 0 /\ clock >= wake
  /\ pc' = "pass"
  /\ UNCHANGED <<clock, timeout, endTime, wake, sources, pending, doClear, open, start, exited>>

SelectFails ==
  /\ pc = "select"
  /\ pc' = "idle"
  /\ UNCHANGED <<clock, timeout, endTime, wake, sources, pending, doClear, open, start, exited>>

(* Mistakes: a clear takes effect in the middle of the pass; exit forgets   *)
(* the end instead of passing it.                                           *)
handleEvent_ClearsNow(s, mask, new, effect) ==
  /\ pc = "pass" /\ s \in pending
  /\ pending' = pending \ {s}
  /\ sources' = IF effect = "clear" THEN {} ELSE (IF mask = 0 THEN sources \ {s} ELSE sources) \cup new
  /\ open' = IF effect = "clear" THEN open \ sources
             ELSE (IF mask = 0 THEN open \ ({s} \ KeepOpen) ELSE open) \cup new
  /\ endTime' = IF effect = "exit" THEN 0 ELSE endTime
  /\ exited' = (exited \/ effect = "exit")
  /\ UNCHANGED <<pc, clock, timeout, wake, start, doClear>>

handleEvent_ExitForgets(s, mask, new, effect) ==
  /\ pc = "pass" /\ s \in pending
  /\ pending' = pending \ {s}
  /\ sources' = (IF mask = 0 THEN sources \ {s} ELSE sources) \cup new
  /\ open' = (IF mask = 0 THEN open \ ({s} \ KeepOpen) ELSE open) \cup new
  /\ endTime' = IF effect = "exit" THEN -1 ELSE endTime
  /\ exited' = (exited \/ effect = "exit")
  /\ doClear' = (doClear \/ effect = "clear")
  /\ UNCHANGED <<pc, clock, timeout, wake, start>>

(* A source's handler, which may add another source, and call exit or clear *)
(* on the way; with a mask of 0 the source is dropped.                      *)
handleEvent(s, mask, new, effect) ==
  /\ pc = "pass" /\ s \in pending
  /\ pending' = pending \ {s}
  /\ sources' = (IF mask = 0 THEN sources \ {s} ELSE sources) \cup new
  /\ open' = (IF mask = 0 THEN open \ ({s} \ KeepOpen) ELSE open) \cup new
  /\ endTime' = IF effect = "exit" THEN 0 ELSE endTime
  /\ exited' = (exited \/ effect = "exit")
  /\ doClear' = (doClear \/ effect = "clear")
  /\ UNCHANGED <<pc, clock, timeout, wake, start>>

monitored == IF doClear THEN {} ELSE sources

endPass ==
  /\ pc = "pass" /\ pending = {}
  /\ sources' = monitored
  /\ open' = IF doClear THEN open \ sources ELSE open
  /\ doClear' = FALSE

timeIsUp == 0 <= endTime /\ clock > endTime

returns ==
  /\ endPass
  /\ timeIsUp \/ monitored = {}
  /\ pc' = "idle"
  /\ UNCHANGED <<clock, timeout, endTime, wake, pending, start, exited>>

(* Mistake: the end is only looked at when nothing happened in the pass.    *)
loops_Busy ==
  /\ endPass
  /\ monitored # {}
  /\ timeIsUp => clock < wake
  /\ pc' = "select" /\ wake' = clock + timeout
  /\ UNCHANGED <<clock, timeout, endTime, pending, start, exited>>

(* Every select is given the whole time again.                              *)
loops ==
  /\ endPass
  /\ ~ timeIsUp /\ monitored # {}
  /\ pc' = "select" /\ wake' = clock + timeout
  /\ UNCHANGED <<clock, timeout, endTime, pending, start, exited>>

getTime ==
  /\ clock < MaxClock
  /\ pc = "select" /\ timeout >= 0 => clock < wake
  /\ clock' = clock + 1
  /\ UNCHANGED <<pc, timeout, endTime, wake, sources, pending, doClear, open, start, exited>>

-----------------------------------------------------------------------------
Effect == {"none", "exit", "clear"}

Handlers ==
  \E s \in Source, mask \in 0 .. 1, effect \in Effect :
    \/ handleEvent(s, mask, {}, effect)
    \/ \E n \in Source \ (sources \cup open) : handleEvent(s, mask, {n}, effect)

Loop ==
  \/ SelectTimesOut
  \/ \E R \in SUBSET Source : SelectReady(R)
  \/ Handlers
  \/ returns
  \/ loops

Next ==
  \/ \E s \in Source : addSource(s) \/ close(s)
  \/ clear
  \/ \E t \in Timeout : work(t)
  \/ Loop
  \/ SelectFails
  \/ getTime

Spec == Init /\ [][Next]_vars

(* Handlers return, select returns when it has events or its time is up,    *)
(* and the time passes however busy the loop is.                            *)
Fairness == WF_vars(Loop) /\ SF_vars(getTime)

FairSpec == Spec /\ Fairness

-----------------------------------------------------------------------------
(* work never waits for longer than twice its timeout: the last select is   *)
(* started within the time, and given all of it once more.                  *)
WaitsTwiceAtMost ==
  pc = "select" /\ timeout >= 0 => clock <= start + 2 * timeout

(* work goes on until the time has passed, unless exit is called or nothing *)
(* is left to monitor; with -1, for ever. An exit in an earlier call, which *)
(* passed the end of that one, does not end this one.                       *)
NotBeforeTime ==
  [][pc = "pass" /\ pc' = "idle" =>
       \/ exited
       \/ sources' = {}
       \/ timeout >= 0 /\ clock > start + timeout]_vars

(* After a handler has called exit, work does not wait again.               *)
ExitEndsWork == exited => pc # "select"

(* When work waits, it is neither too late for it nor was exit called.       *)
EndsInTime == WaitsTwiceAtMost /\ ExitEndsWork

(* No socket is forgotten: what is monitored is open, and what is open is   *)
(* monitored or was to be kept open, through drops and clears, also clears  *)
(* called by a handler while others are still to be called.                 *)
NoneForgotten == sources \subseteq open /\ open \ sources \subseteq KeepOpen

(* A source that select reported is monitored until its handler is called.  *)
ReportedAreMonitored == pending \subseteq sources

(* Every state has its types, no open socket is forgotten, and what is still
   to be handled in a pass is monitored.                                    *)
SourcesKept == TypeOK /\ NoneForgotten /\ ReportedAreMonitored

(* work returns, although every pass may have events.                       *)
Returns == pc # "idle" /\ timeout >= 0 ~> pc = "idle"

=============================================================================
