------------------------------- MODULE Process -------------------------------
(***************************************************************************)
(* The lists of misc/Process/Process.cpp: a snapshot of the system's        *)
(* processes, of the modules of one process or of all threads is walked,    *)
(* and what fits is copied into the caller's array. What the calls of the   *)
(* system give, and which of them fail, is any choice.                      *)
(***************************************************************************)
EXTENDS Naturals, Sequences, FiniteSets

CONSTANTS Pid, m_pid,     \* processes, and the one of the object
          MaxLength,      \* of the caller's array
          MaxEntries      \* in a snapshot

VARIABLES
  call,      \* function that was called last, or "none"
  step,      \* where it stands, "out" when it has returned
  array, need,
  walk,      \* entries of the snapshot that are still to be visited
  count,
  handles,   \* open handles of the function
  result,    \* what it returned
  taken      \* history: the snapshot

vars == <<call, step, array, need, walk, count, handles, result, taken>>

Blank == [id |-> 0]
Unset == MaxEntries + 1

(* Threads of all processes come in one list, modules only of m_pid.        *)
Entry(l, i) ==
  CASE l = "GetProcessList" -> [id : {i}, owner : Pid]
    [] l = "ListProcessModules" -> [id : {i}, owner : {m_pid}]
    [] l = "ListProcessThreads" -> [id : {i}, owner : Pid]
Snapshots(l) ==
  UNION {{t \in [1..n -> UNION {Entry(l, i) : i \in 1..n}] : \A i \in 1..n : t[i].id = i} : n \in 0..MaxEntries}

Lists == {"GetProcessList", "ListProcessModules", "ListProcessThreads"}

Init ==
  /\ call = "none" /\ step = "out" /\ array = << >> /\ need = Unset
  /\ walk = << >> /\ count = 0 /\ handles = {} /\ result = "none" /\ taken = << >>

Call(f, n) ==
  /\ step = "out"
  /\ call' = f /\ step' = "start"
  /\ array' = [i \in 1..n |-> Blank] /\ need' = Unset /\ count' = 0
  /\ result' = "none" /\ walk' = << >> /\ taken' = << >>
  /\ UNCHANGED handles

return(r) == result' = r /\ step' = "out" /\ UNCHANGED call

-----------------------------------------------------------------------------
SnapshotFails ==
  /\ call \in Lists /\ step = "start"
  /\ return("false")
  /\ UNCHANGED <<array, need, walk, count, handles, taken>>

CreateToolhelp32Snapshot ==
  /\ call \in Lists /\ step = "start"
  /\ \E t \in Snapshots(call) : walk' = t /\ taken' = t
  /\ handles' = handles \cup {"snapshot"}
  /\ step' = "first"
  /\ UNCHANGED <<call, array, need, count, result>>

(* There is no entry, or the call fails.                                    *)
FirstFails ==
  /\ step = "first"
  /\ handles' = handles \ {"snapshot"}
  /\ return("false")
  /\ UNCHANGED <<array, need, walk, count, taken>>

First ==
  /\ step = "first" /\ walk # << >>
  /\ step' = IF call = "GetProcessList" THEN "open" ELSE "entry"
  /\ UNCHANGED <<call, array, need, walk, count, handles, result, taken>>

(* Each process is opened for its priority, or cannot be.                   *)
OpenProcess ==
  /\ call = "GetProcessList" /\ step = "open"
  /\ handles' \in {handles, handles \cup {"process"}}
  /\ step' = "entry"
  /\ UNCHANGED <<call, array, need, walk, count, result, taken>>

wanted(e) == call = "ListProcessThreads" => e.owner = m_pid

\* Fault: the place in the array is that of the entry in the snapshot.
NextEntry_Unfiltered ==
  /\ step = "entry"
  /\ LET e == Head(walk) IN
       /\ count' = count + 1
       /\ array' = IF wanted(e) /\ count < Len(array) THEN [array EXCEPT ![count + 1] = e] ELSE array
  /\ handles' = handles \ {"process"}
  /\ walk' = Tail(walk)
  /\ step' = IF walk' = << >> THEN "last" ELSE IF call = "GetProcessList" THEN "open" ELSE "entry"
  /\ UNCHANGED <<call, need, result, taken>>

NextEntry ==
  /\ step = "entry"
  /\ LET e == Head(walk) IN
       /\ count' = IF wanted(e) THEN count + 1 ELSE count
       /\ array' = IF wanted(e) /\ count < Len(array) THEN [array EXCEPT ![count + 1] = e] ELSE array
  /\ handles' = handles \ {"process"}
  /\ walk' = Tail(walk)
  /\ step' = IF walk' = << >> THEN "last" ELSE IF call = "GetProcessList" THEN "open" ELSE "entry"
  /\ UNCHANGED <<call, need, result, taken>>

Last ==
  /\ step = "last"
  /\ need' = count
  /\ handles' = handles \ {"snapshot"}
  /\ return("true")
  /\ UNCHANGED <<array, walk, count, taken>>

-----------------------------------------------------------------------------
(* The token is opened, or not; it is closed whether or not the privilege   *)
(* could be set.                                                            *)
OpenProcessToken ==
  /\ call = "GetProcessById" /\ step = "start"
  /\ \/ handles' = handles \cup {"token"} /\ step' = "adjust"
     \/ UNCHANGED handles /\ step' = "privileged"
  /\ UNCHANGED <<call, array, need, walk, count, result, taken>>

EnableDebugPrivilege ==
  /\ step = "adjust"
  /\ handles' = handles \ {"token"}
  /\ step' = "privileged"
  /\ UNCHANGED <<call, array, need, walk, count, result, taken>>

(* The process is opened in either case, and its handle is the caller's.    *)
GetProcessById ==
  /\ step = "privileged"
  /\ \E r \in {"handle", "NULL"} : return(r)
  /\ UNCHANGED <<array, need, walk, count, handles, taken>>

Next ==
  \/ \E f \in Lists, n \in 0..MaxLength : Call(f, n)
  \/ Call("GetProcessById", 0)
  \/ SnapshotFails \/ CreateToolhelp32Snapshot \/ FirstFails \/ First
  \/ OpenProcess \/ NextEntry \/ Last
  \/ OpenProcessToken \/ EnableDebugPrivilege \/ GetProcessById

Spec == Init /\ [][Next]_vars

-----------------------------------------------------------------------------
(* How many of the first k entries of the snapshot are wanted.              *)
rank(k) == Cardinality({j \in 1..k : wanted(taken[j])})

(* A call that succeeds has copied the wanted entries in the order of the   *)
(* snapshot, as many as fit, and says how many there are, so that a caller  *)
(* with too small an array knows what to ask for; one that fails has        *)
(* written nothing; and on every way out the handles it opened are closed.  *)
SnapshotsSound ==
  step = "out" =>
    /\ handles = {}
    /\ result = "false" => need = Unset /\ \A i \in DOMAIN array : array[i] = Blank
    /\ result = "true" =>
         /\ need = rank(Len(taken))
         /\ \A k \in DOMAIN taken :
              wanted(taken[k]) /\ rank(k) <= Len(array) => array[rank(k)] = taken[k]
         /\ \A i \in DOMAIN array : need < i => array[i] = Blank
==============================================================================
