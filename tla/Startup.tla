------------------------------- MODULE Startup -------------------------------
(***************************************************************************)
(* wWinMain and WindowMonitor::Initialize: how an instance of              *)
(* WindowMonitor.exe comes to monitor, or ends. Several instances may be   *)
(* started; a named mutex lets one of them through. Its name exists while  *)
(* any process holds a handle of it, and handles are closed only when the  *)
(* process ends.                                                           *)
(***************************************************************************)
EXTENDS Naturals, Sequences, FiniteSets

CONSTANTS Instance,   \* processes started from WindowMonitor.exe
          Desktop     \* desktops of the window station

VARIABLES pc,         \* where wWinMain stands in each instance
          holders,    \* instances with a handle of the mutex
          vec,        \* m_DesktopVec
          listed,     \* desktops EnumDesktops has still to call back for
          lists,      \* black_list and black_process are loaded
          section,    \* CriticalSection
          monitoring  \* the monitor thread is running

vars == <<pc, holders, vec, listed, lists, section, monitoring>>

alive(p) == pc[p] \notin {"idle", "gone"}
running(p) == pc[p] \notin {"idle", "gone", "refused"}

TypeOK ==
  /\ pc \in [Instance -> {"idle", "refused", "new", "station", "section",
                          "thread", "watch", "clean", "gone"}]
  /\ holders \subseteq Instance
  /\ vec \in [Instance -> Seq(Desktop)]
  /\ listed \in [Instance -> SUBSET Desktop]
  /\ lists \in [Instance -> BOOLEAN]
  /\ section \in [Instance -> {"raw", "ready", "deleted"}]
  /\ monitoring \in [Instance -> BOOLEAN]

Init ==
  /\ pc = [p \in Instance |-> "idle"]
  /\ holders = {}
  /\ vec = [p \in Instance |-> << >>]
  /\ listed = [p \in Instance |-> {}]
  /\ lists = [p \in Instance |-> FALSE]
  /\ section = [p \in Instance |-> "raw"]
  /\ monitoring = [p \in Instance |-> FALSE]

goto(p, l) == pc' = [pc EXCEPT ![p] = l]
memory == <<vec, listed, lists, section, monitoring>>

\* Fault: the handle is closed at once.
CreateUniqueInstance_Closed(p) ==
  /\ pc[p] = "idle"
  /\ goto(p, IF holders = {} THEN "new" ELSE "refused")
  /\ UNCHANGED <<holders, memory>>

(* CreateMutex gives a handle whether or not the name existed, or fails.    *)
CreateUniqueInstance(p) ==
  /\ pc[p] = "idle"
  /\ \/ /\ holders = {}
        /\ goto(p, "new")
        /\ holders' = holders \cup {p}
     \/ /\ holders # {}
        /\ goto(p, "refused")
        /\ holders' = holders \cup {p}
     \/ /\ goto(p, "refused")
        /\ UNCHANGED holders
  /\ UNCHANGED memory

(* GetProcessWindowStation; without a station Initialize returns false.     *)
OpenStation(p) ==
  /\ pc[p] = "new"
  /\ \/ /\ goto(p, "station")
        /\ listed' = [listed EXCEPT ![p] = Desktop]
     \/ /\ goto(p, "clean")
        /\ UNCHANGED listed
  /\ UNCHANGED <<holders, vec, lists, section, monitoring>>

(* One call of EnumDesktopCallback: a desktop that cannot be opened is left
   out.                                                                     *)
EnumDesktopCallback(p, d) ==
  /\ pc[p] = "station"
  /\ d \in listed[p]
  /\ listed' = [listed EXCEPT ![p] = @ \ {d}]
  /\ vec' \in {vec, [vec EXCEPT ![p] = Append(@, d)]}
  /\ UNCHANGED <<pc, holders, lists, section, monitoring>>

(* black_list.config.txt is read; without the file fgets gets a null FILE
   and the process ends.                                                    *)
LoadLists(p) ==
  /\ pc[p] = "station"
  /\ listed[p] = {}
  /\ goto(p, "section")
  /\ lists' = [lists EXCEPT ![p] = TRUE]
  /\ UNCHANGED <<holders, vec, listed, section, monitoring>>

InitializeCriticalSection(p) ==
  /\ pc[p] = "section"
  /\ \/ /\ goto(p, "thread")
        /\ section' = [section EXCEPT ![p] = "ready"]
     \/ /\ goto(p, "clean")
        /\ UNCHANGED section
  /\ UNCHANGED <<holders, vec, listed, lists, monitoring>>

\* Fault: the thread is created before the critical section.
CreateMonitorThread_Early(p) ==
  /\ pc[p] \in {"section", "thread"}
  /\ ~ monitoring[p]
  /\ monitoring' = [monitoring EXCEPT ![p] = TRUE]
  /\ UNCHANGED <<pc, holders, vec, listed, lists, section>>

(* CreateThread may fail; its result is not looked at, Initialize returns
   true and wWinMain sleeps for ever.                                       *)
CreateMonitorThread(p) ==
  /\ pc[p] = "thread"
  /\ goto(p, "watch")
  /\ monitoring' \in {monitoring, [monitoring EXCEPT ![p] = TRUE]}
  /\ UNCHANGED <<holders, vec, listed, lists, section>>

(* Safe_Delete runs the destructor and with it Clean, after a failure only. *)
Clean(p) ==
  /\ pc[p] = "clean"
  /\ goto(p, "refused")
  /\ section' = [section EXCEPT ![p] = "deleted"]
  /\ UNCHANGED <<holders, vec, listed, lists, monitoring>>

(* The process returns from wWinMain, is killed, or crashes; the system
   closes its handles. A new instance may then be started in its place.     *)
ProcessEnds(p) ==
  /\ alive(p)
  /\ goto(p, "gone")
  /\ holders' = holders \ {p}
  /\ monitoring' = [monitoring EXCEPT ![p] = FALSE]
  /\ UNCHANGED <<vec, listed, lists, section>>

Next ==
  \E p \in Instance :
    \/ CreateUniqueInstance(p)
    \/ OpenStation(p)
    \/ \E d \in Desktop : EnumDesktopCallback(p, d)
    \/ LoadLists(p)
    \/ InitializeCriticalSection(p)
    \/ CreateMonitorThread(p)
    \/ Clean(p)
    \/ ProcessEnds(p)

Spec == Init /\ [][Next]_vars

------------------------------------------------------------------------------
(* However many instances are started, killed and started again, one at most
   is past CreateUniqueInstance, and its handle keeps the name in being.    *)
UniqueInstance ==
  \A p, q \in Instance : running(p) => p \in holders /\ (running(q) => p = q)

(* The monitor thread uses the desktops, the lists and the section without
   any lock: all of them are final before the thread exists.                *)
ThreadFindsAll ==
  \A p \in Instance : monitoring[p] =>
    lists[p] /\ section[p] = "ready" /\ listed[p] = {}
==============================================================================
