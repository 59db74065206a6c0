---------------------------- MODULE WindowMonitor ----------------------------
(***************************************************************************)
(* misc/WindowsMonitor: a thread that wakes on a timer, lists the visible  *)
(* windows of every desktop it opened at start, compares the list with the *)
(* one of its previous pass, and starts one popup thread per new window.   *)
(* A popup thread runs in one critical section and tells the user, on the  *)
(* desktop the user is looking at, of a window that appeared on Default.   *)
(*                                                                         *)
(* Users open, close, retitle, hide and show windows and switch desktops   *)
(* between any two steps of the monitor and of the popup threads.          *)
(***************************************************************************)
EXTENDS Naturals, Sequences

CONSTANTS Desktop,        \* names of the desktops of the window station
          DesktopVec,     \* m_DesktopVec: the desktops EnumDesktop could open
          Default,        \* the desktop named "Default"
          Window,         \* HWND values
          Title,          \* window titles
          NoTitle,        \* what GetWindowText leaves when it returns 0
          BlackList,      \* rows of black_list, the titles Initialize loaded
          QuietTitle,     \* the titles compared at the top of the popup thread
          Nowhere,        \* the place of a handle that names no window
          Thread,         \* the popup threads the process can ever create
          Nobody          \* owner of a free critical section

ASSUME MonitorAssumption ==
  /\ DesktopVec \in Seq(Desktop)
  /\ \A i, j \in DOMAIN DesktopVec : DesktopVec[i] = DesktopVec[j] => i = j
  /\ Default \in Desktop
  /\ NoTitle \notin Title
  /\ Nowhere \notin Desktop
  /\ Nobody \notin Thread

VARIABLES
  place, caption, visible,   \* where each window is, its title, whether it shows
  banned,                    \* windows whose process loads a module of black_process
  input,                     \* the desktop that receives user input
  phase, at, todo,           \* where EnumWindowByDesktop stands in its loop
  previous, current,         \* PreviousTitles and CurrentTitles of each desktop
  attributes,                \* m_WindowAttributeVec; the code keeps no handle in it
  told,                      \* history: <<w, d>> when w was reported as new on d
                             \* and has not been closed, hidden or shown since
  pc, message, desk,         \* the popup threads, their lpParam and dsk
  owner,                     \* OwningThread of CriticalSection
  shown                      \* the popups CreateProcess has started

screen == <<place, caption, visible, banned>>
pass   == <<phase, at, todo, previous, current, attributes>>
popups == <<pc, message, desk, owner, shown>>
vars   == <<screen, input, pass, told, popups>>

Report  == [window : Window, desktop : Desktop, title : Title]
Message == [desktop : Desktop, title : Title \cup {NoTitle}]

TypeOK ==
  /\ place \in [Window -> Desktop \cup {Nowhere}]
  /\ caption \in [Window -> Title \cup {NoTitle}]
  /\ visible \subseteq Window
  /\ banned \subseteq Window
  /\ input \in Desktop
  /\ phase \in {"timer", "list", "callback", "send"}
  /\ at \in Nat
  /\ phase # "timer" => at \in DOMAIN DesktopVec
  /\ todo \subseteq Window
  /\ previous \in [Desktop -> SUBSET Window]
  /\ current \in [Desktop -> SUBSET Window]
  /\ attributes \subseteq Report
  /\ told \subseteq Window \X Desktop
  /\ pc \in [Thread -> {"unused", "start", "inside", "opened", "closing", "done"}]
  /\ message \in [Thread -> Message]
  /\ desk \in [Thread -> Desktop]
  /\ owner \in Thread \cup {Nobody}
  /\ shown \subseteq [title : Title \cup {NoTitle}, on : Desktop]

(* What Initialize leaves: empty title maps, the section free, every popup
   thread still to be created. Windows open before the first timer message
   are windows the users open before the monitor's first step.             *)
Init ==
  /\ place = [w \in Window |-> Nowhere]
  /\ caption = [w \in Window |-> NoTitle]
  /\ visible = {} /\ banned = {}
  /\ input \in Desktop
  /\ phase = "timer" /\ at = 1 /\ todo = {}
  /\ previous = [d \in Desktop |-> {}]
  /\ current = [d \in Desktop |-> {}]
  /\ attributes = {} /\ told = {}
  /\ pc = [t \in Thread |-> "unused"]
  /\ message = [t \in Thread |-> [desktop |-> Default, title |-> NoTitle]]
  /\ desk = [t \in Thread |-> Default]
  /\ owner = Nobody
  /\ shown = {}

------------------------------------------------------------------------------
(* The users and their programs. A window that is opened, closed, hidden or
   shown appears anew: what was told of it belongs to the past.             *)
forget(w) == told' = told \ ({w} \X Desktop)

OpenWindow(w, d, t) ==
  /\ place[w] = Nowhere
  /\ place' = [place EXCEPT ![w] = d]
  /\ caption' = [caption EXCEPT ![w] = t]
  /\ visible' = visible \cup {w}
  /\ banned' \in {banned, banned \cup {w}}
  /\ forget(w)
  /\ UNCHANGED <<input, pass, popups>>

CloseWindow(w) ==
  /\ place[w] # Nowhere
  /\ place' = [place EXCEPT ![w] = Nowhere]
  /\ caption' = [caption EXCEPT ![w] = NoTitle]
  /\ visible' = visible \ {w}
  /\ banned' = banned \ {w}
  /\ forget(w)
  /\ UNCHANGED <<input, pass, popups>>

ShowWindow(w) ==
  /\ place[w] # Nowhere
  /\ visible' = IF w \in visible THEN visible \ {w} ELSE visible \cup {w}
  /\ forget(w)
  /\ UNCHANGED <<place, caption, banned, input, pass, popups>>

SetWindowText(w, t) ==
  /\ place[w] # Nowhere
  /\ caption' = [caption EXCEPT ![w] = t]
  /\ UNCHANGED <<place, visible, banned, input, pass, told, popups>>

SwitchDesktop(d) ==
  /\ input' = d
  /\ UNCHANGED <<screen, pass, told, popups>>

User ==
  \/ \E w \in Window, d \in Desktop, t \in Title \cup {NoTitle} : OpenWindow(w, d, t)
  \/ \E w \in Window : CloseWindow(w) \/ ShowWindow(w)
  \/ \E w \in Window, t \in Title \cup {NoTitle} : SetWindowText(w, t)
  \/ \E d \in Desktop : SwitchDesktop(d)

------------------------------------------------------------------------------
(* The monitor thread: one timer message runs EnumWindowByDesktop.          *)
here == DesktopVec[at]

TimerCallback ==
  /\ phase = "timer"
  /\ DesktopVec # << >>
  /\ phase' = "list"
  /\ at' = 1
  /\ UNCHANGED <<screen, input, todo, previous, current, attributes, told, popups>>

(* The system lists the handles of the desktop, then calls back for each.   *)
EnumDesktopWindows ==
  /\ phase = "list"
  /\ phase' = "callback"
  /\ todo' = {w \in Window : place[w] = here}
  /\ UNCHANGED <<screen, input, at, previous, current, attributes, told, popups>>

(* A window that is hidden, or whose process loads a blacklisted module, is
   not recorded. The handle may by now name another window or none.         *)
EnumDesktopWindowsCallback(w) ==
  /\ phase = "callback"
  /\ w \in todo
  /\ todo' = todo \ {w}
  /\ previous' = IF w \in visible \ banned
                 THEN [previous EXCEPT ![here] = @ \cup {w}]
                 ELSE previous
  /\ UNCHANGED <<screen, input, phase, at, current, attributes, told, popups>>

(* EnumNewWindows, called with PreviousTitles for cur and CurrentTitles for
   pre. An empty pre takes the whole list unreported and leaves cur as it
   is; otherwise what pre lacks and has a title is reported and cur emptied. *)
Fresh == {w \in previous[here] \ current[here] : caption[w] # NoTitle}

PushFresh ==
  /\ attributes' = attributes \cup
       {[window |-> w, desktop |-> here, title |-> caption[w]] : w \in Fresh}
  /\ told' = told \cup (Fresh \X {here})

\* Faults: the empty pre is not filled; pre is not replaced; cur is not emptied.
EnumNewWindows_FirstPassLost ==
  /\ phase = "callback" /\ todo = {} /\ phase' = "send"
  /\ \/ current[here] = {} /\ UNCHANGED <<previous, current, attributes, told>>
     \/ /\ current[here] # {}
        /\ current' = [current EXCEPT ![here] = previous[here]]
        /\ PushFresh
        /\ previous' = [previous EXCEPT ![here] = {}]
  /\ UNCHANGED <<screen, input, at, todo, popups>>

EnumNewWindows_KeepsPre ==
  /\ phase = "callback" /\ todo = {} /\ phase' = "send"
  /\ \/ /\ current[here] = {}
        /\ current' = [current EXCEPT ![here] = previous[here]]
        /\ UNCHANGED <<previous, attributes, told>>
     \/ /\ current[here] # {}
        /\ PushFresh
        /\ previous' = [previous EXCEPT ![here] = {}]
        /\ UNCHANGED current
  /\ UNCHANGED <<screen, input, at, todo, popups>>

EnumNewWindows_KeepsCur ==
  /\ phase = "callback" /\ todo = {} /\ phase' = "send"
  /\ current' = [current EXCEPT ![here] = previous[here]]
  /\ UNCHANGED <<screen, input, at, todo, previous, attributes, told, popups>>

EnumNewWindows ==
  /\ phase = "callback"
  /\ todo = {}
  /\ phase' = "send"
  /\ current' = [current EXCEPT ![here] = previous[here]]
  /\ \/ /\ current[here] = {}
        /\ UNCHANGED <<previous, attributes, told>>
     \/ /\ current[here] # {}
        /\ PushFresh
        /\ previous' = [previous EXCEPT ![here] = {}]
  /\ UNCHANGED <<screen, input, at, todo, popups>>

\* Fault: the title is not looked up in black_list.
Transport2Server_Unfiltered(r) ==
  /\ phase = "send" /\ r \in attributes
  /\ attributes' = attributes \ {r}
  /\ \E t \in Thread :
       /\ pc[t] = "unused"
       /\ pc' = [pc EXCEPT ![t] = "start"]
       /\ message' = [message EXCEPT ![t] = [desktop |-> r.desktop, title |-> r.title]]
  /\ UNCHANGED <<screen, input, phase, at, todo, previous, current, told, desk,
                 owner, shown>>

(* One turn of the loop of Transport2Server. CreateThread fails when the
   process has created all the threads it can: the thread handles are never
   closed. The report is then lost, as the result is not looked at.         *)
Transport2Server(r) ==
  /\ phase = "send"
  /\ r \in attributes
  /\ attributes' = attributes \ {r}
  /\ \/ /\ r.title \in BlackList
        /\ UNCHANGED <<pc, message>>
     \/ /\ r.title \notin BlackList
        /\ \A t \in Thread : pc[t] # "unused"
        /\ UNCHANGED <<pc, message>>
     \/ /\ r.title \notin BlackList
        /\ \E t \in Thread :
             /\ pc[t] = "unused"
             /\ pc' = [pc EXCEPT ![t] = "start"]
             /\ message' = [message EXCEPT
                  ![t] = [desktop |-> r.desktop, title |-> r.title]]
  /\ UNCHANGED <<screen, input, phase, at, todo, previous, current, told, desk,
                 owner, shown>>

(* The loop of EnumWindowByDesktop goes on to the next desktop or returns;
   RefreshWindowMap does nothing.                                           *)
NextDesktop ==
  /\ phase = "send"
  /\ attributes = {}
  /\ \/ /\ at < Len(DesktopVec)
        /\ at' = at + 1
        /\ phase' = "list"
     \/ /\ at >= Len(DesktopVec)
        /\ at' = 1
        /\ phase' = "timer"
  /\ UNCHANGED <<screen, input, todo, previous, current, attributes, told, popups>>

MonitorThread ==
  \/ TimerCallback
  \/ EnumDesktopWindows
  \/ \E w \in Window : EnumDesktopWindowsCallback(w)
  \/ EnumNewWindows
  \/ \E r \in attributes : Transport2Server(r)
  \/ NextDesktop

------------------------------------------------------------------------------
\* Fault: the section is entered without waiting for its owner.
EnterCriticalSection_NoWait(t) ==
  /\ pc[t] = "start"
  /\ owner' = t
  /\ pc' = [pc EXCEPT ![t] = "inside"]
  /\ UNCHANGED <<screen, input, pass, told, message, desk, shown>>

(* ShowPopupWindowThread, from EnterCriticalSection to its return.          *)
EnterCriticalSection(t) ==
  /\ pc[t] = "start"
  /\ owner = Nobody
  /\ owner' = t
  /\ pc' = [pc EXCEPT ![t] = "inside"]
  /\ UNCHANGED <<screen, input, pass, told, message, desk, shown>>

OpenInputDesktop(t) ==
  /\ pc[t] = "inside"
  /\ desk' = [desk EXCEPT ![t] = input]
  /\ pc' = [pc EXCEPT ![t] = "opened"]
  /\ UNCHANGED <<screen, input, pass, told, message, owner, shown>>

(* The early return: neither CloseDesktop nor LeaveCriticalSection is called. *)
ReturnQuietly(t) ==
  /\ pc[t] = "opened"
  /\ message[t].title \in QuietTitle
  /\ pc' = [pc EXCEPT ![t] = "done"]
  /\ UNCHANGED <<screen, input, pass, told, message, desk, owner, shown>>

\* Fault: the popup does not depend on the title.
ShowPopup_AnyTitle(t) ==
  /\ pc[t] = "opened"
  /\ pc' = [pc EXCEPT ![t] = "closing"]
  /\ shown' = shown \cup {[title |-> message[t].title, on |-> desk[t]]}
  /\ UNCHANGED <<screen, input, pass, told, message, desk, owner>>

(* CreateProcess may fail: its result is not looked at.                     *)
ShowPopup(t) ==
  /\ pc[t] = "opened"
  /\ message[t].title \notin QuietTitle
  /\ pc' = [pc EXCEPT ![t] = "closing"]
  /\ \/ /\ message[t].desktop = Default
        /\ desk[t] # Default
        /\ shown' = shown \cup {[title |-> message[t].title, on |-> desk[t]]}
     \/ UNCHANGED shown
  /\ UNCHANGED <<screen, input, pass, told, message, desk, owner>>

LeaveCriticalSection(t) ==
  /\ pc[t] = "closing"
  /\ pc' = [pc EXCEPT ![t] = "done"]
  /\ owner' = Nobody
  /\ UNCHANGED <<screen, input, pass, told, message, desk, shown>>

ShowPopupWindowThread(t) ==
  \/ EnterCriticalSection(t)
  \/ OpenInputDesktop(t)
  \/ ReturnQuietly(t)
  \/ ShowPopup(t)
  \/ LeaveCriticalSection(t)

------------------------------------------------------------------------------
Next ==
  \/ User
  \/ MonitorThread
  \/ \E t \in Thread : ShowPopupWindowThread(t)

(* The system keeps delivering timer messages to the monitor's message loop
   and keeps scheduling runnable threads; users owe nothing.                *)
Fairness ==
  /\ WF_vars(MonitorThread)
  /\ \A t \in Thread : WF_vars(ShowPopupWindowThread(t))

Spec == Init /\ [][Next]_vars
FairSpec == Spec /\ Fairness
------------------------------------------------------------------------------
(* A handle an earlier pass left in PreviousTitles is in CurrentTitles too,
   so that a window that was not seen in this pass is never taken for a new
   one. EnumNewWindows is called with the two maps swapped, and empties only
   one of them, on one of its two paths.                                    *)
LeftoversAreKnown ==
  \A d \in Desktop :
    (phase = "callback" => d # here) => previous[d] \subseteq current[d]

(* Between any two steps everything has its type, and what earlier passes
   left behind in the maps is known.                                        *)
MapsSound == TypeOK /\ LeftoversAreKnown

(* While a window stays open and shown on a desktop, one report of it is all
   the monitor makes for that desktop, whatever happens between listing the
   handles, calling back for each of them, and reading the titles.          *)
ReportedOnce ==
  [][\A r \in attributes' \ attributes : <<r.window, r.desktop>> \notin told]_vars

(* The critical section is held by a thread that is still going to leave it,
   or was abandoned at the early return by a thread whose title is compared
   there and is missing from black_list.                                    *)
HeldOrAbandoned ==
  owner # Nobody =>
    \/ pc[owner] \in {"inside", "opened", "closing"}
    \/ /\ pc[owner] = "done"
       /\ message[owner].title \in QuietTitle \ BlackList

(* Between EnterCriticalSection and LeaveCriticalSection a thread owns the
   section, also after other threads have abandoned or left it.             *)
InsideOwns ==
  \A t \in Thread : pc[t] \in {"inside", "opened", "closing"} => owner = t

(* However threads enter, leave and abandon the section, it is owned by the
   one thread inside it, or by one that has ended with a title the file
   should have listed.                                                      *)
SectionKept == HeldOrAbandoned /\ InsideOwns

(* No popup carries a title that either list was meant to silence.          *)
SilencedNeverShown ==
  \A p \in shown : p.title \notin BlackList \cup QuietTitle

(* What every pass records: a window that stays shown on a monitored desktop
   reaches CurrentTitles.                                                   *)
OnScreen(w, d) == place[w] = d /\ w \in visible \ banned

Noticed ==
  \A w \in Window : \A i \in DOMAIN DesktopVec :
    OnScreen(w, DesktopVec[i]) ~>
      (w \in current[DesktopVec[i]] \/ ~ OnScreen(w, DesktopVec[i]))

(* And what every pass drops: once the users no longer open a window with a
   handle on a desktop, the handle leaves that desktop's CurrentTitles for
   good, also when the pass that saw it last did not empty PreviousTitles.  *)
Forgotten ==
  \A w \in Window : \A i \in DOMAIN DesktopVec :
    <>[](place[w] # DesktopVec[i]) => <>[](w \notin current[DesktopVec[i]])

(* CurrentTitles follows the screen.                                        *)
RecordFollowsScreen == Noticed /\ Forgotten

(* A popup thread that has entered the critical section leaves it: no popup
   holds up the others for ever.                                            *)
SectionIsReleased == (owner # Nobody) ~> (owner = Nobody)
==============================================================================
