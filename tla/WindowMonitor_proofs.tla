------------------------- MODULE WindowMonitor_proofs -------------------------
(* Theorems about WindowMonitor, for every set of windows, desktops, titles
   and popup threads.                                                       *)
EXTENDS WindowMonitor, TLAPS

(* The type invariant of the monitor, its popup threads and the windows they
   look at.                                                                 *)
THEOREM Typing == Spec => []TypeOK
<1>1. Init => TypeOK
  BY MonitorAssumption DEF Init, TypeOK, Message
<1>2. TypeOK /\ [Next]_vars => TypeOK'
  <2> SUFFICES ASSUME TypeOK, [Next]_vars PROVE TypeOK'
    OBVIOUS
  <2> USE MonitorAssumption
  <2>1. ASSUME NEW w \in Window, NEW d \in Desktop, NEW t \in Title \cup {NoTitle},
               OpenWindow(w, d, t)
        PROVE  TypeOK'
    BY <2>1 DEF OpenWindow, TypeOK, forget, pass, popups
  <2>2. ASSUME NEW w \in Window, CloseWindow(w) PROVE TypeOK'
    BY <2>2 DEF CloseWindow, TypeOK, forget, pass, popups
  <2>3. ASSUME NEW w \in Window, ShowWindow(w) PROVE TypeOK'
    BY <2>3 DEF ShowWindow, TypeOK, forget, pass, popups
  <2>4. ASSUME NEW w \in Window, NEW t \in Title \cup {NoTitle}, SetWindowText(w, t)
        PROVE  TypeOK'
    BY <2>4 DEF SetWindowText, TypeOK, pass, popups
  <2>5. ASSUME NEW d \in Desktop, SwitchDesktop(d) PROVE TypeOK'
    BY <2>5 DEF SwitchDesktop, TypeOK, screen, pass, popups
  <2>6. CASE TimerCallback
    BY <2>6 DEF TimerCallback, TypeOK, screen, popups
  <2>7. CASE EnumDesktopWindows
    BY <2>7 DEF EnumDesktopWindows, TypeOK, screen, popups
  <2>8. ASSUME NEW w \in Window, EnumDesktopWindowsCallback(w) PROVE TypeOK'
    BY <2>8 DEF EnumDesktopWindowsCallback, TypeOK, screen, popups, here
  <2>9. CASE EnumNewWindows
    <3>1. here \in Desktop /\ Fresh \subseteq Window
      BY <2>9 DEF EnumNewWindows, PushFresh, TypeOK, here, Fresh
    <3>2. \A w \in Fresh : caption[w] \in Title
      BY <3>1 DEF Fresh, TypeOK
    <3>3. attributes' \subseteq Report /\ told' \subseteq Window \X Desktop
      BY <2>9, <3>1, <3>2 DEF EnumNewWindows, PushFresh, TypeOK, Report
    <3>4. QED
      BY <2>9, <3>1, <3>3 DEF EnumNewWindows, PushFresh, TypeOK, screen, popups
  <2>10. ASSUME NEW r \in attributes, Transport2Server(r) PROVE TypeOK'
    <3>1. [desktop |-> r.desktop, title |-> r.title] \in Message
      BY DEF TypeOK, Report, Message
    <3>2. QED
      BY <2>10, <3>1 DEF Transport2Server, TypeOK, screen
  <2>11. CASE NextDesktop
    BY <2>11 DEF NextDesktop, TypeOK, screen, popups
  <2>12. ASSUME NEW t \in Thread, EnterCriticalSection(t) PROVE TypeOK'
    BY <2>12 DEF EnterCriticalSection, TypeOK, screen, pass
  <2>13. ASSUME NEW t \in Thread, OpenInputDesktop(t) PROVE TypeOK'
    BY <2>13 DEF OpenInputDesktop, TypeOK, screen, pass
  <2>14. ASSUME NEW t \in Thread, ReturnQuietly(t) PROVE TypeOK'
    BY <2>14 DEF ReturnQuietly, TypeOK, screen, pass
  <2>15. ASSUME NEW t \in Thread, ShowPopup(t) PROVE TypeOK'
    <3>1. [title |-> message[t].title, on |-> desk[t]]
            \in [title : Title \cup {NoTitle}, on : Desktop]
      BY DEF TypeOK, Message
    <3>2. QED
      BY <2>15, <3>1 DEF ShowPopup, TypeOK, screen, pass
  <2>16. ASSUME NEW t \in Thread, LeaveCriticalSection(t) PROVE TypeOK'
    BY <2>16 DEF LeaveCriticalSection, TypeOK, screen, pass
  <2>17. CASE UNCHANGED vars
    BY <2>17 DEF vars, screen, pass, popups, TypeOK
  <2>18. QED
    BY <2>1, <2>2, <2>3, <2>4, <2>5, <2>6, <2>7, <2>8, <2>9, <2>10, <2>11,
       <2>12, <2>13, <2>14, <2>15, <2>16, <2>17
       DEF Next, User, MonitorThread, ShowPopupWindowThread
<1>3. QED
  BY <1>1, <1>2, PTL DEF Spec

------------------------------------------------------------------------------
(* What makes the ownership invariants inductive: a thread that was created
   carries a title black_list lacks.                                        *)
CreatedNotBlack ==
  \A t \in Thread : pc[t] # "unused" => message[t].title \notin BlackList

LockInv == InsideOwns /\ HeldOrAbandoned /\ CreatedNotBlack

LEMMA LockInvariance == Spec => []LockInv
<1>1. Init => LockInv
  BY MonitorAssumption DEF Init, LockInv, InsideOwns, HeldOrAbandoned, CreatedNotBlack
<1>2. TypeOK /\ LockInv /\ [Next]_vars => LockInv'
  <2> SUFFICES ASSUME TypeOK, LockInv, [Next]_vars PROVE LockInv'
    OBVIOUS
  <2> USE MonitorAssumption
  <2>1. ASSUME UNCHANGED <<pc, message, owner>> PROVE LockInv'
    BY <2>1 DEF LockInv, InsideOwns, HeldOrAbandoned, CreatedNotBlack
  <2>2. CASE User
    <3>1. UNCHANGED popups
      BY <2>2 DEF User, OpenWindow, CloseWindow, ShowWindow, SetWindowText, SwitchDesktop
    <3>2. QED
      BY <2>1, <3>1 DEF popups
  <2>3. ASSUME NEW r \in attributes, Transport2Server(r) PROVE LockInv'
    <3>1. CASE UNCHANGED <<pc, message>>
      BY <2>1, <2>3, <3>1 DEF Transport2Server
    <3>2. ASSUME NEW t \in Thread,
                 r.title \notin BlackList,
                 pc[t] = "unused",
                 pc' = [pc EXCEPT ![t] = "start"],
                 message' = [message EXCEPT
                   ![t] = [desktop |-> r.desktop, title |-> r.title]],
                 owner' = owner
          PROVE  LockInv'
      <4>1. InsideOwns'
        BY <3>2 DEF LockInv, InsideOwns, TypeOK
      <4>2. HeldOrAbandoned'
        BY <3>2 DEF LockInv, HeldOrAbandoned, TypeOK
      <4>3. CreatedNotBlack'
        BY <3>2 DEF LockInv, CreatedNotBlack, TypeOK
      <4>4. QED
        BY <4>1, <4>2, <4>3 DEF LockInv
    <3>3. QED
      BY <2>3, <3>1, <3>2 DEF Transport2Server
  <2>4. CASE MonitorThread /\ ~ \E r \in attributes : Transport2Server(r)
    <3>1. UNCHANGED popups
      BY <2>4 DEF MonitorThread, TimerCallback, EnumDesktopWindows,
                  EnumDesktopWindowsCallback, EnumNewWindows, PushFresh, NextDesktop
    <3>2. QED
      BY <2>1, <3>1 DEF popups
  <2>5. ASSUME NEW t \in Thread, EnterCriticalSection(t) PROVE LockInv'
    BY <2>5 DEF EnterCriticalSection, LockInv, InsideOwns, HeldOrAbandoned,
                CreatedNotBlack, TypeOK
  <2>6. ASSUME NEW t \in Thread, OpenInputDesktop(t) PROVE LockInv'
    BY <2>6 DEF OpenInputDesktop, LockInv, InsideOwns, HeldOrAbandoned,
                CreatedNotBlack, TypeOK
  <2>7. ASSUME NEW t \in Thread, ReturnQuietly(t) PROVE LockInv'
    BY <2>7 DEF ReturnQuietly, LockInv, InsideOwns, HeldOrAbandoned,
                CreatedNotBlack, TypeOK
  <2>8. ASSUME NEW t \in Thread, ShowPopup(t) PROVE LockInv'
    BY <2>8 DEF ShowPopup, LockInv, InsideOwns, HeldOrAbandoned,
                CreatedNotBlack, TypeOK
  <2>9. ASSUME NEW t \in Thread, LeaveCriticalSection(t) PROVE LockInv'
    BY <2>9 DEF LeaveCriticalSection, LockInv, InsideOwns, HeldOrAbandoned,
                CreatedNotBlack, TypeOK
  <2>10. CASE UNCHANGED vars
    BY <2>1, <2>10 DEF vars, popups
  <2>11. QED
    BY <2>2, <2>3, <2>4, <2>5, <2>6, <2>7, <2>8, <2>9, <2>10
       DEF Next, ShowPopupWindowThread
<1>3. QED
  BY <1>1, <1>2, Typing, PTL DEF Spec

(* The owner of the critical section is a thread on its way to leaving it,
   or one that returned early with a title black_list does not filter.      *)
THEOREM SectionHeldOrAbandoned == Spec => []HeldOrAbandoned
<1>1. LockInv => HeldOrAbandoned
  BY DEF LockInv
<1>2. QED
  BY <1>1, LockInvariance, PTL

(* At most one popup thread is between EnterCriticalSection and
   LeaveCriticalSection, and it is the owner.                               *)
THEOREM SectionIsExclusive == Spec => []InsideOwns
<1>1. LockInv => InsideOwns
  BY DEF LockInv
<1>2. QED
  BY <1>1, LockInvariance, PTL

(* A configuration that lists every title the popup thread compares never
   loses the critical section to a thread that has ended.                   *)
THEOREM FullListNeverAbandons ==
  ASSUME QuietTitle \subseteq BlackList
  PROVE  Spec => [](owner # Nobody => pc[owner] # "done")
<1>1. HeldOrAbandoned => (owner # Nobody => pc[owner] # "done")
  BY DEF HeldOrAbandoned
<1>2. QED
  BY <1>1, SectionHeldOrAbandoned, PTL

------------------------------------------------------------------------------
(* No popup is started with a title of either list: the monitor thread
   filters one of them, the popup thread the other.                         *)
THEOREM SilencedTitlesStaySilent == Spec => []SilencedNeverShown
<1>1. Init => SilencedNeverShown
  BY DEF Init, SilencedNeverShown
<1>2. LockInv /\ SilencedNeverShown /\ [Next]_vars => SilencedNeverShown'
  <2> SUFFICES ASSUME LockInv, SilencedNeverShown, [Next]_vars
               PROVE  SilencedNeverShown'
    OBVIOUS
  <2>1. ASSUME NEW t \in Thread, ShowPopup(t) PROVE SilencedNeverShown'
    <3>1. message[t].title \notin BlackList \cup QuietTitle
      BY <2>1 DEF ShowPopup, LockInv, CreatedNotBlack
    <3>2. QED
      BY <2>1, <3>1 DEF ShowPopup, SilencedNeverShown
  <2>2. CASE UNCHANGED shown
    BY <2>2 DEF SilencedNeverShown
  <2>3. CASE User \/ MonitorThread
    <3>1. UNCHANGED shown
      BY <2>3 DEF User, OpenWindow, CloseWindow, ShowWindow, SetWindowText,
                  SwitchDesktop, MonitorThread, TimerCallback, EnumDesktopWindows,
                  EnumDesktopWindowsCallback, EnumNewWindows, Transport2Server,
                  NextDesktop, popups
    <3>2. QED
      BY <2>2, <3>1
  <2>4. QED
    BY <2>1, <2>2, <2>3
       DEF Next, ShowPopupWindowThread, EnterCriticalSection, OpenInputDesktop,
           ReturnQuietly, LeaveCriticalSection, vars, popups
<1>3. QED
  BY <1>1, <1>2, LockInvariance, PTL DEF Spec

------------------------------------------------------------------------------
(* The two title maps never let a stale handle pass for a new window.       *)
THEOREM LeftoversStayKnown == Spec => []LeftoversAreKnown
<1>1. Init => LeftoversAreKnown
  BY DEF Init, LeftoversAreKnown
<1>2. TypeOK /\ LeftoversAreKnown /\ [Next]_vars => LeftoversAreKnown'
  <2> SUFFICES ASSUME TypeOK, LeftoversAreKnown, [Next]_vars,
                      NEW d \in Desktop,
                      (phase = "callback" => d # here)'
               PROVE  previous'[d] \subseteq current'[d]
    BY DEF LeftoversAreKnown
  <2>1. ASSUME UNCHANGED <<phase, at, previous, current>>
        PROVE  previous'[d] \subseteq current'[d]
    BY <2>1 DEF LeftoversAreKnown, here
  <2>2. CASE User
    <3>1. UNCHANGED pass
      BY <2>2 DEF User, OpenWindow, CloseWindow, ShowWindow, SetWindowText, SwitchDesktop
    <3>2. QED
      BY <2>1, <3>1 DEF pass
  <2>3. CASE TimerCallback
    BY <2>3 DEF TimerCallback, LeftoversAreKnown
  <2>4. CASE EnumDesktopWindows
    BY <2>4 DEF EnumDesktopWindows, LeftoversAreKnown, here
  <2>5. ASSUME NEW w \in Window, EnumDesktopWindowsCallback(w)
        PROVE  previous'[d] \subseteq current'[d]
    <3>1. d # here
      BY <2>5 DEF EnumDesktopWindowsCallback, here
    <3>2. QED
      BY <2>5, <3>1 DEF EnumDesktopWindowsCallback, LeftoversAreKnown, TypeOK
  <2>6. CASE EnumNewWindows
    <3>1. CASE d = here
      BY <2>6, <3>1 DEF EnumNewWindows, PushFresh, TypeOK
    <3>2. CASE d # here
      BY <2>6, <3>2 DEF EnumNewWindows, PushFresh, TypeOK, LeftoversAreKnown
    <3>3. QED
      BY <3>1, <3>2
  <2>7. ASSUME NEW r \in attributes, Transport2Server(r)
        PROVE  previous'[d] \subseteq current'[d]
    BY <2>1, <2>7 DEF Transport2Server
  <2>8. CASE NextDesktop
    BY <2>8 DEF NextDesktop, LeftoversAreKnown
  <2>9. CASE \E t \in Thread : ShowPopupWindowThread(t)
    <3>1. UNCHANGED pass
      BY <2>9 DEF ShowPopupWindowThread, EnterCriticalSection, OpenInputDesktop,
                  ReturnQuietly, ShowPopup, LeaveCriticalSection
    <3>2. QED
      BY <2>1, <3>1 DEF pass
  <2>10. CASE UNCHANGED vars
    BY <2>1, <2>10 DEF vars, pass
  <2>11. QED
    BY <2>2, <2>3, <2>4, <2>5, <2>6, <2>7, <2>8, <2>9, <2>10 DEF Next, MonitorThread
<1>3. QED
  BY <1>1, <1>2, Typing, PTL DEF Spec

------------------------------------------------------------------------------
(* Why a window is reported once: what was told of a desktop is still in
   CurrentTitles while the window stays on the screen, and the pass under way
   will find the window again or has found it.                              *)
ToldStaysKnown ==
  \A w \in Window, d \in Desktop : <<w, d>> \in told =>
    /\ OnScreen(w, d) => w \in current[d]
    /\ OnScreen(w, d) /\ phase = "callback" /\ d = here =>
         w \in todo \cup previous[d]
    /\ w \in previous[d] => w \in current[d]
    /\ phase = "callback" /\ d = here /\ w \in todo => place[w] = d

LEMMA ToldInvariance == Spec => []ToldStaysKnown
<1>1. Init => ToldStaysKnown
  BY DEF Init, ToldStaysKnown
<1>2. TypeOK /\ ToldStaysKnown /\ [Next]_vars => ToldStaysKnown'
  <2> SUFFICES ASSUME TypeOK, ToldStaysKnown, [Next]_vars PROVE ToldStaysKnown'
    OBVIOUS
  <2> USE DEF OnScreen
  <2>1. ASSUME UNCHANGED <<place, visible, banned, pass, told>> PROVE ToldStaysKnown'
    BY <2>1 DEF ToldStaysKnown, pass, here
  <2>2. ASSUME NEW w \in Window, NEW d \in Desktop, NEW t \in Title \cup {NoTitle},
               OpenWindow(w, d, t)
        PROVE  ToldStaysKnown'
    BY <2>2 DEF OpenWindow, forget, ToldStaysKnown, TypeOK, pass, here
  <2>3. ASSUME NEW w \in Window, CloseWindow(w) PROVE ToldStaysKnown'
    BY <2>3 DEF CloseWindow, forget, ToldStaysKnown, TypeOK, pass, here
  <2>4. ASSUME NEW w \in Window, ShowWindow(w) PROVE ToldStaysKnown'
    BY <2>4 DEF ShowWindow, forget, ToldStaysKnown, TypeOK, pass, here
  <2>5. ASSUME NEW w \in Window, NEW t \in Title \cup {NoTitle}, SetWindowText(w, t)
        PROVE  ToldStaysKnown'
    BY <2>1, <2>5 DEF SetWindowText
  <2>6. ASSUME NEW d \in Desktop, SwitchDesktop(d) PROVE ToldStaysKnown'
    BY <2>1, <2>6 DEF SwitchDesktop, screen
  <2>7. CASE TimerCallback
    BY <2>7 DEF TimerCallback, ToldStaysKnown, screen
  <2>8. CASE EnumDesktopWindows
    BY <2>8 DEF EnumDesktopWindows, ToldStaysKnown, screen, here
  <2>9. ASSUME NEW w \in Window, EnumDesktopWindowsCallback(w) PROVE ToldStaysKnown'
    <3>1. SUFFICES ASSUME NEW v \in Window, NEW d \in Desktop, <<v, d>> \in told
                   PROVE  /\ OnScreen(v, d) => v \in current[d]
                          /\ OnScreen(v, d) /\ d = here => v \in todo' \cup previous'[d]
                          /\ v \in previous'[d] => v \in current[d]
                          /\ d = here /\ v \in todo' => place[v] = d
      BY <2>9 DEF EnumDesktopWindowsCallback, ToldStaysKnown, screen, here
    <3>2. CASE v = w /\ d = here
      BY <2>9, <3>1, <3>2 DEF EnumDesktopWindowsCallback, ToldStaysKnown, TypeOK
    <3>3. CASE ~ (v = w /\ d = here)
      BY <2>9, <3>1, <3>3 DEF EnumDesktopWindowsCallback, ToldStaysKnown, TypeOK
    <3>4. QED
      BY <3>2, <3>3
  <2>10. CASE EnumNewWindows
    <3>1. SUFFICES ASSUME NEW v \in Window, NEW d \in Desktop, <<v, d>> \in told'
                   PROVE  /\ OnScreen(v, d) => v \in current'[d]
                          /\ v \in previous'[d] => v \in current'[d]
      BY <2>10 DEF EnumNewWindows, PushFresh, ToldStaysKnown, screen
    <3>2. CASE d = here
      <4>1. current'[d] = previous[d] /\ previous'[d] \in {{}, previous[d]}
        BY <2>10, <3>2 DEF EnumNewWindows, PushFresh, TypeOK
      <4>2. v \in Fresh \/ <<v, d>> \in told
        BY <2>10, <3>1 DEF EnumNewWindows, PushFresh
      <4>3. OnScreen(v, d) => v \in previous[d]
        BY <2>10, <3>2, <4>2 DEF EnumNewWindows, PushFresh, ToldStaysKnown, Fresh
      <4>4. QED
        BY <4>1, <4>3
    <3>3. CASE d # here
      BY <2>10, <3>1, <3>3 DEF EnumNewWindows, PushFresh, ToldStaysKnown, TypeOK
    <3>4. QED
      BY <3>2, <3>3
  <2>11. ASSUME NEW r \in attributes, Transport2Server(r) PROVE ToldStaysKnown'
    BY <2>11 DEF Transport2Server, ToldStaysKnown, screen, here
  <2>12. CASE NextDesktop
    BY <2>12 DEF NextDesktop, ToldStaysKnown, screen
  <2>13. CASE \E t \in Thread : ShowPopupWindowThread(t)
    BY <2>1, <2>13 DEF ShowPopupWindowThread, EnterCriticalSection, OpenInputDesktop,
                       ReturnQuietly, ShowPopup, LeaveCriticalSection, screen
  <2>14. CASE UNCHANGED vars
    BY <2>1, <2>14 DEF vars, screen
  <2>15. QED
    BY <2>2, <2>3, <2>4, <2>5, <2>6, <2>7, <2>8, <2>9, <2>10, <2>11, <2>12, <2>13,
       <2>14 DEF Next, User, MonitorThread
<1>3. QED
  BY <1>1, <1>2, Typing, PTL DEF Spec

(* A window that stays open and shown is reported once for its desktop.     *)
THEOREM NoSecondReport == Spec => ReportedOnce
<1>1. TypeOK /\ ToldStaysKnown /\ [Next]_vars =>
        [\A r \in attributes' \ attributes : <<r.window, r.desktop>> \notin told]_vars
  <2> SUFFICES ASSUME TypeOK, ToldStaysKnown, [Next]_vars,
                      NEW r \in attributes' \ attributes
               PROVE  <<r.window, r.desktop>> \notin told
    OBVIOUS
  <2>1. EnumNewWindows
    BY DEF Next, User, OpenWindow, CloseWindow, ShowWindow, SetWindowText,
           SwitchDesktop, MonitorThread, TimerCallback, EnumDesktopWindows,
           EnumDesktopWindowsCallback, Transport2Server, NextDesktop,
           ShowPopupWindowThread, EnterCriticalSection, OpenInputDesktop,
           ReturnQuietly, ShowPopup, LeaveCriticalSection, vars, pass
  <2>2. r.window \in Fresh /\ r.desktop = here
    BY <2>1 DEF EnumNewWindows, PushFresh
  <2>3. r.window \in Window /\ here \in Desktop
    BY <2>1, <2>2, MonitorAssumption DEF EnumNewWindows, PushFresh, TypeOK, Fresh, here
  <2>4. QED
    BY <2>2, <2>3 DEF ToldStaysKnown, Fresh
<1>2. QED
  BY <1>1, Typing, ToldInvariance, PTL DEF Spec, ReportedOnce

(* The maps hold together with their types in every state.                  *)
THEOREM MapsStaySound == Spec => []MapsSound
  BY Typing, LeftoversStayKnown, PTL DEF MapsSound

(* However many popup threads compete, the section is held or abandoned as
   its comments say, and owned by the one inside.                           *)
THEOREM SectionStaysKept == Spec => []SectionKept
  BY SectionHeldOrAbandoned, SectionIsExclusive, PTL DEF SectionKept
==============================================================================
