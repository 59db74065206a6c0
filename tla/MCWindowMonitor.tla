--------------------------- MODULE MCWindowMonitor ---------------------------
(* Values of the constants of WindowMonitor for TLC.                        *)
EXTENDS WindowMonitor, TLC

CONSTANTS default, work   \* two desktops

oneDesktop  == <<default>>
twoDesktops == <<default, work>>

(* Handles and threads are interchangeable; only safety is checked with it. *)
Symmetry == Permutations(Window) \cup Permutations(Thread)

(* Two instances in one run. While no popup has been started, windows with
   ordinary titles come and go on two desktops, hidden and banned ones among
   them; where popups run, windows with any title are opened on the first
   desktop and closed, none of them hidden or banned. States outside of both
   are not explored further.                                               *)
ScansOnly ==
  /\ \A t \in Thread : pc[t] = "unused"
  /\ \A w \in Window : caption[w] \notin BlackList \cup QuietTitle

Popups ==
  /\ banned = {}
  /\ visible = {w \in Window : place[w] # Nowhere}
  /\ \A w \in Window : place[w] # work /\ w \notin previous[work] \cup current[work]

ScansOrPopups == ScansOnly \/ Popups
==============================================================================
