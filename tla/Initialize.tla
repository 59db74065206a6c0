----------------------------- MODULE Initialize -----------------------------
(***************************************************************************)
(* WindowMonitor.exe from wWinMain to the monitor thread: the processes of *)
(* Startup, of which the one past the mutex reads black_list.config.txt    *)
(* with the loops of BlackListConfig. The arrays are the memory of that    *)
(* process; what it has read of the file is lost when it ends.             *)
(***************************************************************************)
EXTENDS BlackListConfig

CONSTANTS Instance, Desktop
VARIABLES pc, holders, vec, listed, lists, section, monitoring

S == INSTANCE Startup

processes == <<pc, holders, vec, listed, lists, section, monitoring>>

StartInit == Init /\ S!Init

(* A process reads the file when every desktop has been called back for.    *)
ReadLists(p) ==
  /\ pc[p] = "station"
  /\ listed[p] = {}
  /\ Next
  /\ UNCHANGED processes

LoadLists(p) ==
  /\ phase = "loaded"
  /\ S!LoadLists(p)
  /\ UNCHANGED vars

(* The process whose memory the arrays are: the one that came past the mutex,
   also after Initialize has failed and Clean was called.                   *)
ownsLists(p) == S!running(p) \/ (pc[p] = "refused" /\ section[p] = "deleted")

(* The next process finds the file unread and its arrays blank.             *)
Ends(p) ==
  /\ S!ProcessEnds(p)
  /\ IF ownsLists(p)
     THEN /\ next' = 1 /\ phase' = "titles" /\ count' = 0
          /\ black_list' = [i \in 1 .. Rows |-> Blank] /\ list_len' = 0
          /\ black_process' = [i \in 1 .. Rows |-> Blank] /\ process_len' = 0
          /\ spilled' = FALSE
          /\ UNCHANGED file
     ELSE UNCHANGED vars

StartNext ==
  \E p \in Instance :
    \/ ReadLists(p)
    \/ LoadLists(p)
    \/ Ends(p)
    \/ /\ \/ S!CreateUniqueInstance(p)
          \/ S!OpenStation(p)
          \/ \E d \in Desktop : S!EnumDesktopCallback(p, d)
          \/ S!InitializeCriticalSection(p)
          \/ S!CreateMonitorThread(p)
          \/ S!Clean(p)
       /\ UNCHANGED vars

StartSpec == StartInit /\ [][StartNext]_<<vars, processes>>

-----------------------------------------------------------------------------
(* However many instances are started, killed and started again, one at most
   is past CreateUniqueInstance, and its handle keeps the name in being.    *)
UniqueInstance == S!UniqueInstance

(* The monitor thread uses the desktops, the lists and the section without
   any lock: all of them are final before the thread exists, and the file
   has been read to the end of the second loop.                             *)
ThreadFindsAll ==
  /\ S!ThreadFindsAll
  /\ (\E p \in Instance : monitoring[p]) => phase = "loaded"

(* One process at most watches, and it is prepared for it.                  *)
OneWatches == UniqueInstance /\ ThreadFindsAll

(* Whichever process reads the file, both arrays hold what it says, in order,
   the counts are those of the file, and exactly the files with too many
   lines make the loops leave the arrays.                                   *)
ListsAsWritten ==
  /\ TypeOK /\ S!TypeOK
  /\ TitlesAsWritten /\ ListLenWithinRows /\ ProcessesAsWritten
=============================================================================
