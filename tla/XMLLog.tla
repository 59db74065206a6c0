-------------------------------- MODULE XMLLog --------------------------------
(***************************************************************************)
(* XMLLog (misc/WindowsMonitor/XMLLog.cpp): the entries kept in m_Logs, the *)
(* tree under m_xndRoot, and the file that AddLog and the destructor save   *)
(* it to through a CXMLParser of its own (XmlFile), which nobody tells an   *)
(* encoding. Entry i is the i-th that was added.                            *)
(***************************************************************************)
EXTENDS Integers, Sequences, SequencesExt

CONSTANTS MaxLog,      \* log_num
          Width,       \* of m_uiCounter
          MaxAdded     \* bound of the model

VARIABLES autosave, open,
          logs, counter,
          tree,        \* children of the root: entries, and 0 for a SystemTime
          file,
          added

vars == <<autosave, open, logs, counter, tree, file, added>>

Flag == {"no_extra_info", "current_line", "current_file", "system_time"}

Content(i) == IF i = 0 THEN <<"t">> ELSE <<"i">>

Root == [tag |-> "XMLLog", props |-> <<>>, content |-> <<>>,
         kids |-> [i \in DOMAIN tree |->
           [tag |-> "tag", props |-> <<>>, content |-> Content(tree[i]), kids |-> <<>>]]]

Parser == INSTANCE XmlFile WITH
  Trees <- {}, MaxText <- 0, root <- Root, enc <- "none", saved <- "unknown"

(* The constructor sets m_uiCount, and m_uiCounter is what was there. The   *)
(* file is whatever the path names.                                         *)
Init ==
  /\ autosave \in BOOLEAN /\ open = TRUE
  /\ logs = <<>> /\ counter \in 0..(2 ^ Width - 1)
  /\ tree = <<>>
  /\ file = [mark |-> "UTF16LE", text |-> <<>>]
  /\ added = 0

(* Mistake: an entry that is dropped stays counted.                         *)
Kept_CountsAll(all) ==
  /\ counter' = (counter + 1) % 2 ^ Width
  /\ logs' = IF counter' > MaxLog THEN Tail(all) ELSE all

(* The entry was pushed back; one too many and the oldest goes. (It is not  *)
(* deleted, as it may be in the tree.)                                      *)
Kept(all) ==
  LET count == (counter + 1) % 2 ^ Width
  IN IF count > MaxLog THEN counter' = count - 1 /\ logs' = Tail(all)
     ELSE counter' = count /\ logs' = all

(* The time is added whatever the flag is, "flag && system_time", and after *)
(* the file was saved.                                                      *)
AddLog(flag) ==
  /\ open /\ added < MaxAdded
  /\ added' = added + 1
  /\ Kept(Append(logs, added'))
  /\ tree' = tree \o (IF autosave THEN <<added'>> ELSE <<>>)
                  \o (IF flag = "no_extra_info" THEN <<>> ELSE <<0>>)
  /\ file' = IF autosave THEN Parser!Written(Root) ELSE file
  /\ UNCHANGED <<autosave, open>>

SaveLog ==
  /\ open
  /\ file' = Parser!Written(Root)
  /\ UNCHANGED <<autosave, open, logs, counter, tree, added>>

Clean ==
  /\ open /\ open' = FALSE
  /\ file' = IF autosave THEN Parser!Written(Root) ELSE file
  /\ UNCHANGED <<autosave, logs, counter, tree, added>>

Next == (\E flag \in Flag : AddLog(flag)) \/ SaveLog \/ Clean

-----------------------------------------------------------------------------
(* Wherever the counter started, m_Logs holds the last entries, never more  *)
(* than one over the bound; and if the log saves itself the tree holds all  *)
(* of them in order, while the file holds nothing from the first on.        *)
LogSound ==
  /\ logs = [i \in DOMAIN logs |-> added - Len(logs) + i]
  /\ Len(logs) <= MaxLog + 1
  /\ autosave => SelectSeq(tree, LAMBDA i : i # 0) = [i \in 1..added |-> i]
  /\ autosave /\ (added > 0 \/ ~open) => file = Parser!Emptied
=============================================================================
