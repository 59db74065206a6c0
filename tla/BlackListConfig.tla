--------------------------- MODULE BlackListConfig ---------------------------
(***************************************************************************)
(* The two loops of WindowMonitor::Initialize that read                    *)
(* black_list.config.txt: window titles up to the line "[End]", then names *)
(* of process modules to the end of the file. Both arrays have Rows rows.  *)
(***************************************************************************)
EXTENDS Naturals, Sequences, SequencesExt

CONSTANTS Line,      \* the lines a file can have, other than "[End]"
          End,       \* the line "[End]"
          Rows,      \* rows of black_list and black_process, 256 in the code
          Blank,     \* a row nobody has written
          MaxLines   \* bound on the length of a file

ASSUME ConfigAssumption ==
  /\ Rows \in Nat \ {0}
  /\ MaxLines \in Nat
  /\ End \notin Line
  /\ Blank \notin Line \cup {End}

VARIABLES file,            \* the lines of the file
          next,            \* the line fgets returns next
          phase,           \* the loop that is running
          count,           \* int count
          black_list, list_len,
          black_process, process_len,
          spilled          \* a row past the end of black_process was written

vars == <<file, next, phase, count, black_list, list_len, black_process,
          process_len, spilled>>

TypeOK ==
  /\ file \in Seq(Line \cup {End})
  /\ next \in 1 .. Len(file) + 1
  /\ phase \in {"titles", "processes", "loaded"}
  /\ count \in 0 .. Rows + 1
  /\ black_list \in [1 .. Rows -> Line \cup {Blank}]
  /\ black_process \in [1 .. Rows -> Line \cup {End, Blank}]
  /\ list_len \in 0 .. Rows + 1
  /\ process_len \in 0 .. Rows + 1
  /\ spilled \in BOOLEAN

Init ==
  /\ file \in BoundedSeq(Line \cup {End}, MaxLines)
  /\ next = 1 /\ phase = "titles" /\ count = 0
  /\ black_list = [i \in 1 .. Rows |-> Blank] /\ list_len = 0
  /\ black_process = [i \in 1 .. Rows |-> Blank] /\ process_len = 0
  /\ spilled = FALSE

AtEnd == next > Len(file)

(* Leaving the first loop: list_len takes the count, which starts again.    *)
endTitles(n) ==
  /\ phase' = "processes"
  /\ list_len' = n
  /\ count' = 0
  /\ UNCHANGED <<file, black_list, black_process, process_len, spilled>>

\* Fault: "[End]" is stored like a title.
ReadTitle_StoresEnd ==
  /\ phase = "titles" /\ ~ AtEnd
  /\ next' = next + 1
  /\ \/ /\ count + 1 > Rows
        /\ endTitles(count + 1)
     \/ /\ count + 1 <= Rows
        /\ count' = count + 1
        /\ black_list' = [black_list EXCEPT ![count + 1] = file[next]]
        /\ UNCHANGED <<file, phase, list_len, black_process, process_len, spilled>>

(* The count is incremented before either test, so that it counts "[End]"
   and the line that found the array full; neither is stored.               *)
ReadTitle ==
  /\ phase = "titles"
  /\ ~ AtEnd
  /\ next' = next + 1
  /\ \/ /\ file[next] = End \/ count + 1 > Rows
        /\ endTitles(count + 1)
     \/ /\ file[next] # End /\ count + 1 <= Rows
        /\ count' = count + 1
        /\ black_list' = [black_list EXCEPT ![count + 1] = file[next]]
        /\ UNCHANGED <<file, phase, list_len, black_process, process_len, spilled>>

TitlesRunOut ==
  /\ phase = "titles"
  /\ AtEnd
  /\ endTitles(count)
  /\ UNCHANGED next

(* The row is written before the count is compared with 256.                *)
ReadProcess ==
  /\ phase = "processes"
  /\ ~ AtEnd
  /\ next' = next + 1
  /\ \/ /\ count < Rows
        /\ black_process' = [black_process EXCEPT ![count + 1] = file[next]]
        /\ UNCHANGED spilled
     \/ /\ count >= Rows
        /\ spilled' = TRUE
        /\ UNCHANGED black_process
  /\ count' = count + 1
  /\ \/ /\ count + 1 > Rows
        /\ phase' = "loaded"
        /\ process_len' = count + 1
     \/ /\ count + 1 <= Rows
        /\ UNCHANGED <<phase, process_len>>
  /\ UNCHANGED <<file, black_list, list_len>>

ProcessesRunOut ==
  /\ phase = "processes"
  /\ AtEnd
  /\ phase' = "loaded"
  /\ process_len' = count
  /\ UNCHANGED <<file, next, count, black_list, list_len, black_process, spilled>>

Next == ReadTitle \/ TitlesRunOut \/ ReadProcess \/ ProcessesRunOut

Spec == Init /\ [][Next]_vars

------------------------------------------------------------------------------
(* What a file means: the lines before the first "[End]" are titles and the
   lines after it are processes. A first part that fills the array ends with
   the line after the last row, whatever that line is.                      *)
firstEnd == SelectInSeq(file, LAMBDA l : l = End)

titles == IF firstEnd \in 1 .. Rows + 1 THEN firstEnd - 1
          ELSE IF Len(file) < Rows THEN Len(file) ELSE Rows

cut == IF Len(file) > titles THEN titles + 1 ELSE titles

(* The rows of black_list are the titles of the file, in order, and nothing
   of the rest of the file.                                                 *)
TitlesAsWritten ==
  phase = "loaded" =>
    \A i \in 1 .. Rows : black_list[i] = IF i <= titles THEN file[i] ELSE Blank

(* The comparison loop of Transport2Server runs to list_len. It stays within
   the array unless every row is a title and a further line follows, be it
   only "[End]"; then it reads one row too many.                            *)
ListLenWithinRows ==
  phase = "loaded" => (list_len > Rows <=> titles = Rows /\ Len(file) > Rows)

(* Every line after the cut that fits is a row of black_process, and the
   array is overrun exactly by a file that names more processes than rows.  *)
ProcessesAsWritten ==
  phase = "loaded" =>
    /\ \A i \in 1 .. Rows : black_process[i] =
         IF cut + i <= Len(file) THEN file[cut + i] ELSE Blank
    /\ spilled <=> Len(file) - cut > Rows
    /\ process_len > Rows <=> spilled
==============================================================================
