-------------------------- MODULE Initialize_proofs --------------------------
(* Theorems about the start of WindowMonitor.exe, for every number of        *)
(* instances, of desktops and of rows of the two arrays, and every file:     *)
(* the process that watches is alone and prepared, and what it has read is   *)
(* what the file says.                                                       *)
EXTENDS Initialize, WellFoundedInduction, SequenceTheorems, TLAPS

(* -------------------- what a file means ---------------------------------- *)

LEMMA LeastNumber ==
  ASSUME NEW T, T \subseteq Nat, T # {}
  PROVE  \E x \in T : \A y \in T : x <= y
<1>1. PICK x \in T : \A y \in T : <<y, x>> \notin OpToRel(<, Nat)
  BY WFMin, NatLessThanWellFounded
<1>2. \A y \in T : ~ (y < x)
  BY <1>1 DEF OpToRel
<1>3. QED
  BY <1>2

FileTyped == file \in Seq(Line \cup {End})

(* firstEnd is where the first "[End]" stands, or 0.                         *)
LEMMA FirstEnd ==
  ASSUME FileTyped
  PROVE  /\ firstEnd \in 0 .. Len(file)
         /\ firstEnd # 0 => file[firstEnd] = End
         /\ \A i \in 1 .. Len(file) : i < firstEnd \/ firstEnd = 0 => file[i] # End
<1> DEFINE I == {i \in 1 .. Len(file) : file[i] = End}
<1>1. firstEnd = IF I # {} THEN Min(I) ELSE 0
  BY DEF firstEnd, SelectInSeq
<1>2. Len(file) \in Nat
  BY LenProperties DEF FileTyped
<1>3. CASE I = {}
  BY <1>1, <1>2, <1>3
<1>4. CASE I # {}
  <2>1. I \subseteq Nat
    BY <1>2
  <2>2. \E x \in I : \A y \in I : x <= y
    <3> HIDE DEF I
    <3>1. QED
      BY <1>4, <2>1, LeastNumber
  <2>3. Min(I) \in I /\ \A y \in I : Min(I) <= y
    BY <2>2 DEF Min
  <2>4. firstEnd \in I /\ \A y \in I : firstEnd <= y
    <3> HIDE DEF I
    <3>1. QED
      BY <1>1, <1>4, <2>3
  <2>5. QED
    BY <1>2, <2>4
<1>5. QED
  BY <1>3, <1>4

(* The lines of a first part that has not ended after n lines are titles.    *)
LEMMA TitlesSoFar ==
  ASSUME FileTyped, NEW n \in 0 .. Rows, n <= Len(file),
         \A i \in 1 .. n : file[i] # End
  PROVE  /\ titles \in Nat /\ titles <= Rows /\ titles <= Len(file)
         /\ n <= titles
         /\ n = Len(file) => titles = n /\ cut = n
         /\ n = Rows /\ n < Len(file) => titles = n /\ cut = n + 1
         /\ n < Len(file) /\ file[n + 1] = End => titles = n /\ cut = n + 1
<1>1. Len(file) \in Nat /\ Rows \in Nat \ {0}
  BY LenProperties, ConfigAssumption DEF FileTyped
<1>2. firstEnd = 0 \/ firstEnd > n
  BY <1>1, FirstEnd
<1>3. n < Len(file) /\ file[n + 1] = End => firstEnd = n + 1
  BY <1>1, <1>2, FirstEnd
<1>4. firstEnd \in 0 .. Len(file)
  BY FirstEnd
<1>5. /\ titles \in Nat /\ titles <= Rows /\ titles <= Len(file) /\ n <= titles
      /\ n = Len(file) => titles = n
      /\ n = Rows => titles = n
      /\ n < Len(file) /\ file[n + 1] = End => titles = n
  BY <1>1, <1>2, <1>3, <1>4 DEF titles
<1>6. QED
  BY <1>1, <1>5 DEF cut

(* -------------------- the two loops -------------------------------------- *)

(* Up to every point of the two loops: what has been read is in its place.   *)
(* The types are those of TypeOK; next, count and the lengths determine one  *)
(* another.                                                                  *)
TitlesRead ==
  /\ next = count + 1
  /\ count <= Rows /\ count <= Len(file)
  /\ \A i \in 1 .. count : file[i] # End
  /\ \A i \in 1 .. Rows : black_list[i] = IF i <= count THEN file[i] ELSE Blank
  /\ \A i \in 1 .. Rows : black_process[i] = Blank
  /\ ~ spilled

ProcessesRead ==
  /\ cut \in Nat /\ list_len = cut
  /\ next = cut + count + 1
  /\ \A i \in 1 .. Rows : black_list[i] = IF i <= titles THEN file[i] ELSE Blank
  /\ \A i \in 1 .. Rows : black_process[i] = IF i <= count THEN file[cut + i] ELSE Blank
  /\ spilled <=> count = Rows + 1

ReadInv ==
  /\ TypeOK
  /\ titles \in Nat /\ titles <= Rows /\ titles <= Len(file)
  /\ phase = "titles" => TitlesRead
  /\ phase # "titles" => ProcessesRead
  /\ phase = "processes" => count <= Rows
  /\ phase = "loaded" => process_len = count /\ (AtEnd \/ count = Rows + 1)

(* The arrays when no process has read a line.                               *)
Unread ==
  /\ next = 1 /\ phase = "titles" /\ count = 0
  /\ black_list = [i \in 1 .. Rows |-> Blank] /\ list_len = 0
  /\ black_process = [i \in 1 .. Rows |-> Blank] /\ process_len = 0
  /\ spilled = FALSE

LEMMA UnreadReads == FileTyped /\ Unread => ReadInv
<1> SUFFICES ASSUME FileTyped, Unread PROVE ReadInv
  OBVIOUS
<1>1. Len(file) \in Nat /\ Rows \in Nat \ {0}
  BY LenProperties, ConfigAssumption DEF FileTyped
<1>2. TypeOK
  <2>1. /\ black_list \in [1 .. Rows -> Line \cup {Blank}]
        /\ black_process \in [1 .. Rows -> Line \cup {End, Blank}]
    BY DEF Unread
  <2>2. /\ next \in 1 .. Len(file) + 1
        /\ count \in 0 .. Rows + 1
        /\ list_len \in 0 .. Rows + 1
        /\ process_len \in 0 .. Rows + 1
    BY <1>1 DEF Unread
  <2>3. QED
    BY <2>1, <2>2 DEF TypeOK, Unread, FileTyped
<1>3. titles \in Nat /\ titles <= Rows /\ titles <= Len(file)
  <2>1. 0 \in 0 .. Rows /\ 0 <= Len(file) /\ \A i \in 1 .. 0 : file[i] # End
    BY <1>1
  <2>2. QED
    BY <2>1, TitlesSoFar
<1>4. TitlesRead
  BY <1>1 DEF TitlesRead, Unread
<1>5. QED
  BY <1>2, <1>3, <1>4 DEF ReadInv, Unread

LEMMA FileBounded == Init => FileTyped
<1>1. BoundedSeq(Line \cup {End}, MaxLines) \subseteq Seq(Line \cup {End})
  BY ConfigAssumption DEF BoundedSeq, SeqOf, Seq
<1>2. QED
  BY <1>1 DEF Init, FileTyped

LEMMA ReadInit == Init => ReadInv
BY FileBounded, UnreadReads DEF Init, Unread

LEMMA SameFile == UNCHANGED file => titles' = titles /\ cut' = cut
<1>1. UNCHANGED file => firstEnd' = firstEnd
  BY DEF firstEnd, SelectInSeq
<1>2. QED
  BY <1>1 DEF titles, cut

(* Leaving the first loop, whichever of its three ways out is taken.         *)
LEMMA EndTitlesReads ==
  ASSUME ReadInv, phase = "titles", NEW n \in 0 .. Rows + 1,
         endTitles(n), next' = n + 1, n <= Len(file),
         titles = count, cut = n
  PROVE  ReadInv'
<1>1. Len(file) \in Nat /\ Rows \in Nat \ {0} /\ file \in Seq(Line \cup {End})
  BY LenProperties, ConfigAssumption DEF ReadInv, TypeOK
<1>2. titles' = titles /\ cut' = cut
  BY SameFile DEF endTitles
<1>3. TypeOK'
  BY <1>1 DEF ReadInv, TypeOK, endTitles
<1>4. TitlesRead
  BY DEF ReadInv
<1>5. ProcessesRead'
  <2>1. /\ cut' \in Nat /\ list_len' = cut'
        /\ next' = cut' + count' + 1
    BY <1>1, <1>2 DEF endTitles
  <2>2. \A i \in 1 .. Rows : black_list'[i] = IF i <= titles' THEN file'[i] ELSE Blank
    BY <1>2, <1>4 DEF endTitles, TitlesRead
  <2>3. \A i \in 1 .. Rows :
          black_process'[i] = IF i <= count' THEN file'[cut' + i] ELSE Blank
    BY <1>1, <1>4 DEF endTitles, TitlesRead
  <2>4. spilled' <=> count' = Rows' + 1
    BY <1>1, <1>4 DEF endTitles, TitlesRead
  <2>5. QED
    BY <2>1, <2>2, <2>3, <2>4 DEF ProcessesRead
<1>6. QED
  BY <1>1, <1>2, <1>3, <1>5 DEF ReadInv, endTitles

LEMMA ReadTitleReads == ReadInv /\ ReadTitle => ReadInv'
<1> SUFFICES ASSUME ReadInv, ReadTitle PROVE ReadInv'
  OBVIOUS
<1>1. Len(file) \in Nat /\ Rows \in Nat \ {0} /\ file \in Seq(Line \cup {End})
  BY LenProperties, ConfigAssumption DEF ReadInv, TypeOK
<1>2. TitlesRead /\ count \in 0 .. Rows /\ count < Len(file) /\ FileTyped
  BY <1>1 DEF ReadInv, ReadTitle, TypeOK, TitlesRead, AtEnd, FileTyped
<1>3. file[next] \in Line \cup {End}
  BY <1>1, <1>2 DEF TitlesRead
<1>4. CASE file[next] = End \/ count + 1 > Rows
  <2>1. titles = count /\ cut = count + 1
    BY <1>1, <1>2, <1>4, TitlesSoFar DEF TitlesRead
  <2>2. endTitles(count + 1) /\ next' = count + 1 + 1
    BY <1>1, <1>2, <1>4 DEF ReadTitle, TitlesRead
  <2>3. QED
    BY <1>1, <1>2, <2>1, <2>2, EndTitlesReads DEF ReadTitle
<1>5. CASE file[next] # End /\ count + 1 <= Rows
  <2>1. /\ count' = count + 1 /\ next' = next + 1
        /\ black_list' = [black_list EXCEPT ![count + 1] = file[next]]
        /\ UNCHANGED <<file, phase, list_len, black_process, process_len, spilled>>
    BY <1>1, <1>2, <1>5 DEF ReadTitle
  <2>2. TypeOK'
    BY <1>1, <1>2, <1>3, <1>5, <2>1 DEF ReadInv, TypeOK, TitlesRead
  <2>3. TitlesRead'
    <3>1. \A i \in 1 .. count' : file'[i] # End
      BY <1>1, <1>2, <1>5, <2>1 DEF TitlesRead
    <3>2. \A i \in 1 .. Rows :
            black_list'[i] = IF i <= count' THEN file'[i] ELSE Blank
      <4>1. black_list \in [1 .. Rows -> Line \cup {Blank}]
        BY DEF ReadInv, TypeOK
      <4>2. QED
        BY <1>1, <1>2, <1>5, <2>1, <4>1 DEF TitlesRead
    <3>3. QED
      BY <1>1, <1>2, <1>5, <2>1, <3>1, <3>2 DEF TitlesRead
  <2>4. phase' = "titles"
    BY <2>1 DEF ReadTitle
  <2>5. QED
    BY <2>1, <2>2, <2>3, <2>4, SameFile DEF ReadInv
<1>6. QED
  BY <1>1, <1>2, <1>4, <1>5

LEMMA TitlesRunOutReads == ReadInv /\ TitlesRunOut => ReadInv'
<1> SUFFICES ASSUME ReadInv, TitlesRunOut PROVE ReadInv'
  OBVIOUS
<1>1. Len(file) \in Nat /\ Rows \in Nat \ {0} /\ file \in Seq(Line \cup {End})
  BY LenProperties, ConfigAssumption DEF ReadInv, TypeOK
<1>2. TitlesRead /\ count \in 0 .. Rows /\ count = Len(file) /\ FileTyped
  BY <1>1 DEF ReadInv, TitlesRunOut, TypeOK, TitlesRead, AtEnd, FileTyped
<1>3. titles = count /\ cut = count
  BY <1>1, <1>2, TitlesSoFar DEF TitlesRead
<1>4. QED
  BY <1>1, <1>2, <1>3, EndTitlesReads DEF TitlesRunOut, TitlesRead

LEMMA ReadProcessReads == ReadInv /\ ReadProcess => ReadInv'
<1> SUFFICES ASSUME ReadInv, ReadProcess PROVE ReadInv'
  OBVIOUS
<1>1. Len(file) \in Nat /\ Rows \in Nat \ {0} /\ file \in Seq(Line \cup {End})
  BY LenProperties, ConfigAssumption DEF ReadInv, TypeOK
<1>2. ProcessesRead /\ count \in 0 .. Rows /\ next \in 1 .. Len(file) /\ ~ AtEnd
  BY <1>1 DEF ReadInv, ReadProcess, TypeOK, AtEnd
<1>3. file[next] \in Line \cup {End}
  BY <1>1, <1>2
<1>4. titles' = titles /\ cut' = cut
  BY SameFile DEF ReadProcess
<1>5. /\ count' = count + 1 /\ next' = next + 1
      /\ UNCHANGED <<file, black_list, list_len>>
  BY DEF ReadProcess
<1>6. /\ black_process' \in [1 .. Rows -> Line \cup {End, Blank}]
      /\ spilled' \in BOOLEAN
      /\ spilled' <=> count' = Rows + 1
      /\ \A i \in 1 .. Rows :
           black_process'[i] = IF i <= count' THEN file[cut + i] ELSE Blank
  <2>1. /\ black_process \in [1 .. Rows -> Line \cup {End, Blank}]
        /\ spilled \in BOOLEAN /\ (spilled <=> count = Rows + 1)
        /\ cut \in Nat /\ next = cut + count + 1
        /\ \A i \in 1 .. Rows :
             black_process[i] = IF i <= count THEN file[cut + i] ELSE Blank
    BY <1>2 DEF ReadInv, TypeOK, ProcessesRead
  <2>2. CASE count < Rows
    <3>1. /\ black_process' = [black_process EXCEPT ![count + 1] = file[next]]
          /\ spilled' = spilled
      BY <1>1, <1>2, <2>2 DEF ReadProcess
    <3>2. QED
      BY <1>1, <1>2, <1>3, <1>5, <2>1, <2>2, <3>1
  <2>3. CASE count = Rows
    <3>1. spilled' = TRUE /\ black_process' = black_process
      BY <1>1, <2>3 DEF ReadProcess
    <3>2. QED
      BY <1>1, <1>5, <2>1, <2>3, <3>1
  <2>4. QED
    BY <1>1, <1>2, <2>2, <2>3
<1>7. /\ phase' \in {"processes", "loaded"} /\ process_len' \in 0 .. Rows + 1
      /\ phase' = "processes" => count' <= Rows
      /\ phase' = "loaded" => process_len' = count' /\ count' = Rows + 1
  BY <1>1, <1>2 DEF ReadProcess, ReadInv, TypeOK
<1>8. TypeOK'
  BY <1>1, <1>2, <1>5, <1>6, <1>7 DEF ReadInv, TypeOK
<1>9. ProcessesRead'
  BY <1>1, <1>2, <1>4, <1>5, <1>6 DEF ProcessesRead
<1>10. QED
  BY <1>1, <1>4, <1>5, <1>7, <1>8, <1>9 DEF ReadInv

LEMMA ProcessesRunOutReads == ReadInv /\ ProcessesRunOut => ReadInv'
<1> SUFFICES ASSUME ReadInv, ProcessesRunOut PROVE ReadInv'
  OBVIOUS
<1>1. titles' = titles /\ cut' = cut
  BY SameFile DEF ProcessesRunOut
<1>2. ProcessesRead'
  BY <1>1 DEF ReadInv, ProcessesRunOut, ProcessesRead
<1>3. TypeOK'
  BY DEF ReadInv, ProcessesRunOut, TypeOK
<1>4. QED
  BY <1>1, <1>2, <1>3 DEF ReadInv, ProcessesRunOut, AtEnd

(* What the two arrays hold at the end is what the file says.                *)
LEMMA ReadAsWritten ==
  ReadInv => TitlesAsWritten /\ ListLenWithinRows /\ ProcessesAsWritten
<1> SUFFICES ASSUME ReadInv, phase = "loaded"
             PROVE  TitlesAsWritten /\ ListLenWithinRows /\ ProcessesAsWritten
  BY DEF TitlesAsWritten, ListLenWithinRows, ProcessesAsWritten
<1>1. Len(file) \in Nat /\ Rows \in Nat \ {0} /\ file \in Seq(Line \cup {End})
  BY LenProperties, ConfigAssumption DEF ReadInv, TypeOK
<1>2. /\ ProcessesRead /\ process_len = count /\ count \in 0 .. Rows + 1
      /\ next \in 1 .. Len(file) + 1
      /\ next = Len(file) + 1 \/ count = Rows + 1
      /\ titles \in Nat /\ titles <= Rows /\ titles <= Len(file)
  BY <1>1 DEF ReadInv, TypeOK, AtEnd
<1>3. TitlesAsWritten
  BY <1>2 DEF TitlesAsWritten, ProcessesRead
<1>4. ListLenWithinRows
  BY <1>1, <1>2 DEF ListLenWithinRows, ProcessesRead, cut
<1>5. ProcessesAsWritten
  <2>1. /\ cut \in Nat /\ next = cut + count + 1
        /\ spilled <=> count = Rows + 1
        /\ \A i \in 1 .. Rows :
             black_process[i] = IF i <= count THEN file[cut + i] ELSE Blank
    BY <1>2 DEF ProcessesRead
  <2>2. \A i \in 1 .. Rows : cut + i <= Len(file) <=> i <= count
    BY <1>1, <1>2, <2>1
  <2>3. /\ spilled <=> Len(file) - cut > Rows
        /\ process_len > Rows <=> spilled
    BY <1>1, <1>2, <2>1
  <2>4. QED
    BY <2>1, <2>2, <2>3 DEF ProcessesAsWritten
<1>6. QED
  BY <1>3, <1>4, <1>5

(* -------------------- the processes -------------------------------------- *)

(* The memory of the arrays belongs to the process that runs or that has     *)
(* failed and not yet ended, which is one at most, for it still holds the    *)
(* mutex. When there is none they are as the next one will find them.        *)
OneOwner ==
  \A p \in Instance : ownsLists(p) =>
    /\ p \in holders
    /\ \A q \in Instance : ownsLists(q) => p = q

Prepared(p) ==
  /\ pc[p] \in {"section", "thread", "watch"} =>
       lists[p] /\ listed[p] = {} /\ phase = "loaded"
  /\ pc[p] \in {"thread", "watch"} => section[p] = "ready"
  /\ monitoring[p] => pc[p] = "watch"
  /\ section[p] = "deleted" => pc[p] \in {"refused", "gone"}

ProcessInv == S!TypeOK /\ OneOwner /\ \A p \in Instance : Prepared(p)

StartInv == ReadInv /\ ProcessInv

LEMMA ProcessInit == S!Init => ProcessInv
<1> SUFFICES ASSUME S!Init PROVE ProcessInv
  OBVIOUS
<1>1. S!TypeOK
  <2>1. vec \in [Instance -> Seq(Desktop)]
    BY EmptySeq DEF S!Init
  <2>2. QED
    BY <2>1 DEF S!Init, S!TypeOK
<1>2. OneOwner
  BY DEF S!Init, OneOwner, ownsLists, S!running
<1>3. \A p \in Instance : Prepared(p)
  BY DEF S!Init, Prepared
<1>4. QED
  BY <1>1, <1>2, <1>3 DEF ProcessInv

(* The steps of a process that are not about the file.                       *)
ProcessStep(p) ==
  \/ S!CreateUniqueInstance(p) \/ S!OpenStation(p)
  \/ \E d \in Desktop : S!EnumDesktopCallback(p, d)
  \/ S!InitializeCriticalSection(p) \/ S!CreateMonitorThread(p) \/ S!Clean(p)

LEMMA ProcessTypes ==
  ASSUME S!TypeOK, NEW p \in Instance,
         ProcessStep(p) \/ S!LoadLists(p) \/ S!ProcessEnds(p)
  PROVE  S!TypeOK'
<1> USE DEF S!TypeOK, S!goto, S!memory
<1>1. CASE S!CreateUniqueInstance(p)
  BY <1>1 DEF S!CreateUniqueInstance
<1>2. CASE S!OpenStation(p)
  BY <1>2 DEF S!OpenStation
<1>3. ASSUME NEW d \in Desktop, S!EnumDesktopCallback(p, d) PROVE S!TypeOK'
  <2>1. vec[p] \in Seq(Desktop)
    OBVIOUS
  <2>2. Append(vec[p], d) \in Seq(Desktop)
    BY <2>1, AppendProperties
  <2>3. vec' \in [Instance -> Seq(Desktop)]
    BY <1>3, <2>2 DEF S!EnumDesktopCallback
  <2>4. QED
    BY <1>3, <2>3 DEF S!EnumDesktopCallback
<1>4. CASE S!LoadLists(p)
  BY <1>4 DEF S!LoadLists
<1>5. CASE S!InitializeCriticalSection(p)
  BY <1>5 DEF S!InitializeCriticalSection
<1>6. CASE S!CreateMonitorThread(p)
  BY <1>6 DEF S!CreateMonitorThread
<1>7. CASE S!Clean(p)
  BY <1>7 DEF S!Clean
<1>8. CASE S!ProcessEnds(p)
  BY <1>8 DEF S!ProcessEnds
<1>9. QED
  BY <1>1, <1>2, <1>3, <1>4, <1>5, <1>6, <1>7, <1>8 DEF ProcessStep

LEMMA OwnersKept ==
  ASSUME OneOwner, \A q \in Instance : ownsLists(q)' => ownsLists(q) /\ q \in holders'
  PROVE  OneOwner'
BY DEF OneOwner

LEMMA ProcessOwner ==
  ASSUME S!TypeOK, OneOwner, \A q \in Instance : Prepared(q), NEW p \in Instance,
         ProcessStep(p) \/ S!LoadLists(p) \/ S!ProcessEnds(p)
  PROVE  OneOwner'
<1>1. /\ pc \in [Instance -> {"idle", "refused", "new", "station", "section",
                              "thread", "watch", "clean", "gone"}]
      /\ section \in [Instance -> {"raw", "ready", "deleted"}]
      /\ pc[p] = "idle" => section[p] # "deleted"
  BY DEF S!TypeOK, Prepared
<1>2. \A q \in Instance : ownsLists(q) => q \in holders
  BY DEF OneOwner
<1>3. CASE S!CreateUniqueInstance(p)
  <2>1. CASE pc'[p] = "new"
    <3>1. holders = {} /\ holders' = holders \cup {p} /\ pc' = [pc EXCEPT ![p] = "new"]
          /\ section' = section
      BY <1>1, <1>3, <2>1 DEF S!CreateUniqueInstance, S!goto, S!memory
    <3>2. \A q \in Instance : ownsLists(q)' => q = p
      BY <1>1, <1>2, <3>1 DEF ownsLists, S!running
    <3>3. QED
      BY <3>1, <3>2 DEF OneOwner
  <2>2. CASE pc'[p] # "new"
    <3>1. /\ pc' = [pc EXCEPT ![p] = "refused"] /\ section' = section
          /\ holders \subseteq holders' /\ pc[p] = "idle"
      BY <1>1, <1>3, <2>2 DEF S!CreateUniqueInstance, S!goto, S!memory
    <3>2. \A q \in Instance : ownsLists(q)' => ownsLists(q) /\ q \in holders'
      BY <1>1, <1>2, <3>1 DEF ownsLists, S!running
    <3>3. QED
      BY <3>2, OwnersKept
  <2>3. QED
    BY <2>1, <2>2
<1>4. CASE S!ProcessEnds(p)
  <2>1. \A q \in Instance : ownsLists(q)' => ownsLists(q) /\ q \in holders'
    BY <1>1, <1>2, <1>4 DEF S!ProcessEnds, S!goto, ownsLists, S!running
  <2>2. QED
    BY <2>1, OwnersKept
<1>5. ASSUME ~ S!CreateUniqueInstance(p), ProcessStep(p) \/ S!LoadLists(p)
      PROVE  OneOwner'
  <2>1. ownsLists(p) /\ holders' = holders
    BY <1>5 DEF ProcessStep, S!OpenStation, S!EnumDesktopCallback, S!LoadLists,
                S!InitializeCriticalSection, S!CreateMonitorThread, S!Clean,
                ownsLists, S!running
  <2>2. \A q \in Instance \ {p} : pc'[q] = pc[q] /\ section'[q] = section[q]
    BY <1>1, <1>5 DEF ProcessStep, S!OpenStation, S!EnumDesktopCallback, S!LoadLists,
                S!InitializeCriticalSection, S!CreateMonitorThread, S!Clean, S!goto
  <2>3. \A q \in Instance : ownsLists(q)' => ownsLists(q) /\ q \in holders'
    BY <1>2, <2>1, <2>2 DEF ownsLists, S!running
  <2>4. QED
    BY <2>3, OwnersKept
<1>6. QED
  BY <1>3, <1>4, <1>5

(* A step of one process leaves every other one prepared, as long as it      *)
(* leaves the file alone.                                                    *)
LEMMA ProcessPrepared ==
  ASSUME S!TypeOK, NEW p \in Instance, \A q \in Instance : Prepared(q), phase' = phase,
         ProcessStep(p) \/ (S!LoadLists(p) /\ phase = "loaded")
  PROVE  \A q \in Instance : Prepared(q)'
<1> USE DEF S!TypeOK, Prepared, S!goto, S!memory
<1>1. CASE S!CreateUniqueInstance(p)
  BY <1>1 DEF S!CreateUniqueInstance
<1>2. CASE S!OpenStation(p)
  BY <1>2 DEF S!OpenStation
<1>3. ASSUME NEW d \in Desktop, S!EnumDesktopCallback(p, d)
      PROVE  \A q \in Instance : Prepared(q)'
  BY <1>3 DEF S!EnumDesktopCallback
<1>4. CASE S!LoadLists(p) /\ phase = "loaded"
  BY <1>4 DEF S!LoadLists
<1>5. CASE S!InitializeCriticalSection(p)
  BY <1>5 DEF S!InitializeCriticalSection
<1>6. CASE S!CreateMonitorThread(p)
  BY <1>6 DEF S!CreateMonitorThread
<1>7. CASE S!Clean(p)
  BY <1>7 DEF S!Clean
<1>8. QED
  BY <1>1, <1>2, <1>3, <1>4, <1>5, <1>6, <1>7 DEF ProcessStep

(* While one process owns the arrays, every other one is idle, refused or gone. *)
LEMMA OthersIdle ==
  ASSUME S!TypeOK, OneOwner, \A q \in Instance : Prepared(q),
         NEW p \in Instance, ownsLists(p)
  PROVE  \A q \in Instance \ {p} :
           pc[q] \in {"idle", "refused", "gone"} /\ ~ monitoring[q]
BY DEF S!TypeOK, OneOwner, ownsLists, S!running, Prepared

LEMMA EndsKeeps ==
  ASSUME StartInv, NEW p \in Instance, Ends(p)
  PROVE  StartInv'
<1>1. S!TypeOK /\ OneOwner /\ \A q \in Instance : Prepared(q)
  BY DEF StartInv, ProcessInv
<1>2. S!TypeOK' /\ OneOwner'
  BY <1>1, ProcessTypes, ProcessOwner DEF Ends
<1>3. CASE ownsLists(p)
  <2>1. FileTyped' /\ Unread'
    BY <1>3 DEF StartInv, ReadInv, TypeOK, FileTyped, Ends, Unread
  <2>2. ReadInv'
    <3>1. (FileTyped /\ Unread => ReadInv)'
      BY UnreadReads, PTL
    <3>2. QED
      BY <2>1, <3>1
  <2>3. \A q \in Instance : Prepared(q)'
    <3>1. \A q \in Instance \ {p} :
            pc[q] \in {"idle", "refused", "gone"} /\ ~ monitoring[q]
      BY <1>1, <1>3, OthersIdle
    <3>2. /\ pc' = [pc EXCEPT ![p] = "gone"]
          /\ monitoring' = [monitoring EXCEPT ![p] = FALSE]
          /\ section' = section
      BY DEF Ends, S!ProcessEnds, S!goto
    <3>3. /\ pc \in [Instance -> {"idle", "refused", "new", "station", "section",
                                  "thread", "watch", "clean", "gone"}]
          /\ monitoring \in [Instance -> BOOLEAN]
      BY <1>1 DEF S!TypeOK
    <3>4. \A q \in Instance : pc'[q] \in {"idle", "refused", "gone"} /\ ~ monitoring'[q]
      BY <3>1, <3>2, <3>3
    <3>5. \A q \in Instance : section'[q] = "deleted" => pc'[q] \in {"refused", "gone"}
      BY <1>1, <3>2, <3>3 DEF Prepared
    <3>6. QED
      BY <3>4, <3>5 DEF Prepared
  <2>4. QED
    BY <1>2, <2>2, <2>3 DEF StartInv, ProcessInv
<1>4. CASE ~ ownsLists(p)
  <2>1. ReadInv'
    BY <1>4, SameFile DEF StartInv, ReadInv, TypeOK, Ends, vars, TitlesRead,
          ProcessesRead, AtEnd
  <2>2. \A q \in Instance : Prepared(q)'
    BY <1>1, <1>4 DEF Ends, vars, S!ProcessEnds, S!goto, S!TypeOK, ownsLists, S!running, Prepared
  <2>3. QED
    BY <1>2, <2>1, <2>2 DEF StartInv, ProcessInv
<1>5. QED
  BY <1>3, <1>4

(* A process that reads is the one that runs: no other one is past reading.  *)
LEMMA ReadsKeeps ==
  ASSUME StartInv, NEW p \in Instance, ReadLists(p)
  PROVE  StartInv'
<1>1. S!TypeOK /\ OneOwner /\ \A q \in Instance : Prepared(q)
  BY DEF StartInv, ProcessInv
<1>2. ReadInv'
  BY ReadTitleReads, TitlesRunOutReads, ReadProcessReads, ProcessesRunOutReads
     DEF StartInv, ReadLists, Next
<1>3. S!TypeOK' /\ OneOwner'
  BY <1>1 DEF ReadLists, processes, S!TypeOK, OneOwner, ownsLists, S!running
<1>4. ownsLists(p)
  BY DEF ReadLists, ownsLists, S!running
<1>5. \A q \in Instance : Prepared(q)'
  <2>1. \A q \in Instance \ {p} :
          pc[q] \in {"idle", "refused", "gone"} /\ ~ monitoring[q]
    BY <1>1, <1>4, OthersIdle
  <2>2. pc[p] = "station" /\ ~ monitoring[p]
    BY <1>1 DEF ReadLists, Prepared
  <2>3. QED
    BY <1>1, <2>1, <2>2 DEF ReadLists, processes, Prepared
<1>6. QED
  BY <1>2, <1>3, <1>5 DEF StartInv, ProcessInv

LEMMA ReadKept == ReadInv /\ UNCHANGED vars => ReadInv'
BY SameFile DEF ReadInv, TypeOK, vars, TitlesRead, ProcessesRead, AtEnd

LEMMA StartStep == StartInv /\ [StartNext]_<<vars, processes>> => StartInv'
<1> SUFFICES ASSUME StartInv, [StartNext]_<<vars, processes>> PROVE StartInv'
  OBVIOUS
<1>1. S!TypeOK /\ OneOwner /\ \A q \in Instance : Prepared(q)
  BY DEF StartInv, ProcessInv
<1>2. ASSUME NEW p \in Instance, ReadLists(p) PROVE StartInv'
  BY <1>2, ReadsKeeps
<1>3. ASSUME NEW p \in Instance, Ends(p) PROVE StartInv'
  BY <1>3, EndsKeeps
<1>4. ASSUME NEW p \in Instance, LoadLists(p) PROVE StartInv'
  <2>1. phase' = phase /\ phase = "loaded" /\ UNCHANGED vars /\ S!LoadLists(p)
    BY <1>4 DEF LoadLists, vars
  <2>2. ReadInv'
    BY <2>1, ReadKept DEF StartInv
  <2>3. QED
    BY <1>1, <2>1, <2>2, ProcessTypes, ProcessOwner, ProcessPrepared
       DEF StartInv, ProcessInv
<1>5. ASSUME NEW p \in Instance, ProcessStep(p), UNCHANGED vars PROVE StartInv'
  <2>1. phase' = phase
    BY <1>5 DEF vars
  <2>2. ReadInv'
    BY <1>5, ReadKept DEF StartInv
  <2>3. QED
    BY <1>1, <1>5, <2>1, <2>2, ProcessTypes, ProcessOwner, ProcessPrepared
       DEF StartInv, ProcessInv
<1>6. CASE UNCHANGED <<vars, processes>>
  <2>1. ReadInv'
    BY <1>6, ReadKept DEF StartInv
  <2>2. QED
    BY <1>1, <1>6, <2>1
       DEF vars, processes, StartInv, ProcessInv, S!TypeOK, OneOwner,
           ownsLists, S!running, Prepared
<1>7. QED
  BY <1>2, <1>3, <1>4, <1>5, <1>6 DEF StartNext, ProcessStep

LEMMA StartInvariant == StartSpec => []StartInv
<1>1. StartInit => StartInv
  BY ReadInit, ProcessInit DEF StartInit, StartInv
<1>2. QED
  BY <1>1, StartStep, PTL DEF StartSpec

(* However many instances are started, fail, are killed and started again,   *)
(* one at most is past CreateUniqueInstance; and when the monitor thread     *)
(* runs, the desktops, the lists and the section are final, and the file has *)
(* been read to the end.                                                     *)
THEOREM OneWatchesPrepared == StartSpec => []OneWatches
<1>1. StartInv => OneWatches
  BY DEF StartInv, ProcessInv, Prepared, OneWatches, UniqueInstance, S!UniqueInstance,
         OneOwner, ownsLists, ThreadFindsAll, S!ThreadFindsAll
<1>2. QED
  BY <1>1, StartInvariant, PTL

(* Whichever process reads the file, and however often it is read again,     *)
(* both arrays hold what the file says, in order; the counts leave the       *)
(* arrays, and black_process is overrun, for exactly the files with too many *)
(* lines.                                                                    *)
THEOREM ListsReadAsWritten == StartSpec => []ListsAsWritten
<1>1. StartInv => ListsAsWritten
  BY ReadAsWritten DEF StartInv, ReadInv, ProcessInv, ListsAsWritten
<1>2. QED
  BY <1>1, StartInvariant, PTL

=============================================================================
