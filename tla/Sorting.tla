------------------------------- MODULE Sorting -------------------------------
(***************************************************************************)
(* misc/Library/Algorythms.h, the functions on arrays: four sorts, and     *)
(* Average_Minimum_Query_Time, which orders files so that one looked for   *)
(* at random is found soonest. Each is called once on an array; arrays     *)
(* start at 0, as in C.                                                    *)
(*                                                                         *)
(* Merge ends its halves with a sentinel, 0x7FFFFFF, which an int can      *)
(* exceed. Values include the sentinel and one beyond it. A read past the  *)
(* end of a half is undefined behaviour and given as the outcome Undefined.*)
(***************************************************************************)
EXTENDS Integers, FiniteSets, Functions

CONSTANTS Value,      \* values of the elements, integers
          Sentinel,   \* 0x7FFFFFF
          MaxLength,  \* bound on the length of arrays to sort
          FileSize,   \* L of a file, above 0
          FileHits,   \* H of a file, natural numbers
          MaxFiles    \* bound on the number of files

Array(S, n) == UNION {[0 .. k - 1 -> S] : k \in 0 .. n}

size(a) == Cardinality(DOMAIN a)

Undefined == [k \in {-1} |-> 0]   \* no array of the program

VARIABLES
  call,     \* the function called; before, what the array holds
  input,    \* the array at the call
  output    \* and after it

vars == <<call, input, output>>

Files == Array([l : FileSize, h : FileHits], MaxFiles)

Init ==
  /\ \/ call = "numbers" /\ input \in Array(Value, MaxLength)
     \/ call = "files" /\ input \in Files
  /\ output = Undefined

numbers == call = "numbers"

returns(f, a) == call' = f /\ output' = a /\ UNCHANGED input

------------------------------------------------------------------------------
Exchange(a, j, k) == [a EXCEPT ![j] = a[k], ![k] = a[j]]

(* The first of the smallest elements from i on.                            *)
smallest(a, i) ==
  CHOOSE p \in i .. size(a) - 1 :
    /\ \A j \in i .. size(a) - 1 : a[p] <= a[j]
    /\ \A j \in i .. p - 1 : a[p] < a[j]

insertion(a) ==
  LET after[i \in 0 .. size(a)] ==
        IF i = 0 THEN a
        ELSE Exchange(after[i - 1], i - 1, smallest(after[i - 1], i - 1))
  IN after[size(a)]

insert_sort == numbers /\ returns("insert_sort", insertion(input))

(* The inner loop of Bubble_Sort, from the last element down to j.          *)
compared(b, j) == IF b[j] < b[j - 1] THEN Exchange(b, j, j - 1) ELSE b

bubble(a, i) ==
  LET down[j \in i + 1 .. size(a)] ==
        IF j = size(a) THEN a ELSE compared(down[j + 1], j)
  IN down[i + 1]

bubbled(a) ==
  LET after[i \in 0 .. size(a) - 1] ==
        IF i = 0 THEN a ELSE bubble(after[i - 1], i - 1)
  IN IF size(a) = 0 THEN a ELSE after[size(a) - 1]

Bubble_Sort == numbers /\ returns("Bubble_Sort", bubbled(input))

------------------------------------------------------------------------------
(* A half of the array with the sentinel behind it.                         *)
half(a, first, n) == [k \in 0 .. n |-> IF k < n THEN a[first + k] ELSE Sentinel]

(* One turn of the loop that writes element k from the half that is less.   *)
mergeNext(m, k, L, R) ==
  IF m.array = Undefined THEN m
  ELSE IF m.i \notin DOMAIN L \/ m.j \notin DOMAIN R
       THEN [array |-> Undefined, i |-> m.i, j |-> m.j]
  ELSE IF L[m.i] <= R[m.j]
       THEN [array |-> [m.array EXCEPT ![k] = L[m.i]], i |-> m.i + 1, j |-> m.j]
       ELSE [array |-> [m.array EXCEPT ![k] = R[m.j]], i |-> m.i, j |-> m.j + 1]

mergeHalves(a, p, r, L, R) ==
  LET upto[k \in p - 1 .. r] ==
        IF k = p - 1 THEN [array |-> a, i |-> 0, j |-> 0]
        ELSE mergeNext(upto[k - 1], k, L, R)
  IN upto[r].array

\* Fault: the second half starts with the last element of the first.
Merge_FromQ(a, p, q, r) == mergeHalves(a, p, r, half(a, p, q - p + 1), half(a, q, r - q))

Merge(a, p, q, r) == mergeHalves(a, p, r, half(a, p, q - p + 1), half(a, q + 1, r - q))

(* Merge_Sort(Array, p, r), for an array of n elements and all p and r.   *)
MergeSort(n) ==
  LET sorts[c \in ([0 .. n - 1 -> Int] \cup {Undefined}) \X (0 .. n) \X (-1 .. n - 1)] ==
        LET a == c[1]
            p == c[2]
            r == c[3]
            q == (p + r) \div 2
            b == sorts[<<sorts[<<a, p, q>>], q + 1, r>>]
        IN IF a = Undefined \/ p >= r THEN a
           ELSE IF b = Undefined THEN b ELSE Merge(b, p, q, r)
  IN sorts

Merge_Sort ==
  numbers /\ returns("Merge_Sort", MergeSort(size(input))[<<input, 0, size(input) - 1>>])

------------------------------------------------------------------------------
Heap_Left(i) == i + i
Heap_Right(i) == i + i + 1

largest(a, i, heapsize) ==
  LET left == IF Heap_Left(i) < heapsize /\ a[Heap_Left(i)] > a[i] THEN Heap_Left(i) ELSE i
  IN IF Heap_Right(i) < heapsize /\ a[Heap_Right(i)] > a[left] THEN Heap_Right(i) ELSE left

(* One call of Max_HeapIFY and the next, as long as it calls itself: each goes
   to a greater i, which stays below heapsize.                              *)
sink(s, heapsize) ==
  LET i == largest(s.array, s.i, heapsize)
  IN IF i = s.i THEN s ELSE [array |-> Exchange(s.array, s.i, i), i |-> i]

Max_HeapIFY(a, i, heapsize) ==
  LET at[k \in 0 .. heapsize] ==
        IF k = 0 THEN [array |-> a, i |-> i] ELSE sink(at[k - 1], heapsize)
  IN at[heapsize].array

Build_Max_Heap(a) ==
  LET n == size(a) \div 2
      after[i \in 0 .. n + 1] ==
        IF i = n + 1 THEN a ELSE Max_HeapIFY(after[i + 1], i, size(a))
  IN after[0]

heaped(a) ==
  LET after[i \in 1 .. size(a)] ==
        IF i = size(a) THEN Build_Max_Heap(a)
        ELSE Max_HeapIFY(Exchange(after[i + 1], 0, i), 0, i)
  IN IF size(a) = 0 THEN a ELSE after[1]

Heap_Sort == numbers /\ returns("Heap_Sort", heaped(input))

------------------------------------------------------------------------------
(* H * 100 / L of the files, compared without the rounding of doubles.      *)
likelier(x, y) == x.h * y.l > y.h * x.l

(* A selection sort by falling f; Result is the order of the files.         *)
best(s, i) ==
  CHOOSE p \in i .. size(s) - 1 :
    /\ \A j \in i .. size(s) - 1 : ~ likelier(input[s[j]], input[s[p]])
    /\ \A j \in i .. p - 1 : likelier(input[s[p]], input[s[j]])

soonest ==
  LET n == size(input)
      after[i \in 0 .. n] ==
        IF i = 0 THEN [k \in 0 .. n - 1 |-> k]
        ELSE Exchange(after[i - 1], i - 1, best(after[i - 1], i - 1))
  IN after[n]

Average_Minimum_Query_Time ==
  call = "files" /\ returns("Average_Minimum_Query_Time", soonest)

Next ==
  \/ insert_sort \/ Bubble_Sort \/ Merge_Sort \/ Heap_Sort
  \/ Average_Minimum_Query_Time

Spec == Init /\ [][Next]_vars

------------------------------------------------------------------------------
sorted(a) == \A j, k \in DOMAIN a : j <= k => a[j] <= a[k]

sameElements(a, b) ==
  /\ DOMAIN a = DOMAIN b
  /\ \A x \in Range(a) \cup Range(b) :
       Cardinality({k \in DOMAIN a : a[k] = x}) = Cardinality({k \in DOMAIN b : b[k] = x})

(* The sorts by exchange return the elements they were given, in order; so
   does Merge_Sort as long as every element is below its sentinel.          *)
Sorts ==
  \/ call \in {"insert_sort", "Bubble_Sort", "Heap_Sort"}
  \/ call = "Merge_Sort" /\ \A k \in DOMAIN input : input[k] < Sentinel
  => sorted(output) /\ sameElements(input, output)

(* Whatever the elements, Merge puts no element before a smaller one of the
   other half as long as it reads its own halves: what comes out is undefined,
   or in order, or holds the sentinel in place of a larger element.         *)
LosesOnlyToSentinel ==
  call = "Merge_Sort" /\ output # Undefined =>
    \/ sameElements(input, output) /\ sorted(output)
    \/ \E k \in DOMAIN input : input[k] > Sentinel

(* The time to find the files when each is looked for h times and those before
   it have to be passed: no other order has a smaller one.                  *)
passed(c, f) == [length |-> c.length + f.l, time |-> c.time + f.h * (c.length + f.l)]

cost(s) ==
  LET upto[k \in 0 .. size(s)] ==
        IF k = 0 THEN [length |-> 0, time |-> 0] ELSE passed(upto[k - 1], input[s[k - 1]])
  IN upto[size(s)].time

QueriesSoonest ==
  call = "Average_Minimum_Query_Time" =>
    \A s \in Bijection(DOMAIN input, DOMAIN input) : cost(output) <= cost(s)
==============================================================================
