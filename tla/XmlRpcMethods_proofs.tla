------------------------ MODULE XmlRpcMethods_proofs ------------------------
(* Theorems about the map of methods and the execution of requests, for     *)
(* every set of method objects and names, multicalls of any length, and     *)
(* whatever the program and its methods do to the map in between.           *)
EXTENDS XmlRpcMethods, SequenceTheorems, TLAPS

(* The types of the variables that make up the map, and the names of the    *)
(* server's own two methods, which no constructor run by the program        *)
(* touches.                                                                 *)
RegistryOK ==
  /\ alive \subseteq Method
  /\ name \in [Method -> Name]
  /\ methods \in [Name -> Method \cup {NoMethod}]
  /\ introspection \in BOOLEAN
  /\ name[ListMethods] = LIST_METHODS
  /\ name[MethodHelp] = METHOD_HELP

RInv == RegistryOK /\ RegisteredAreAlive /\ Hidden

(* The execution of requests never changes the map.                         *)
LEMMA ExecutionKeepsRegistry == executeRequest \/ Client => UNCHANGED registry
BY DEF executeRequest, Client, StartMethod, FinishMethod, UnknownMethod,
       executeMulticall, InvalidArgument, SkipNameless, ThrowMistyped,
       ReturnArray, Receive

LEMMA RegistryInit == Init => RInv
<1> SUFFICES ASSUME Init PROVE RInv
  OBVIOUS
<1>1. /\ alive \subseteq Method
      /\ name \in [Method -> Name]
      /\ methods \in [Name -> Method \cup {NoMethod}]
      /\ introspection \in BOOLEAN
  BY DEF Init, Name
<1>2. name[ListMethods] = LIST_METHODS /\ name[MethodHelp] = METHOD_HELP
  BY MethodsAssumption DEF Init, Method
<1>3. RegisteredAreAlive /\ Hidden
  BY MethodsAssumption DEF Init, RegisteredAreAlive, Hidden, Method
<1>4. QED
  BY <1>1, <1>2, <1>3 DEF RInv, RegistryOK

LEMMA RegistryStep == RInv /\ [Next]_vars => RInv'
<1> SUFFICES ASSUME RInv, [Next]_vars PROVE RInv'
  OBVIOUS
<1> USE MethodsAssumption DEF RInv, RegistryOK, RegisteredAreAlive, Hidden, Method, Name
<1>1. ASSUME NEW m \in UserMethod, NEW n \in UserName, NEW s \in BOOLEAN,
             XmlRpcServerMethod(m, n, s)
      PROVE RInv'
  BY <1>1 DEF XmlRpcServerMethod, added
<1>2. ASSUME NEW m \in UserMethod, addMethod(m) PROVE RInv'
  BY <1>2 DEF addMethod, added
<1>3. ASSUME NEW m \in UserMethod, DestroyMethod(m) PROVE RInv'
  BY <1>3 DEF DestroyMethod, erased
<1>4. ASSUME NEW n \in Name, removeMethod(n) PROVE RInv'
  BY <1>4 DEF removeMethod, erased
<1>5. ASSUME NEW b \in BOOLEAN, enableIntrospection(b) PROVE RInv'
  BY <1>5 DEF enableIntrospection
<1>6. CASE UNCHANGED registry
  BY <1>6 DEF registry
<1>7. QED
  BY <1>1, <1>2, <1>3, <1>4, <1>5, <1>6, ExecutionKeepsRegistry
     DEF Next, Program, vars

(* No method that is gone can be called, by a client or by system.          *)
(* methodHelp: every registered object exists, under its own name.          *)
THEOREM CallsReachLiveMethods == Spec => []RegisteredAreAlive
<1>1. RInv => RegisteredAreAlive
  BY DEF RInv
<1>2. QED
  BY RegistryInit, RegistryStep, <1>1, PTL DEF Spec

(* While introspection is disabled neither of its methods is registered.    *)
THEOREM IntrospectionHides == Spec => []Hidden
<1>1. RInv => Hidden
  BY DEF RInv
<1>2. QED
  BY RegistryInit, RegistryStep, <1>1, PTL DEF Spec

(* The registry as clients and methods find it, in every state.             *)
THEOREM RegistryStaysSound == Spec => []RegistrySound
  BY CallsReachLiveMethods, IntrospectionHides, PTL DEF RegistrySound

(* -------------------- the execution of a request ------------------------- *)

(* While a method runs, the history ends with its execution; when no request *)
(* is executed, no activation is left.                                       *)
ExecutionInv ==
  /\ TypeOK
  /\ pc = "running" => executed # << >>
  /\ pc = "idle" => level = 0

LEMMA ExecutionInit == Init => ExecutionInv
<1> SUFFICES ASSUME Init PROVE ExecutionInv
  OBVIOUS
<1>1. /\ name \in [Method -> Name] /\ methods \in [Name -> Method \cup {NoMethod}]
      /\ _server \in [Method -> BOOLEAN]
  BY DEF Init, Name
<1>2. /\ at = << >> /\ result = << >> /\ executed = << >> /\ entries = << >> /\ pc = "idle"
      /\ response = "fault" /\ running = NoMethod /\ request = LIST_METHODS
      /\ alive = {} /\ introspection = FALSE /\ created = FALSE
  BY DEF Init
<1>3. at \in Seq(Nat \ {0}) /\ result \in Seq(Seq(Outcome)) /\ Len(result) = 0 /\ Len(at) = 0
  BY <1>2
<1>4. /\ executed \in Seq([position : Nat, outcome : Outcome \cup {"none"}])
      /\ entries \in Seq(Entry)
  BY <1>2
<1>5. QED
  BY <1>1, <1>2, <1>3, <1>4 DEF ExecutionInv, TypeOK, Outcome, Name, level

RegistryTypes ==
  /\ alive \subseteq Method /\ name \in [Method -> Name] /\ _server \in [Method -> BOOLEAN]
  /\ methods \in [Name -> Method \cup {NoMethod}]
  /\ introspection \in BOOLEAN /\ created \in BOOLEAN

(* The program's steps are about the map only.                               *)
LEMMA ProgramTypes == ExecutionInv /\ Program => ExecutionInv' /\ UNCHANGED execution
<1> SUFFICES ASSUME ExecutionInv, Program PROVE ExecutionInv' /\ UNCHANGED execution
  OBVIOUS
<1>1. UNCHANGED execution
  BY DEF Program, XmlRpcServerMethod, addMethod, DestroyMethod, removeMethod, enableIntrospection
<1>2. RegistryTypes
  BY DEF ExecutionInv, TypeOK, RegistryTypes
<1>3. RegistryTypes'
  <2> USE <1>2 DEF Method, Name, RegistryTypes
  <2>1. ASSUME NEW m \in UserMethod, NEW n \in UserName, NEW b \in BOOLEAN,
               XmlRpcServerMethod(m, n, b)
        PROVE  RegistryTypes'
    BY <2>1 DEF XmlRpcServerMethod, added
  <2>2. ASSUME NEW m \in UserMethod, addMethod(m) \/ DestroyMethod(m) PROVE RegistryTypes'
    BY <2>2 DEF addMethod, DestroyMethod, added, erased
  <2>3. ASSUME NEW n \in Name, removeMethod(n) PROVE RegistryTypes'
    BY <2>3 DEF removeMethod, erased
  <2>4. ASSUME NEW b \in BOOLEAN, enableIntrospection(b) PROVE RegistryTypes'
    BY <2>4 DEF enableIntrospection
  <2>5. QED
    BY <2>1, <2>2, <2>3, <2>4 DEF Program
<1>4. QED
  BY <1>1, <1>3 DEF ExecutionInv, TypeOK, execution, level, RegistryTypes

(* The activations of executeMulticall, and what they answer.                *)
ActivationTypes ==
  /\ at \in Seq(Nat \ {0}) /\ result \in Seq(Seq(Outcome)) /\ Len(result) = Len(at)
  /\ response \in Outcome \cup Seq(Outcome)
  /\ pc \in {"idle", "find", "running", "overflow"}
  /\ pc = "idle" => level = 0

LEMMA RespondTypes ==
  ASSUME ActivationTypes, NEW r \in Outcome \cup Seq(Outcome), respond(r)
  PROVE  ActivationTypes' /\ pc' = "idle" /\ level' = 0 /\ response' = r
<1>1. at' = << >> /\ result' = << >> /\ Len(<< >>) = 0
  BY DEF respond
<1>2. at' \in Seq(Nat \ {0}) /\ result' \in Seq(Seq(Outcome)) /\ Len(at') = 0 /\ Len(result') = 0
  BY <1>1
<1>3. QED
  BY <1>2 DEF respond, ActivationTypes, level

(* What recording an outcome does within a multicall.                        *)
LEMMA RecordTypes ==
  ASSUME ActivationTypes, NEW o \in Outcome, record(o)
  PROVE  /\ ActivationTypes' /\ pc' # "running"
         /\ level = 0 => pc' = "idle" /\ level' = 0 /\ response' = o
         /\ level > 0 =>
              /\ pc' = "find" /\ level' = level /\ response' = response
              /\ at'[level] = at[level] + 1 /\ result'[level] = Append(result[level], o)
<1>1. level \in Nat /\ Len(at) \in Nat /\ level = Len(at)
  BY LenProperties DEF ActivationTypes, level
<1>2. CASE level = 0
  <2>1. respond(o)
    BY <1>2 DEF record
  <2>2. QED
    BY <1>2, <2>1, RespondTypes
<1>3. CASE level > 0
  <2>1. /\ result' = [result EXCEPT ![level] = Append(@, o)]
        /\ at' = [at EXCEPT ![level] = @ + 1]
        /\ pc' = "find" /\ response' = response
    BY <1>3 DEF record
  <2>2. /\ level \in 1 .. Len(at) /\ level \in 1 .. Len(result)
        /\ at[level] \in Nat \ {0} /\ result[level] \in Seq(Outcome)
    BY <1>1, <1>3 DEF ActivationTypes
  <2>3. at[level] + 1 \in Nat \ {0} /\ Append(result[level], o) \in Seq(Outcome)
    BY <2>2, AppendProperties
  <2>4. /\ at' \in Seq(Nat \ {0}) /\ Len(at') = Len(at) /\ at'[level] = at[level] + 1
    BY <2>1, <2>2, <2>3, ExceptSeq DEF ActivationTypes
  <2>5. /\ result' \in Seq(Seq(Outcome)) /\ Len(result') = Len(result)
        /\ result'[level] = Append(result[level], o)
    BY <2>1, <2>2, <2>3, ExceptSeq DEF ActivationTypes
  <2>6. level' = level
    BY <1>1, <2>4 DEF level
  <2>7. ActivationTypes'
    BY <1>3, <2>1, <2>4, <2>5 DEF ActivationTypes
  <2>8. QED
    BY <1>1, <1>3, <2>1, <2>4, <2>5, <2>6, <2>7
<1>4. QED
  BY <1>1, <1>2, <1>3

(* An activation that ends below another one leaves its outcome there.       *)
LEMMA OuterTypes ==
  ASSUME ActivationTypes, level > 1, NEW o \in Outcome, UNCHANGED <<pc, response>>,
         result' = [i \in 1 .. level - 1 |-> IF i = level - 1 THEN Append(result[i], o)
                                                             ELSE result[i]],
         at' = [i \in 1 .. level - 1 |-> IF i = level - 1 THEN at[i] + 1 ELSE at[i]]
  PROVE  ActivationTypes'
<1>1. level \in Nat /\ level = Len(at)
  BY LenProperties DEF ActivationTypes, level
<1>2. \A i \in 1 .. level - 1 :
        /\ at[i] \in Nat \ {0} /\ at[i] + 1 \in Nat \ {0}
        /\ result[i] \in Seq(Outcome) /\ Append(result[i], o) \in Seq(Outcome)
  <2>1. ASSUME NEW i \in 1 .. level - 1
        PROVE  at[i] \in Nat \ {0} /\ result[i] \in Seq(Outcome)
    BY <1>1 DEF ActivationTypes
  <2>2. QED
    BY <2>1, AppendProperties
<1>3. level - 1 \in Nat
  BY <1>1
<1>4. at' \in [1 .. level - 1 -> Nat \ {0}] /\ result' \in [1 .. level - 1 -> Seq(Outcome)]
  BY <1>2
<1>5. at' \in Seq(Nat \ {0}) /\ result' \in Seq(Seq(Outcome))
  <2>1. \A S, f : \A n \in Nat : f \in [1 .. n -> S] => f \in Seq(S)
    OBVIOUS
  <2>2. QED
    BY <1>3, <1>4, <2>1
<1>6. Len(at') = level - 1 /\ Len(result') = level - 1
  BY <1>3, <1>4, <1>5, LenProperties
<1>7. pc # "idle"
  BY <1>1 DEF ActivationTypes
<1>8. QED
  BY <1>5, <1>6, <1>7 DEF ActivationTypes

HistoryEntry == [position : Nat, outcome : Outcome \cup {"none"}]

RequestTypes ==
  /\ ActivationTypes /\ request \in Name /\ entries \in Seq(Entry)
  /\ running \in Method \cup {NoMethod} /\ executed \in Seq(HistoryEntry)
  /\ pc = "running" => executed # << >>

(* The steps of a request, without the map.                                  *)
LEMMA ExecutionTypes ==
  ASSUME ExecutionInv, executeRequest \/ Client
  PROVE  ExecutionInv'
<1>1. /\ ActivationTypes /\ request \in Name /\ entries \in Seq(Entry)
      /\ running \in Method \cup {NoMethod} /\ executed \in Seq(HistoryEntry)
      /\ methods \in [Name -> Method \cup {NoMethod}]
      /\ pc = "running" => executed # << >>
      /\ Len(at) \in Nat /\ level = Len(at)
  BY LenProperties DEF ExecutionInv, TypeOK, ActivationTypes, HistoryEntry, level
<1>2. UNCHANGED registry
  BY ExecutionKeepsRegistry
<1>3. SUFFICES RequestTypes'
  BY <1>2 DEF ExecutionInv, TypeOK, ActivationTypes, HistoryEntry, registry, RequestTypes
<1> USE DEF RequestTypes
<1>4. CASE StartMethod
  <2>1. /\ called \in Name /\ running' = methods[called] /\ pc' = "running" /\ pc = "find"
        /\ executed' = Append(executed, [position |-> position, outcome |-> "none"])
        /\ UNCHANGED <<registry, request, entries, at, result, response>>
    BY <1>4 DEF StartMethod, named, atCall
  <2>2. position \in Nat
    BY <1>1 DEF position, ActivationTypes
  <2>3. [position |-> position, outcome |-> "none"] \in HistoryEntry
    BY <2>2 DEF HistoryEntry
  <2>4. executed' \in Seq(HistoryEntry) /\ Len(executed') = Len(executed) + 1
    BY <1>1, <2>1, <2>3, AppendProperties
  <2>5. executed' # << >>
    BY <1>1, <2>4, LenProperties, EmptySeq
  <2>6. ActivationTypes'
    BY <1>1, <2>1 DEF ActivationTypes, level
  <2>7. QED
    BY <1>1, <2>1, <2>4, <2>5, <2>6
<1>5. ASSUME NEW o \in Outcome, FinishMethod(o) PROVE RequestTypes'
  <2>1. /\ pc = "running" /\ running' = NoMethod /\ record(o)
        /\ executed' = [executed EXCEPT ![Len(executed)].outcome = o]
        /\ UNCHANGED <<registry, request, entries>>
    BY <1>5 DEF FinishMethod
  <2>2. ActivationTypes' /\ pc' # "running"
    BY <1>1, <2>1, RecordTypes
  <2>3. Len(executed) \in 1 .. Len(executed) /\ executed[Len(executed)] \in HistoryEntry
    BY <1>1, <2>1, EmptySeq, LenProperties
  <2>4. [executed[Len(executed)] EXCEPT !.outcome = o] \in HistoryEntry
    BY <2>3 DEF HistoryEntry
  <2>5. executed' \in Seq(HistoryEntry)
    BY <1>1, <2>1, <2>3, <2>4, ExceptSeq
  <2>6. QED
    BY <1>1, <2>1, <2>2, <2>5
<1>6. CASE UnknownMethod \/ SkipNameless
  <2>1. record("fault") /\ UNCHANGED <<registry, request, entries, running, executed>>
    BY <1>6 DEF UnknownMethod, SkipNameless
  <2>2. ActivationTypes' /\ pc' # "running"
    BY <1>1, <2>1, RecordTypes DEF Outcome
  <2>3. QED
    BY <1>1, <2>1, <2>2
<1>7. CASE executeMulticall
  <2>1. /\ pc = "find" /\ UNCHANGED <<registry, request, entries, running, response, executed>>
        /\ \/ at' = Append(at, 1) /\ result' = Append(result, << >>) /\ pc' = pc
           \/ pc' = "overflow" /\ UNCHANGED <<at, result>>
    BY <1>7 DEF executeMulticall, named, atCall
  <2>2. ActivationTypes'
    <3>1. CASE at' = Append(at, 1) /\ result' = Append(result, << >>) /\ pc' = pc
      <4>1. << >> \in Seq(Outcome)
        BY EmptySeq
      <4>2. /\ at' \in Seq(Nat \ {0}) /\ Len(at') = Len(at) + 1
            /\ result' \in Seq(Seq(Outcome)) /\ Len(result') = Len(result) + 1
        BY <1>1, <3>1, <4>1, AppendProperties DEF ActivationTypes
      <4>3. QED
        BY <1>1, <2>1, <3>1, <4>2 DEF ActivationTypes
    <3>2. CASE pc' = "overflow" /\ UNCHANGED <<at, result>>
      BY <1>1, <2>1, <3>2 DEF ActivationTypes
    <3>3. QED
      BY <2>1, <3>1, <3>2
  <2>3. QED
    BY <1>1, <2>1, <2>2
<1>8. CASE InvalidArgument
  <2>1. respond("fault") /\ UNCHANGED <<registry, request, entries, running, executed>>
    BY <1>8 DEF InvalidArgument
  <2>2. ActivationTypes' /\ pc' = "idle"
    BY <1>1, <2>1, RespondTypes DEF Outcome
  <2>3. QED
    BY <1>1, <2>1, <2>2
<1>9. CASE ThrowMistyped \/ ReturnArray
  <2>1. level >= 1 /\ pc = "find"
    BY <1>1, <1>9, MethodsAssumption
       DEF ThrowMistyped, ReturnArray, exhausted, atCall, called, Name
  <2>2. UNCHANGED <<registry, request, entries, running, executed>>
    BY <1>9 DEF ThrowMistyped, ReturnArray
  <2>3. CASE level = 1
    <3>1. PICK r \in {"fault", result[1]} : respond(r)
      BY <1>9, <2>3 DEF ThrowMistyped, ReturnArray
    <3>2. r \in Outcome \cup Seq(Outcome)
      <4>1. 1 \in 1 .. Len(result) /\ result \in Seq(Seq(Outcome))
        BY <1>1, <2>3 DEF ActivationTypes
      <4>2. result[1] \in Seq(Outcome)
        BY <4>1, ElementOfSeq
      <4>3. "fault" \in Outcome
        BY DEF Outcome
      <4>4. QED
        BY <3>1, <4>2, <4>3
    <3>3. ActivationTypes' /\ pc' = "idle"
      BY <1>1, <3>1, <3>2, RespondTypes
    <3>4. QED
      BY <1>1, <2>2, <3>3
  <2>4. CASE level > 1
    <3>1. PICK o \in {"fault", "value"} :
            /\ UNCHANGED <<pc, response>>
            /\ result' = [i \in 1 .. level - 1 |-> IF i = level - 1 THEN Append(result[i], o)
                                                                   ELSE result[i]]
            /\ at' = [i \in 1 .. level - 1 |-> IF i = level - 1 THEN at[i] + 1 ELSE at[i]]
      BY SMTT(30), <1>1, <1>9, <2>4 DEF ThrowMistyped, ReturnArray
    <3>2. ActivationTypes'
      BY <1>1, <2>4, <3>1, OuterTypes DEF Outcome
    <3>3. QED
      BY <1>1, <2>1, <2>2, <3>1, <3>2
  <2>5. QED
    BY <1>1, <2>1, <2>3, <2>4
<1>10. ASSUME NEW n \in Name, NEW es \in Calls, Receive(n, es) PROVE RequestTypes'
  <2>1. /\ request' = n /\ entries' = es /\ pc' = "find" /\ executed' = << >>
        /\ UNCHANGED <<registry, running, at, result, response>>
    BY <1>10 DEF Receive
  <2>2. es \in Seq(Entry)
    <3>1. PICK k \in 0 .. MaxEntries : es \in [1 .. k -> Entry]
      BY DEF Calls
    <3>2. k \in Nat
      BY MethodsAssumption
    <3>3. QED
      BY <3>1, <3>2
  <2>3. << >> \in Seq(HistoryEntry)
    BY EmptySeq
  <2>4. ActivationTypes'
    BY <1>1, <2>1 DEF ActivationTypes, level
  <2>5. QED
    BY <1>1, <2>1, <2>2, <2>3, <2>4
<1>11. QED
  BY <1>4, <1>5, <1>6, <1>7, <1>8, <1>9, <1>10 DEF executeRequest, Client

(* Every step keeps the types, and what ExecutionInv says beyond them.       *)
LEMMA ExecutionStep == ExecutionInv /\ [Next]_vars => ExecutionInv'
<1>1. ASSUME ExecutionInv, UNCHANGED vars PROVE ExecutionInv'
  BY <1>1 DEF ExecutionInv, TypeOK, vars, registry, execution, level
<1>2. QED
  BY <1>1, ProgramTypes, ExecutionTypes DEF Next

(* ------------------------ a flat multicall ------------------------------- *)

(* The call at position i was executed, and its method returned.             *)
Returned(i) ==
  \E k \in DOMAIN executed : executed[k] = [position |-> i, outcome |-> "value"]

(* Before the first activation nothing was executed; the one activation of a *)
(* flat multicall has a result for every call before the one it has come to, *)
(* a value where the method returned, and has executed none beyond it.       *)
Direct == level = 0 /\ pc = "find" => executed = << >>

Results ==
  /\ at[1] <= Len(entries) + 1
  /\ Len(result[1]) = at[1] - 1
  /\ \A i \in 1 .. at[1] - 1 : result[1][i] = "value" <=> Returned(i)

Behind == \A k \in DOMAIN executed : executed[k].position < at[1]

Current ==
  /\ at[1] <= Len(entries)
  /\ executed[Len(executed)] = [position |-> at[1], outcome |-> "none"]

Increasing ==
  \A i, j \in DOMAIN executed : i < j => executed[i].position < executed[j].position

FlatInv ==
  flat =>
    /\ level <= 1
    /\ Increasing
    /\ Direct
    /\ level = 1 => Results
    /\ level = 1 /\ pc = "find" => Behind
    /\ level = 1 /\ pc = "running" => Current

MethodsInv == ExecutionInv /\ FlatInv /\ OneResultEach

(* What a step of a request finds, beyond the types, when calls are flat.    *)
Flat ==
  /\ flat /\ level <= 1 /\ Increasing /\ Direct
  /\ level = 1 => Results
  /\ level = 1 /\ pc = "find" => Behind
  /\ level = 1 /\ pc = "running" => Current

LEMMA FlatFacts ==
  ASSUME ExecutionInv
  PROVE  /\ Len(executed) \in Nat /\ DOMAIN executed = 1 .. Len(executed)
         /\ \A k \in DOMAIN executed :
              executed[k] \in HistoryEntry /\ executed[k].position \in Nat
         /\ Len(entries) \in Nat
         /\ level \in Nat /\ level = Len(at)
         /\ level = 1 => at[1] \in Nat \ {0} /\ result[1] \in Seq(Outcome)
<1>1. /\ executed \in Seq(HistoryEntry) /\ entries \in Seq(Entry)
      /\ at \in Seq(Nat \ {0}) /\ result \in Seq(Seq(Outcome)) /\ Len(result) = Len(at)
  BY DEF ExecutionInv, TypeOK, HistoryEntry
<1>2. Len(executed) \in Nat /\ DOMAIN executed = 1 .. Len(executed) /\ Len(entries) \in Nat
  BY <1>1, LenProperties
<1>3. \A k \in DOMAIN executed : executed[k] \in HistoryEntry
  BY <1>1, <1>2, ElementOfSeq
<1>4. \A k \in DOMAIN executed : executed[k].position \in Nat
  BY <1>3 DEF HistoryEntry
<1>5. level \in Nat /\ level = Len(at)
  BY <1>1, LenProperties DEF level
<1>6. ASSUME level = 1 PROVE at[1] \in Nat \ {0} /\ result[1] \in Seq(Outcome)
  <2>1. 1 \in 1 .. Len(at) /\ 1 \in 1 .. Len(result)
    BY <1>1, <1>5, <1>6
  <2>2. QED
    BY <1>1, <2>1, ElementOfSeq
<1>7. QED
  BY <1>2, <1>3, <1>4, <1>5, <1>6

(* An array is answered at the end of a multicall only.                      *)
LEMMA RespondOutcome ==
  ASSUME ExecutionInv, NEW r \in Outcome, respond(r), executed' \in Seq(HistoryEntry),
         Increasing'
  PROVE  FlatInv' /\ OneResultEach'
<1>1. at' = << >> /\ response' = r /\ pc' = "idle"
  BY DEF respond
<1>2. level' = 0
  BY <1>1, EmptySeq DEF level
<1>3. QED
  BY <1>1, <1>2 DEF FlatInv, OneResultEach, Direct

LEMMA FlatStart ==
  ASSUME MethodsInv, StartMethod PROVE FlatInv' /\ OneResultEach'
<1>1. /\ pc = "find" /\ pc' = "running"
      /\ executed' = Append(executed, [position |-> position, outcome |-> "none"])
      /\ UNCHANGED <<entries, at, result, response>> /\ ~exhausted
  BY DEF StartMethod, named, atCall
<1>2. OneResultEach'
  BY <1>1 DEF OneResultEach
<1>3. CASE ~flat
  BY <1>1, <1>2, <1>3 DEF FlatInv, flat
<1>4. CASE flat
  <2>1. Flat
    BY <1>4 DEF MethodsInv, FlatInv, Flat
  <2>2. /\ Len(executed) \in Nat /\ DOMAIN executed = 1 .. Len(executed)
        /\ \A k \in DOMAIN executed : executed[k].position \in Nat
        /\ executed \in Seq(HistoryEntry)
        /\ Len(entries) \in Nat /\ level \in Nat /\ level = Len(at)
        /\ level = 1 => at[1] \in Nat \ {0}
    BY FlatFacts DEF MethodsInv, ExecutionInv, TypeOK, HistoryEntry
  <2>3. level' = level /\ flat'
    BY <1>1, <1>4 DEF level, flat
  <2>4. position \in Nat /\ (level = 1 => position = at[1])
    BY <2>1, <2>2 DEF position, Flat
  <2>5. /\ Len(executed') = Len(executed) + 1 /\ DOMAIN executed' = 1 .. Len(executed) + 1
        /\ \A k \in DOMAIN executed : executed'[k] = executed[k]
        /\ executed'[Len(executed) + 1] = [position |-> position, outcome |-> "none"]
    <3>1. [position |-> position, outcome |-> "none"] \in HistoryEntry
      BY <2>4 DEF HistoryEntry
    <3>2. QED
      BY <1>1, <2>2, <3>1, AppendProperties, LenProperties
  <2>6. \A k \in DOMAIN executed : executed[k].position < position
    BY <1>1, <2>1, <2>2, <2>4, EmptySeq DEF Flat, Direct, Behind
  <2>7. Increasing'
    <3>1. ASSUME NEW i \in DOMAIN executed', NEW j \in DOMAIN executed', i < j
          PROVE  executed'[i].position < executed'[j].position
      <4>1. i \in DOMAIN executed
        BY <2>2, <2>5, <3>1
      <4>2. CASE j \in DOMAIN executed
        BY <2>1, <2>5, <3>1, <4>1, <4>2 DEF Flat, Increasing
      <4>3. CASE j = Len(executed) + 1
        BY <2>5, <2>6, <4>1, <4>3
      <4>4. QED
        BY <2>2, <2>5, <4>2, <4>3
    <3>2. QED
      BY <3>1 DEF Increasing
  <2>8. CASE level = 1
    <3>1. \A i : Returned(i)' <=> Returned(i)
      <4>1. [position |-> position, outcome |-> "none"].outcome = "none"
        OBVIOUS
      <4>2. \A i : [position |-> i, outcome |-> "value"].outcome = "value"
        OBVIOUS
      <4>3. \A i : executed'[Len(executed) + 1] # [position |-> i, outcome |-> "value"]
        BY <2>5, <4>1, <4>2
      <4>4. \A k \in DOMAIN executed' : k \in DOMAIN executed \/ k = Len(executed) + 1
        BY <2>2, <2>5
      <4>5. DOMAIN executed \subseteq DOMAIN executed'
        BY <2>2, <2>5
      <4>6. QED
        BY <2>5, <4>3, <4>4, <4>5 DEF Returned
    <3>2. Results'
      BY <1>1, <2>1, <2>8, <3>1 DEF Flat, Results
    <3>3. Current'
      BY <1>1, <2>2, <2>4, <2>5, <2>8 DEF Current, exhausted
    <3>4. QED
      BY <1>1, <1>2, <2>3, <2>7, <2>8, <3>2, <3>3 DEF FlatInv, Direct
  <2>9. CASE level = 0
    BY <1>1, <1>2, <2>3, <2>7, <2>9 DEF FlatInv, Direct
  <2>10. QED
    BY <2>1, <2>2, <2>8, <2>9 DEF Flat
<1>5. QED
  BY <1>3, <1>4

(* One more result, in the place of the call it is of.                       *)
LEMMA ResultsGrow ==
  ASSUME ExecutionInv, Results, level = 1, NEW o \in Outcome,
         NEW c \in Nat \ {0}, c = at[1], c <= Len(entries), entries' = entries,
         at'[1] = c + 1, result'[1] = Append(result[1], o),
         \A i \in 1 .. c - 1 : Returned(i)' <=> Returned(i),
         o = "value" <=> Returned(c)'
  PROVE  Results'
<1>1. result[1] \in Seq(Outcome) /\ Len(entries) \in Nat
  BY FlatFacts
<1>2. /\ Len(result[1]) = c - 1
      /\ \A i \in 1 .. c - 1 : result[1][i] = "value" <=> Returned(i)
  BY DEF Results
<1>3. /\ Len(result'[1]) = c /\ result'[1][c] = o
      /\ \A i \in 1 .. c - 1 : result'[1][i] = result[1][i]
  <2>1. /\ Len(Append(result[1], o)) = Len(result[1]) + 1
        /\ \A i \in 1 .. Len(result[1]) : Append(result[1], o)[i] = result[1][i]
        /\ Append(result[1], o)[Len(result[1]) + 1] = o
    BY <1>1, AppendProperties
  <2>2. Len(result[1]) + 1 = c /\ 1 .. Len(result[1]) = 1 .. c - 1
    BY <1>1, <1>2
  <2>3. QED
    BY <2>1, <2>2
<1>4. \A i \in 1 .. c : result'[1][i] = "value" <=> Returned(i)'
  <2>1. ASSUME NEW i \in 1 .. c PROVE result'[1][i] = "value" <=> Returned(i)'
    <3>1. CASE i = c
      BY <1>3, <3>1
    <3>2. CASE i \in 1 .. c - 1
      BY <1>2, <1>3, <3>2
    <3>3. i = c \/ i \in 1 .. c - 1
      OBVIOUS
    <3>4. QED
      BY <3>1, <3>2, <3>3
  <2>2. QED
    BY <2>1
<1>5. /\ at'[1] <= Len(entries') + 1 /\ Len(result'[1]) = at'[1] - 1
      /\ 1 .. at'[1] - 1 = 1 .. c
  BY <1>1, <1>3
<1>6. QED
  BY <1>4, <1>5 DEF Results

LEMMA FlatFinish ==
  ASSUME MethodsInv, NEW o \in Outcome, FinishMethod(o) PROVE FlatInv' /\ OneResultEach'
<1> DEFINE n == Len(executed)
<1>1. /\ pc = "running" /\ record(o) /\ UNCHANGED entries
      /\ executed' = [executed EXCEPT ![n].outcome = o]
  BY DEF FinishMethod
<1>2. /\ n \in Nat \ {0} /\ DOMAIN executed = 1 .. n /\ executed \in Seq(HistoryEntry)
      /\ \A k \in DOMAIN executed : executed[k] \in HistoryEntry /\ executed[k].position \in Nat
      /\ level \in Nat /\ level = Len(at) /\ Len(entries) \in Nat
      /\ level = 1 => at[1] \in Nat \ {0} /\ result[1] \in Seq(Outcome)
  <2>1. executed # << >> /\ executed \in Seq(HistoryEntry)
    BY <1>1 DEF MethodsInv, ExecutionInv, TypeOK, HistoryEntry
  <2>2. n \in Nat \ {0}
    BY <2>1, LenProperties, EmptySeq
  <2>3. QED
    BY <2>1, <2>2, FlatFacts DEF MethodsInv
<1>3. ActivationTypes
  BY DEF MethodsInv, ExecutionInv, TypeOK, ActivationTypes
<1>4. /\ DOMAIN executed' = 1 .. n
      /\ \A k \in 1 .. n - 1 : executed'[k] = executed[k]
      /\ executed'[n] = [executed[n] EXCEPT !.outcome = o]
      /\ executed'[n].position = executed[n].position /\ executed'[n].outcome = o
      /\ executed'[n] \in HistoryEntry
  <2>1. n \in 1 .. n /\ executed[n] \in HistoryEntry
    BY <1>2
  <2>2. [executed[n] EXCEPT !.outcome = o] \in HistoryEntry
    BY <2>1 DEF HistoryEntry
  <2>3. /\ [executed[n] EXCEPT !.outcome = o].position = executed[n].position
        /\ [executed[n] EXCEPT !.outcome = o].outcome = o
    BY <2>1 DEF HistoryEntry
  <2>4. /\ executed'[n] = [executed[n] EXCEPT !.outcome = o]
        /\ \A k \in 1 .. n - 1 : executed'[k] = executed[k]
        /\ DOMAIN executed' = 1 .. n
    BY <1>1, <1>2, <2>1
  <2>5. QED
    BY <2>2, <2>3, <2>4
<1>5. \A k \in 1 .. n : executed'[k].position = executed[k].position /\ executed'[k].position \in Nat
  <2>1. \A k \in 1 .. n : k = n \/ k \in 1 .. n - 1
    <3>1. \A m \in Nat : \A k \in 1 .. m : k = m \/ k \in 1 .. m - 1
      OBVIOUS
    <3>2. QED
      BY <1>2, <3>1
  <2>2. \A k \in 1 .. n : executed'[k].position = executed[k].position
    BY <1>4, <2>1
  <2>3. QED
    BY <1>2, <2>2
<1>6. executed' \in Seq(HistoryEntry)
  <2>1. n \in 1 .. n /\ [executed[n] EXCEPT !.outcome = o] \in HistoryEntry
    BY <1>2, <1>4
  <2>2. QED
    BY <1>1, <1>2, <2>1, ExceptSeq
<1>7. CASE ~flat
  <2>1. ~flat'
    BY <1>1, <1>7 DEF flat
  <2>2. QED
    BY <2>1 DEF FlatInv, OneResultEach
<1>8. CASE flat
  <2>1. Flat
    BY <1>8 DEF MethodsInv, FlatInv, Flat
  <2>2. Increasing'
    BY <1>2, <1>4, <1>5, <2>1 DEF Flat, Increasing
  <2>3. CASE level = 0
    <3>1. respond(o)
      BY <1>1, <2>3 DEF record
    <3>2. QED
      BY <1>6, <2>2, <3>1, RespondOutcome DEF MethodsInv
  <2>4. ASSUME level = 1, NEW c \in Nat \ {0}, c = at[1]
        PROVE  FlatInv' /\ OneResultEach'
    <3>1. /\ pc' = "find" /\ level' = 1 /\ response' = response
          /\ at'[1] = c + 1 /\ result'[1] = Append(result[1], o)
      BY <1>1, <1>3, <2>4, RecordTypes
    <3>2. executed[n] = [position |-> c, outcome |-> "none"] /\ c <= Len(entries)
      BY <1>1, <2>1, <2>4 DEF Flat, Current
    <3>3. executed[n].position = c /\ executed[n].outcome = "none"
      BY <3>2
    <3>4. executed'[n] = [position |-> c, outcome |-> o]
      BY <1>4, <3>2
    <3>5. \A k \in 1 .. n - 1 : executed[k].position < c
      BY SMTT(30), <1>2, <2>1, <3>3 DEF Flat, Increasing
    <3>6. \A i \in 1 .. c - 1 : Returned(i)' <=> Returned(i)
      <4>1. ASSUME NEW i \in 1 .. c - 1 PROVE Returned(i)' <=> Returned(i)
        <5>1. i # c
          BY <1>2, <2>4, <4>1
        <5>2. [position |-> i, outcome |-> "value"].position = i
          OBVIOUS
        <5>3. /\ executed[n] # [position |-> i, outcome |-> "value"]
              /\ executed'[n] # [position |-> i, outcome |-> "value"]
          BY <1>4, <3>3, <5>1, <5>2
        <5>4. \A k \in 1 .. n : k = n \/ executed'[k] = executed[k]
          BY <1>2, <1>4
        <5>5. QED
          BY <1>2, <1>4, <5>3, <5>4 DEF Returned
      <4>2. QED
        BY <4>1
    <3>7. o = "value" <=> Returned(c)'
      <4>1. o = "value" => Returned(c)'
        <5>1. n \in DOMAIN executed'
          BY <1>2, <1>4
        <5>2. QED
          BY <3>1, <3>4, <5>1 DEF Returned
      <4>2. ASSUME NEW k \in DOMAIN executed',
                   executed'[k] = [position |-> c, outcome |-> "value"]
            PROVE  o = "value"
        <5>1. executed'[k].position = c /\ executed'[k].outcome = "value"
          BY <4>2
        <5>2. CASE k = n
          BY <1>4, <5>1, <5>2
        <5>3. CASE k \in 1 .. n - 1
          <6>1. executed[k].position < c /\ executed[k].position = c
            BY <1>4, <3>5, <5>1, <5>3
          <6>2. QED
            BY <1>2, <2>4, <6>1
        <5>4. QED
          BY <1>2, <1>4, <4>2, <5>2, <5>3
      <4>3. QED
        BY <4>1, <4>2 DEF Returned
    <3>8. Results'
      BY <1>1, <2>1, <2>4, <3>1, <3>2, <3>6, <3>7, ResultsGrow DEF Flat, MethodsInv
    <3>9. Behind'
      <4>1. \A k \in 1 .. n : executed[k].position <= c
        BY <1>2, <2>4, <3>3, <3>5
      <4>2. QED
        BY <1>2, <1>4, <1>5, <2>4, <3>1, <4>1 DEF Behind
    <3>10. FlatInv'
      BY <2>2, <3>1, <3>8, <3>9 DEF FlatInv, Direct
    <3>11. OneResultEach'
      BY <3>1 DEF OneResultEach
    <3>12. QED
      BY <3>10, <3>11
  <2>5. QED
    BY <1>2, <2>1, <2>3, <2>4 DEF Flat
<1>9. QED
  BY <1>7, <1>8

(* A call whose name is not a method's, or that has no name.                 *)
LEMMA FlatFail ==
  ASSUME MethodsInv, UnknownMethod \/ SkipNameless PROVE FlatInv' /\ OneResultEach'
<1>1. /\ pc = "find" /\ ~exhausted /\ record("fault")
      /\ UNCHANGED <<entries, executed>>
  BY DEF UnknownMethod, SkipNameless, named, atCall
<1>2. /\ \A k \in DOMAIN executed : executed[k].position \in Nat
      /\ level \in Nat /\ level = Len(at) /\ Len(entries) \in Nat
      /\ level = 1 => at[1] \in Nat \ {0}
      /\ executed \in Seq(HistoryEntry) /\ ActivationTypes /\ "fault" \in Outcome
  BY FlatFacts
     DEF MethodsInv, ExecutionInv, TypeOK, ActivationTypes, HistoryEntry, Outcome
<1>3. CASE ~flat
  <2>1. ~flat'
    BY <1>1, <1>3 DEF flat
  <2>2. QED
    BY <2>1 DEF FlatInv, OneResultEach
<1>4. CASE flat
  <2>1. Flat
    BY <1>4 DEF MethodsInv, FlatInv, Flat
  <2>2. Increasing'
    BY <1>1, <2>1 DEF Flat, Increasing
  <2>3. CASE level = 0
    <3>1. respond("fault")
      BY <1>1, <2>3 DEF record
    <3>2. QED
      BY <1>1, <1>2, <2>2, <3>1, RespondOutcome DEF MethodsInv
  <2>4. ASSUME level = 1, NEW c \in Nat \ {0}, c = at[1]
        PROVE  FlatInv' /\ OneResultEach'
    <3>1. /\ pc' = "find" /\ level' = 1 /\ response' = response
          /\ at'[1] = c + 1 /\ result'[1] = Append(result[1], "fault")
      BY <1>1, <1>2, <2>4, RecordTypes
    <3>2. c <= Len(entries)
      BY <1>1, <1>2, <2>4 DEF exhausted
    <3>3. \A i : Returned(i)' <=> Returned(i)
      BY <1>1 DEF Returned
    <3>4. \A k \in DOMAIN executed : executed[k].position < c
      BY <1>1, <2>1, <2>4 DEF Flat, Behind
    <3>5. ~Returned(c)
      <4>1. ASSUME NEW k \in DOMAIN executed,
                   executed[k] = [position |-> c, outcome |-> "value"]
            PROVE  FALSE
        <5>1. executed[k].position = c
          BY <4>1
        <5>2. QED
          BY <3>4, <5>1
      <4>2. QED
        BY <4>1 DEF Returned
    <3>6. Results'
      <4>1. "fault" = "value" <=> Returned(c)'
        BY <3>3, <3>5
      <4>2. QED
        BY <1>1, <1>2, <2>1, <2>4, <3>1, <3>2, <3>3, <4>1, ResultsGrow DEF Flat, MethodsInv
    <3>7. Behind'
      BY <1>1, <1>2, <3>1, <3>4 DEF Behind
    <3>8. FlatInv'
      BY <2>2, <3>1, <3>6, <3>7 DEF FlatInv, Direct
    <3>9. OneResultEach'
      BY <3>1 DEF OneResultEach
    <3>10. QED
      BY <3>8, <3>9
  <2>5. QED
    BY <1>2, <2>1, <2>3, <2>4 DEF Flat
<1>5. QED
  BY <1>3, <1>4

(* A flat multicall has one activation: the calls in it name other methods.  *)
LEMMA FlatEnter ==
  ASSUME MethodsInv, executeMulticall PROVE FlatInv' /\ OneResultEach'
<1>1. /\ pc = "find" /\ ~exhausted /\ called = MULTICALL
      /\ UNCHANGED <<entries, response, executed>>
      /\ IF level < MaxLevel
           THEN at' = Append(at, 1) /\ result' = Append(result, << >>) /\ pc' = pc
           ELSE pc' = "overflow" /\ UNCHANGED <<at, result>>
  BY DEF executeMulticall, named, atCall
<1>2. /\ level \in Nat /\ level = Len(at) /\ Len(entries) \in Nat
      /\ level = 1 => at[1] \in Nat \ {0}
      /\ at \in Seq(Nat \ {0}) /\ result \in Seq(Seq(Outcome)) /\ Len(result) = Len(at)
      /\ DOMAIN entries = 1 .. Len(entries)
  BY FlatFacts, LenProperties DEF MethodsInv, ExecutionInv, TypeOK
<1>3. OneResultEach'
  BY <1>1 DEF OneResultEach
<1>4. CASE ~flat
  BY <1>1, <1>3, <1>4 DEF FlatInv, flat
<1>5. CASE flat
  <2>1. Flat
    BY <1>5 DEF MethodsInv, FlatInv, Flat
  <2>2. level = 0
    <3>1. SUFFICES ASSUME level = 1 PROVE FALSE
      BY <1>2, <2>1 DEF Flat
    <3>2. at[1] \in DOMAIN entries /\ entries[at[1]] = MULTICALL
      BY <1>1, <1>2, <3>1 DEF exhausted, called
    <3>3. QED
      BY <1>5, <3>2 DEF flat
  <2>3. at' = Append(at, 1) /\ result' = Append(result, << >>) /\ pc' = "find"
    BY <1>1, <2>2, MethodsAssumption
  <2>4. at'[1] = 1 /\ level' = 1 /\ result'[1] = << >>
    <3>1. << >> \in Seq(Outcome) /\ 1 \in Nat \ {0}
      BY EmptySeq
    <3>2. /\ Len(Append(at, 1)) = Len(at) + 1 /\ Append(at, 1)[Len(at) + 1] = 1
          /\ Append(result, << >>)[Len(result) + 1] = << >>
      BY <1>2, <3>1, AppendProperties
    <3>3. QED
      BY <1>2, <2>2, <2>3, <3>2 DEF level
  <2>5. executed = << >> /\ DOMAIN executed = {} /\ executed' = executed
    BY <1>1, <2>1, <2>2 DEF Flat, Direct
  <2>6. Increasing' /\ Behind'
    BY <2>5 DEF Increasing, Behind
  <2>7. Results'
    <3>1. Len(<< >>) = 0 /\ 1 <= Len(entries) + 1 /\ 1 .. 1 - 1 = {}
      BY <1>2
    <3>2. QED
      BY <1>1, <2>4, <3>1 DEF Results
  <2>8. QED
    BY <1>3, <2>3, <2>4, <2>6, <2>7 DEF FlatInv, Direct
<1>6. QED
  BY <1>4, <1>5

(* The array is answered when it has a result for each call.                 *)
LEMMA FlatReturn ==
  ASSUME MethodsInv, InvalidArgument \/ ThrowMistyped \/ ReturnArray
  PROVE  FlatInv' /\ OneResultEach'
<1>1. /\ pc = "find" /\ UNCHANGED <<entries, executed>>
      /\ level \in Nat /\ level = Len(at) /\ Len(entries) \in Nat
      /\ level = 1 => at[1] \in Nat \ {0} /\ result[1] \in Seq(Outcome)
      /\ executed \in Seq(HistoryEntry) /\ ExecutionInv
  BY FlatFacts
     DEF MethodsInv, ExecutionInv, TypeOK, HistoryEntry,
         InvalidArgument, ThrowMistyped, ReturnArray, named, atCall
<1>2. CASE ~flat
  <2>1. ~flat'
    BY <1>1, <1>2 DEF flat
  <2>2. QED
    BY <2>1 DEF FlatInv, OneResultEach
<1>3. CASE flat
  <2>1. Flat
    BY <1>3 DEF MethodsInv, FlatInv, Flat
  <2>2. Increasing'
    BY <1>1, <2>1 DEF Flat, Increasing
  <2>3. CASE InvalidArgument \/ ThrowMistyped
    <3>1. respond("fault")
      <4>1. CASE InvalidArgument
        BY <4>1 DEF InvalidArgument
      <4>2. CASE ThrowMistyped
        <5>1. level # 0
          BY <4>2, <1>1, MethodsAssumption
             DEF ThrowMistyped, called, Name, ExecutionInv, TypeOK
        <5>2. level = 1
          BY <1>1, <2>1, <5>1 DEF Flat
        <5>3. QED
          BY <4>2, <5>2 DEF ThrowMistyped
      <4>3. QED
        BY <2>3, <4>1, <4>2
    <3>2. "fault" \in Outcome
      BY DEF Outcome
    <3>3. QED
      BY <1>1, <2>2, <3>1, <3>2, RespondOutcome
  <2>4. CASE ReturnArray
    <3>1. level = 1 /\ at[1] > Len(entries) /\ respond(result[1])
      <4>1. level > 0 /\ at[level] > Len(entries)
        BY <2>4 DEF ReturnArray, exhausted
      <4>2. level = 1
        BY <1>1, <2>1, <4>1 DEF Flat
      <4>3. QED
        BY <2>4, <4>1, <4>2 DEF ReturnArray
    <3>2. at' = << >> /\ pc' = "idle" /\ response' = result[1] /\ level' = 0
      BY <3>1, EmptySeq DEF respond, level
    <3>3. Results
      BY <2>1, <3>1 DEF Flat
    <3>4. at[1] = Len(entries) + 1
      BY <1>1, <3>1, <3>3 DEF Results
    <3>5. Len(result[1]) = Len(entries) /\ 1 .. at[1] - 1 = 1 .. Len(entries)
      BY <1>1, <3>1, <3>3, <3>4 DEF Results
    <3>6. DOMAIN result[1] = 1 .. Len(entries)
      BY <1>1, <3>1, <3>5, LenProperties
    <3>7. OneResultEach'
      BY <1>1, <3>2, <3>3, <3>5, <3>6 DEF OneResultEach, Results, Returned
    <3>8. FlatInv'
      BY <2>2, <3>2 DEF FlatInv, Direct
    <3>9. QED
      BY <3>7, <3>8
  <2>5. QED
    BY <2>3, <2>4
<1>4. QED
  BY <1>2, <1>3

LEMMA FlatReceive ==
  ASSUME MethodsInv, NEW n \in Name, NEW es \in Calls, Receive(n, es)
  PROVE  FlatInv' /\ OneResultEach'
<1>1. pc = "idle" /\ pc' = "find" /\ executed' = << >> /\ at' = at
  BY DEF Receive
<1>2. level = 0 /\ level' = 0
  BY <1>1 DEF MethodsInv, ExecutionInv, level
<1>3. QED
  BY <1>1, <1>2 DEF FlatInv, OneResultEach, Increasing, Direct

LEMMA MethodsInit == Init => MethodsInv
<1> SUFFICES ASSUME Init PROVE MethodsInv
  OBVIOUS
<1>1. executed = << >> /\ at = << >> /\ response = "fault"
  BY DEF Init
<1>2. level = 0
  BY <1>1, EmptySeq DEF level
<1>3. QED
  BY <1>1, <1>2, ExecutionInit
     DEF MethodsInv, FlatInv, OneResultEach, Increasing, Direct, Outcome

LEMMA MethodsStep == MethodsInv /\ [Next]_vars => MethodsInv'
<1> SUFFICES ASSUME MethodsInv, [Next]_vars PROVE FlatInv' /\ OneResultEach'
  BY ExecutionStep DEF MethodsInv
<1>1. CASE UNCHANGED execution
  BY <1>1
     DEF MethodsInv, FlatInv, OneResultEach, execution, flat, level, Increasing, Direct,
         Results, Behind, Current, Returned
<1>2. CASE executeRequest
  BY <1>2, FlatStart, FlatFinish, FlatFail, FlatEnter, FlatReturn DEF executeRequest
<1>3. CASE Client
  BY <1>3, FlatReceive DEF Client
<1>4. QED
  BY <1>1, <1>2, <1>3, ProgramTypes DEF Next, vars, MethodsInv

(* In every state the variables have their types, the calls of a flat        *)
(* multicall are executed in order and once at most, and the array that is   *)
(* answered has the outcome of each call in its place, whatever methods are  *)
(* added, removed and destroyed meanwhile, also by the methods called.       *)
THEOREM MulticallsStaySound == Spec => []MulticallSound
<1>1. MethodsInv => MulticallSound
  BY DEF MethodsInv, ExecutionInv, FlatInv, MulticallSound, EachCallOnce, Increasing
<1>2. QED
  BY MethodsInit, MethodsStep, <1>1, PTL DEF Spec

=============================================================================
