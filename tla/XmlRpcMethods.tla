---------------------------- MODULE XmlRpcMethods ----------------------------
(***************************************************************************)
(* The methods of an XML-RPC server and the execution of requests: the map *)
(* from names to method objects, which the objects' constructors and       *)
(* destructors and the two introspection methods change, and               *)
(* executeRequest with system.multicall. Everything runs in one thread;    *)
(* the program's own code runs between requests and inside the methods it  *)
(* wrote, and may change the map from there, also in the middle of a       *)
(* multicall.                                                              *)
(***************************************************************************)
EXTENDS Naturals, Sequences

CONSTANTS
  UserMethod,                              \* method objects of the program
  ListMethods, MethodHelp, NoMethod,       \* the server's two objects; null
  UserName,                                \* names its methods may have
  LIST_METHODS, METHOD_HELP, MULTICALL,    \* the system's names
  Nameless,     \* a call without methodName or params
  Mistyped,     \* a call whose methodName is not a string
  Entry,        \* what a multicall may hold
  MaxEntries,   \* bound on the calls in one multicall
  MaxLevel      \* activations of executeMulticall the stack has room for

Method == UserMethod \cup {ListMethods, MethodHelp}
Name == UserName \cup {LIST_METHODS, METHOD_HELP, MULTICALL}

ASSUME MethodsAssumption ==
  /\ NoMethod \notin Method
  /\ ListMethods # MethodHelp
  /\ {ListMethods, MethodHelp} \cap UserMethod = {}
  /\ LIST_METHODS # METHOD_HELP
  /\ MULTICALL \notin {LIST_METHODS, METHOD_HELP}
  /\ Name \cap {Nameless, Mistyped} = {}
  /\ Entry \subseteq Name \cup {Nameless, Mistyped}
  /\ MaxEntries \in Nat /\ MaxLevel \in Nat \ {0}

VARIABLES
  alive,            \* the method objects that exist
  name,             \* _name of each
  _server,          \* whether its _server points to the server
  methods,          \* _methods
  introspection,    \* _introspectionEnabled
  created,          \* _listMethods and _methodHelp are not null
  request,          \* the method named in the request being executed
  entries,          \* its argument, the calls of a multicall
  pc,               \* "idle", "find", "running", "overflow"
  running,          \* the method being executed
  at, result,       \* i and result of each activation of executeMulticall
  response,         \* the last response: a value, a fault or an array of these
  executed          \* history: position and outcome of each method executed

registry == <<alive, name, _server, methods, introspection, created>>
execution == <<request, entries, pc, running, at, result, response, executed>>
vars == <<registry, execution>>

Calls == UNION {[1..n -> Entry] : n \in 0..MaxEntries}
Outcome == {"value", "fault"}
level == Len(at)

(* The name the next findMethod looks up: the request's, or that of the     *)
(* call the innermost multicall has come to.                                *)
called == IF level = 0 THEN request ELSE entries[at[level]]

(* A direct call has position 0.                                            *)
position == IF level = 0 THEN 0 ELSE at[level]

exhausted == level > 0 /\ at[level] > Len(entries)

TypeOK ==
  /\ alive \subseteq Method
  /\ name \in [Method -> Name]
  /\ _server \in [Method -> BOOLEAN]
  /\ methods \in [Name -> Method \cup {NoMethod}]
  /\ introspection \in BOOLEAN
  /\ created \in BOOLEAN
  /\ request \in Name
  /\ entries \in Seq(Entry)
  /\ pc \in {"idle", "find", "running", "overflow"}
  /\ running \in Method \cup {NoMethod}
  /\ at \in Seq(Nat \ {0})
  /\ result \in Seq(Seq(Outcome))
  /\ Len(result) = Len(at)
  /\ response \in Outcome \cup Seq(Outcome)
  /\ executed \in Seq([position : Nat, outcome : Outcome \cup {"none"}])

Init ==
  /\ alive = {}
  /\ name = [m \in Method |-> IF m = MethodHelp THEN METHOD_HELP ELSE LIST_METHODS]
  /\ _server = [m \in Method |-> m \in {ListMethods, MethodHelp}]
  /\ methods = [n \in Name |-> NoMethod]
  /\ introspection = FALSE
  /\ created = FALSE
  /\ request = LIST_METHODS
  /\ entries = << >>
  /\ pc = "idle"
  /\ running = NoMethod
  /\ at = << >>
  /\ result = << >>
  /\ response = "fault"
  /\ executed = << >>

-----------------------------------------------------------------------------
(* The map. The program's code runs when no request is executed, or as the  *)
(* body of one of its own methods.                                          *)

inUserCode ==
  \/ pc = "idle"
  \/ pc = "running" /\ running \in UserMethod

added(m, n) == [methods EXCEPT ![n] = m]
erased(n) == [methods EXCEPT ![n] = NoMethod]

XmlRpcServerMethod(m, n, s) ==
  /\ inUserCode
  /\ m \notin alive
  /\ alive' = alive \cup {m}
  /\ name' = [name EXCEPT ![m] = n]
  /\ _server' = [_server EXCEPT ![m] = s]
  /\ methods' = IF s THEN added(m, n) ELSE methods
  /\ UNCHANGED <<introspection, created, execution>>

addMethod(m) ==
  /\ inUserCode
  /\ m \in alive
  /\ methods' = added(m, name[m])
  /\ UNCHANGED <<alive, name, _server, introspection, created, execution>>

(* removeMethod by name, and by method: the code looks for the name only.   *)
removeMethod(n) ==
  /\ inUserCode
  /\ methods' = erased(n)
  /\ UNCHANGED <<alive, name, _server, introspection, created, execution>>

(* Mistake: the destructor does not know the server.                        *)
DestroyMethod_StaysRegistered(m) ==
  /\ inUserCode
  /\ m \in alive
  /\ alive' = alive \ {m}
  /\ UNCHANGED <<methods, name, _server, introspection, created, execution>>

(* A program that added a method built without a server has to remove it    *)
(* before it destroys it.                                                   *)
DestroyMethod(m) ==
  /\ inUserCode
  /\ m \in alive
  /\ ~_server[m] => methods[name[m]] # m
  /\ alive' = alive \ {m}
  /\ methods' = IF _server[m] THEN erased(name[m]) ELSE methods
  /\ UNCHANGED <<name, _server, introspection, created, execution>>

enableIntrospection(enabled) ==
  /\ inUserCode
  /\ introspection # enabled
  /\ introspection' = enabled
  /\ IF enabled
       THEN /\ alive' = alive \cup {ListMethods, MethodHelp}
            /\ created' = TRUE
            /\ methods' = [methods EXCEPT ![LIST_METHODS] = ListMethods,
                                          ![METHOD_HELP] = MethodHelp]
       ELSE /\ methods' = [methods EXCEPT ![LIST_METHODS] = NoMethod,
                                          ![METHOD_HELP] = NoMethod]
            /\ UNCHANGED <<alive, created>>
  /\ UNCHANGED <<name, _server, execution>>

Program ==
  \/ \E m \in UserMethod, n \in UserName, s \in BOOLEAN : XmlRpcServerMethod(m, n, s)
  \/ \E m \in UserMethod : addMethod(m) \/ DestroyMethod(m)
  \/ \E n \in Name : removeMethod(n)
  \/ \E b \in BOOLEAN : enableIntrospection(b)

-----------------------------------------------------------------------------
(* The execution of a request. parseRequest has put the argument into       *)
(* params; only a multicall's is looked at.                                 *)

Receive(n, es) ==
  /\ pc = "idle"
  /\ es # << >> => n = MULTICALL
  /\ request' = n
  /\ entries' = es
  /\ pc' = "find"
  /\ executed' = << >>
  /\ UNCHANGED <<registry, running, at, result, response>>

respond(r) ==
  /\ response' = r
  /\ pc' = "idle"
  /\ at' = << >>
  /\ result' = << >>

(* Mistake: a failed call leaves the loop where it is.                      *)
record_Stays(o) ==
  IF level = 0
    THEN respond(o)
    ELSE /\ result' = [result EXCEPT ![level] = Append(@, o)]
         /\ at' = [at EXCEPT ![level] = IF o = "fault" THEN @ ELSE @ + 1]
         /\ pc' = "find"
         /\ UNCHANGED response

(* What one call came to goes to the response, or to its place in the       *)
(* innermost result, and the loop goes on to the next call.                 *)
record(o) ==
  IF level = 0
    THEN respond(o)
    ELSE /\ result' = [result EXCEPT ![level] = Append(@, o)]
         /\ at' = [at EXCEPT ![level] = @ + 1]
         /\ pc' = "find"
         /\ UNCHANGED response

atCall == pc = "find" /\ ~exhausted
named == atCall /\ called \in Name

StartMethod ==
  /\ named
  /\ methods[called] # NoMethod
  /\ running' = methods[called]
  /\ pc' = "running"
  /\ executed' = Append(executed, [position |-> position, outcome |-> "none"])
  /\ UNCHANGED <<registry, request, entries, at, result, response>>

(* execute returns, or throws an XmlRpcException.                           *)
FinishMethod(o) ==
  /\ pc = "running"
  /\ running = ListMethods => o = "value"
  /\ running' = NoMethod
  /\ executed' = [executed EXCEPT ![Len(executed)].outcome = o]
  /\ record(o)
  /\ UNCHANGED <<registry, request, entries>>

UnknownMethod ==
  /\ named
  /\ methods[called] = NoMethod
  /\ called # MULTICALL
  /\ record("fault")
  /\ UNCHANGED <<registry, request, entries, running, executed>>

(* The activation works on params, the argument of the request, and not on  *)
(* methodParams, that of the call that led to it.                           *)
executeMulticall ==
  /\ named
  /\ methods[called] = NoMethod
  /\ called = MULTICALL
  /\ IF level < MaxLevel
       THEN /\ at' = Append(at, 1)
            /\ result' = Append(result, << >>)
            /\ UNCHANGED pc
       ELSE pc' = "overflow" /\ UNCHANGED <<at, result>>
  /\ UNCHANGED <<registry, request, entries, running, response, executed>>

(* The argument of a multicall is not one array.                            *)
InvalidArgument ==
  /\ level = 0 /\ named
  /\ methods[called] = NoMethod
  /\ called = MULTICALL
  /\ respond("fault")
  /\ UNCHANGED <<registry, request, entries, running, executed>>

(* Mistake: no way past a call that is left out.                           *)
SkipNameless_Again ==
  /\ atCall /\ called = Nameless
  /\ UNCHANGED vars

SkipNameless ==
  /\ atCall /\ called = Nameless
  /\ record("fault")
  /\ UNCHANGED <<registry, request, entries, running, executed>>

(* The conversion of methodName throws before the try: the exception leaves *)
(* the activation and counts as the outcome of the call that led to it.     *)
ThrowMistyped ==
  /\ atCall /\ called = Mistyped
  /\ IF level = 1
       THEN respond("fault")
       ELSE LET outer == level - 1 IN
            /\ result' = [i \in 1..outer |-> IF i = outer THEN Append(result[i], "fault")
                                                         ELSE result[i]]
            /\ at' = [i \in 1..outer |-> IF i = outer THEN at[i] + 1 ELSE at[i]]
            /\ UNCHANGED <<pc, response>>
  /\ UNCHANGED <<registry, request, entries, running, executed>>

(* The loop is over: the array is the value of the call that led to it.     *)
ReturnArray ==
  /\ pc = "find" /\ exhausted
  /\ IF level = 1
       THEN respond(result[1])
       ELSE LET outer == level - 1 IN
            /\ result' = [i \in 1..outer |-> IF i = outer THEN Append(result[i], "value")
                                                         ELSE result[i]]
            /\ at' = [i \in 1..outer |-> IF i = outer THEN at[i] + 1 ELSE at[i]]
            /\ UNCHANGED <<pc, response>>
  /\ UNCHANGED <<registry, request, entries, running, executed>>

executeRequest ==
  \/ StartMethod
  \/ \E o \in Outcome : FinishMethod(o)
  \/ UnknownMethod \/ executeMulticall \/ InvalidArgument
  \/ SkipNameless \/ ThrowMistyped \/ ReturnArray

Client == \E n \in Name, es \in Calls : Receive(n, es)

Next == Program \/ Client \/ executeRequest

(* A request that is being executed goes on; a method returns.              *)
Fairness == WF_vars(executeRequest)

Spec == Init /\ [][Next]_vars
FairSpec == Spec /\ Fairness

-----------------------------------------------------------------------------
(* A method object that can be called exists and bears the name it is       *)
(* called by: no sequence of constructions, removals, replacements and      *)
(* destructions, by the program or by a method that runs, leaves _methods   *)
(* with the address of an object that is gone.                              *)
RegisteredAreAlive ==
  \A n \in Name : methods[n] # NoMethod => methods[n] \in alive /\ name[methods[n]] = n

(* Clients see the two introspection methods only while introspection is    *)
(* enabled, whatever was added and removed under their names.               *)
Hidden ==
  ~introspection => \A n \in Name : methods[n] \notin {ListMethods, MethodHelp}

(* The registry, between any two steps of the program, of its methods and of
   a request: live objects under their names, hidden introspection.         *)
RegistrySound == RegisteredAreAlive /\ Hidden

(* No call of the multicall is a multicall: one that is would work on the   *)
(* outer one's calls, and so come to itself again, until the stack is full. *)
flat == \A i \in DOMAIN entries : entries[i] # MULTICALL

(* The calls of a flat multicall are executed in their order and none of    *)
(* them twice.                                                              *)
EachCallOnce ==
  flat => \A i, j \in DOMAIN executed :
            i < j => executed[i].position < executed[j].position

(* The array a flat multicall answers has one result for each call, at the  *)
(* place of the call: a value if and only if its method was executed and    *)
(* returned. Calls that fail neither shift nor hide the others' results.    *)
OneResultEach ==
  pc = "idle" /\ response \notin Outcome /\ flat =>
    /\ Len(response) = Len(entries)
    /\ \A i \in DOMAIN response :
         response[i] = "value"
           <=> \E k \in DOMAIN executed : executed[k] = [position |-> i, outcome |-> "value"]

(* Every state has its types; every call of a flat multicall is executed once
   at most, and its outcome is found at its place.                          *)
MulticallSound == TypeOK /\ EachCallOnce /\ OneResultEach

(* Every request is answered, unless it is a multicall of a multicall.      *)
Answered == pc = "find" /\ flat ~> pc = "idle"

=============================================================================
