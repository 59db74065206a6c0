--------------------------- MODULE MCPipeServers ---------------------------
(* Instances of EchoServer and NamedPipeServer for TLC. The two are built    *)
(* around the same loop and do not meet: a program has one of them.          *)
EXTENDS EchoServer

CONSTANTS Listener, Lost
VARIABLES
  program,                                       \* "Sample" or "class"
  user, classClient, classListener, classPipe, classPc, classOwn   \* of NamedPipeServer

N == INSTANCE NamedPipeServer WITH
       client <- classClient, listener <- classListener, hPipe <- classPipe, pc <- classPc, own <- classOwn

class == <<user, classClient, classListener, classPipe, classPc, classOwn>>

oneHandle == CHOOSE h \in Handle : TRUE

PipeInit ==
  /\ program \in {"Sample", "class"}
  /\ Init
  /\ classPipe = oneHandle /\ classOwn = [t \in Thread |-> oneHandle]
  /\ N!Init

sample == program = "Sample" /\ UNCHANGED <<program, class>>
ofClass == program = "class" /\ UNCHANGED <<program, vars>>

PipeNext ==
  \/ /\ \/ Clients
        \/ Listen
        \/ \E t \in Thread : InstanceThread(t)
     /\ sample
  \/ /\ \/ N!Clients
        \/ N!Listen
        \/ \E t \in Thread : N!InstanceThread(t)
     /\ ofClass

PipeSpec ==
  /\ PipeInit /\ [][PipeNext]_<<program, vars, class>>
  /\ \A t \in Thread : WF_<<program, vars, class>>(InstanceThread(t) /\ sample)
  /\ WF_<<program, vars, class>>(N!ListenGoesOn /\ ofClass)
  /\ \A t \in Thread : WF_<<program, vars, class>>(N!ThreadGoesOn(t) /\ ofClass)

(* The sample answers a request that its thread comes to read, or ends the
   connection; the class lets go of every client that it has a thread for.  *)
PipesServed == Answered /\ N!ClientsLetGo
============================================================================
