# Verification of multi-desktop-manager

TLA+ modules of the programs and libraries of this repository, the TLC
configurations that check them, and proofs that TLAPS checks. The modules are
written from the sources, whose names they keep; `PROJECT.json` maps every
definition to the lines it stands for, lists the runs with their properties,
for each property a mistake in the code that breaks it (for a conjunction of
several, one for each that could break alone), the hazards the
properties are aimed at, the findings and the theorems.

1. [The system](#1-the-system)
2. [Modules and code](#2-modules-and-code)
3. [Runs](#3-runs)
4. [Fairness](#4-fairness)
5. [Proofs](#5-proofs)
6. [Findings](#6-findings)
7. [What is not modelled](#7-what-is-not-modelled)
8. [Plan](#8-plan)

## 1. The system

The repository collects what a manager of several desktops under Windows was to
be built from. Three parts run on their own (the window monitor, the echo
server, the samples that create and switch desktops), two are libraries with a
protocol (named pipes, XML-RPC), and `misc/Library` holds algorithms and XML.

| Component | State | Operations | Interacts through | What is hard |
|---|---|---|---|---|
| Window monitor (`misc/WindowsMonitor/WindowMonitor.cpp`) | per desktop the windows of this and of the last pass, new titles, one critical section | timer pass over all desktops, callbacks per window, one popup thread per report | windows of other programs, threads, critical section | windows change between the steps of a pass; an early return inside the section |
| Its start-up (`main.cpp`, `CommonWindows.h`, `Initialize`) | a named mutex, handles, which parts are initialised | one instance only, five steps that may fail, clean-up, start of the thread | mutex shared by processes | crash and restart, partial initialisation |
| Its black lists (`Initialize`, 50-101) | two fixed arrays and their lengths | two loops over the lines of a file | a file | last row, count against rows |
| XML trees (`XMLParser.cpp`) and log (`XMLLog.cpp`) | nodes with a reference count and a magic number, a root | insert, clone, remove, load, save | pointers held by callers | manual memory, counts that must agree with the tree |
| Echo server (`Sample/Server`) | a pipe instance per client, a thread each | create, connect, hand over, read, answer, flush, disconnect, close | pipes, handle values used again, heap | failures of every call, unread replies, clients that leave |
| NamedPipeServer (`misc/NamedPipeServer`) | the same, with a wrapper object per thread | the same; reading and writing are stubs | handle values | a handle that is closed twice |
| XML-RPC dispatcher (`XmlRpcDispatch`) | list of sources with masks, end time, clear and exit requests | `work`, `addSource`, `removeSource`, `exit`, `clear` | callbacks into sources that may delete themselves | the list changes while it is walked; time |
| XML-RPC server (`XmlRpcServer`, `XmlRpcServerConnection`) | listening socket, connections with their request and response | accept, read header, read request, run, write, close | sockets, dispatcher | partial reads and writes, numbers used again, shutdown in a method |
| XML-RPC methods (`XmlRpcServer`, `XmlRpcServerMethod`, `executeMulticall`) | map from names to objects | add, remove, introspection, request, multicall, faults | methods that change the map while they run | replaced and destroyed objects, exceptions |
| XML-RPC client (`XmlRpcClient`) | connection state, one request and its retry | `execute`, connect, write, read, close | socket, its own dispatcher | lost or late answers, a retry of what was already done |
| XML-RPC values (`XmlRpcValue`, `XmlRpcUtil`) | a typed value | to and from XML, comparison, parameters | text | nesting, entities, blanks, offsets, unknown types |
| Sockets (`XmlRpcSocket`) | bytes on their way, what was written and read so far | connect, non-blocking read and write, close | the system, the peer | calls that handle a part, block, are interrupted |
| base64 (`xmlrpc/base64.h`) | none | put, get | binary values | the last group, broken lines, texts that break off |
| XML documents (`misc/Library/libxml*.cpp`, a copy of TinyXML) | linked nodes and attributes, a document with its error | link, insert, replace, remove, clone, print, parse, read from a stream | pointers held by callers | four pointers per step, failures passed up, ends of the input |
| Processes (`misc/Process`) | handles, the caller's array | list processes, modules, threads; open one | snapshots of the system | failures between open and close, arrays too small |
| Algorithms (`misc/Library/Algorythms.h`) | arrays, graphs, `SETS` | four sorts, Kruskal, query order | arrays shared by copies | indices from 1, sentinels, nodes that do not exist |

Who calls whom: `wWinMain` runs `Initialize`, which reads the black lists and
starts the monitor thread; a pass of the monitor reports to `Transport2Server`,
which starts popup threads. `XmlRpcServer::work` and `XmlRpcClient::execute`
each run a dispatcher, which calls the handlers; a connection whose request is
complete parses it (values), looks up the method (methods) and writes the
response. Server and client meet only over sockets. The log of the monitor
writes a `CXMLParser` tree to a file; nothing adds to it in this commit. No other two
components share state.

What makes each correct, in a sentence:

* Monitor: every window that stays on screen is reported once, those that are
  gone are forgotten, and no popup holds up the others for ever.
* Start-up: one instance, which starts its thread only when all is there.
* Black lists: the arrays hold what the file says, within their rows.
* Echo server: every client has a pipe and a thread of its own, and nothing it
  asks (but behind an empty message) or is told is lost.
* Dispatcher: it calls handlers of sources that exist, for events of their own,
  and stops when it should.
* Server: each request is run once and answered whole.
* Methods: a name leads to an object that exists; every call of a multicall has
  its own result.
* Client: an answer belongs to its call; a method is run twice at most.
* Sockets: the bytes arrive in order, and all of them or an error at the end
  that still has something to read or to write.
* Values and binary data: what is written is read back.
* Trees: no node is in two places or gone while pointed to.
* Files and log: what is saved is read back, what is damaged is refused.
* XML documents: the linked lists are the trees they stand for; what is printed
  is parsed, what is broken off is reported, and the parser ends.
* Processes: the array holds what the snapshot does, and no handle stays open.
* Algorithms: results are sorted, minimal, and made of the input.

## 2. Modules and code

A module name without extension is a specification; `MC...` modules give its
constants values for TLC, or put together what one run checks; `..._proofs`
modules hold theorems. An action has the name of the function or system call it
stands for, and stands for all of it.
Operators named `X_Something` are plausible mistakes in `X`; no specification
uses them, they show what the properties would catch.

**WindowMonitor.** `place`, `caption`, `visible` and `banned` are the windows as
the users see them, `input` the desktop they look at. `phase`, `at`, `todo` are
where a pass stands, `previous` and `current` the two title maps of a desktop,
`attributes` the reports still to send, and `pc`, `message`, `desk`, `owner`
the popup threads and the critical section. Users act between any two steps.
`TimerCallback` / `EnumDesktopWindows` list the handles, one
`EnumDesktopWindowsCallback` per handle reads the window, `EnumNewWindows`
compares the maps, swapped as in the code, and `Transport2Server` starts a
thread per report. A critical section owned by a thread that has ended stays
owned. Titles are model values in up to three classes: silenced by the file,
by the comparison in the thread, by neither.

**Startup.** `pc[p]` of each process, the holders of the mutex, the handles and
what is initialised. `CreateUniqueInstance` is atomic with its `GetLastError`:
the system creates or opens the mutex in one step. `ProcessEnds` ends a process
anywhere and closes its handles; other processes are started meanwhile.

**BlackListConfig.** A file is a sequence of lines, of which `[End]` is one.
Each action is one turn of a loop. Rows beyond the end of an array are not
stored: `spilled` records that they were written.

**Initialize** composes the two: of the processes of Startup, the one past the
mutex runs the loops of BlackListConfig between the enumeration of the desktops
and the creation of the critical section. What a process has read is lost when it
ends, also after a failure and `Clean`, and the next one starts from blank
arrays.

**EchoServer**, **NamedPipeServer.** One action per system call of the listener
and of a thread, with an action for each failure the code tests. Clients
(external) connect, ask, send an empty message, receive and leave. They may ask
on behind an empty or too long message (`behind`): the thread's loop ends there,
and what follows is thrown away unread when the pipe is disconnected. A handle
value is free again the moment it is closed. In NamedPipeServer the wrapper's
destructor is an action after `CloseHandle`, as the code orders it. Each thread
so closes its handle twice, and the second close may hit a pipe that was given
the value in between; the calls of its rightful thread then act on whatever the
value stands for, and may hit the next one in turn. The model has this, and its
property does not exclude it. `ConnectNamedPipe` waits until a client has come.
What it does when the handle it waits on is closed or disconnected by another
thread is the system's affair: it may fail or wait for ever.
`FlushFileBuffers` never waits in this class, whose Write is a stub.
`MCPipeServers` puts both listeners in one run; a behaviour is one or the other.

**XmlRpcDispatch.** `work` by itself, with its clock: `endTime`, `wake` (when the
present select gives up), `doClear`, the sources still to be visited, and which
sockets are open. Handlers are choices: keep or drop the source, add one, call
exit or clear. Time may pass in handlers and in select. A wake-up on time and
no time between the end of a pass and the next select are idealisations.

**XmlRpcServer.** The same loop without the clock and with everything else: the
order of the list, the iterator, socket numbers that are used again, accept,
the connection's three states, partial reads and writes, and clients that send
in pieces, shut down or reset. A connection object is a record; its
destruction sets it back. `exit` and `shutdown` are effects a method may have.

**XmlRpcMethods.** The registry (`methods`, `alive`, `name`, `_server`,
`introspection`) and a request in execution, with a position in the multicall.
The program changes the registry between requests and inside its own methods.
A call entry without a `methodName`, or with one that is not a string, is an
entry of its own kind; a multicall may be an entry too, and then works on the
outer one's calls, as the code does, until `MaxLevel` activations fill the
stack. XmlRpcServer runs a method in one step; this module opens that step.

**XmlRpcClient.** `execute` with its states, the attempts, the dispatcher's mask
and the link with pieces in flight; the server is external and may answer,
close, reset, or run a request it never answers. Two pieces per request and
response are enough for every partial write and read the code distinguishes.
`handleEvent` writes and then reads in one call where the code falls through.
`RefusalWakes` says whether a refused connection wakes a select for writing
(Unix) or only one for exceptions (Windows).

**XmlRpcValue.** XML as a sequence of pieces, functions with the names of the
code's, and three calls: write and read a value, write and read parameters,
compare two values. Uses RECURSIVE operators and has no theorems. A reader's
result is a record of whether it could read, what, and where it stopped; the
operators are small because each stands for one step of a reader.

**XmlRpcSocket.** The two ends of a connection and the bytes between them, at
most `Room`. Each turn of the loops of `nbWrite` and `nbRead` is an action, and
the ends take their turns between each other's; a call that would block is left
and comes again. `MCXmlRpcClient` puts XmlRpcClient, XmlRpcDispatch and
XmlRpcSocket, the layers of a client, in one run; a behaviour is one of them.

**Base64.** `put` and `get` on sequences of bytes and characters, the groups of
three and four with the masks of the code; a character is its number, the equal
sign, or none of them.

**Sorting.** The sorts and `Average_Minimum_Query_Time` as functions on arrays
from 0, one call per behaviour, written as recursive functions over the turns of
each loop (`insertion`, `bubble`, `mergeNext`, `sink`, ...); the reference
definitions are "in order", "same elements" and the least `cost`.

**Kruskal**, **Partition.** `AddEdge`, the selection sort step by step, and the
loop that takes or drops edges. `Partition` is the abstract specification of
`SETS`: an equivalence relation that grows by one pair and what follows from
it. Kruskal implements it under `same <- {pairs with the same number}`.
`MinimumWeight` compares the tree with every choice of edges that connects as
much; `EdgesKept` says that the edges, which the sort moves in the caller's
array, are only rearranged. `Library` puts Kruskal, Process and Sorting
together, and `MCLibrary` these and all else that is called as a library in one
run (XmlRpcValue and Base64, the parser and the characters of TinyXML, XmlFile,
XMLLog); a behaviour uses one of them. The graph a call returns reports no nodes (its
`CountOfNode` stays 0); callers only read its edges, and that is all that is
modelled of it.

**XmlTree.** Nodes are storage: live (the magic number is right), free, or
leaked (destroyed, but the reference count was not 1 and the storage not
returned). `children` are sets, since removals permute them. The code trusts
its callers not to insert a node below itself or one that has a parent but a
count of 0; the guards of `InsChild` and `InitRoot` state that discipline. That
a destroyed node in freed storage does not look alive is what the code relies
on in `DelChildren`, which allocates nothing in between; the model relies on it
too (a compiler that drops the destructor's last assignment would break it).

**XmlFile.** `Output` and `Parser` of CXMLNode on trees as values and texts as
sequences of tokens, and `SaveFile` and `LoadFile` with the mark of the encoding
a file begins with. Between a save and a load another program may cut the file
or put a comment in it. `Parser` finds the end of an element as the code does, by
counting, and gives up with no tree. **XMLLog** adds entries to `m_Logs`, which is
bounded, and to the tree, which is not, and saves through XmlFile; its counter
starts anywhere.

**TinyXmlNodes**, **NodeTree.** The pointers `parent`, `firstChild`, `lastChild`,
`prev`, `next` of TinyXML's nodes. An action is one call with all its
assignments: `LinkEndChild`, the insertions, which clone what they are given,
`ReplaceChild`, `RemoveChild`, `Clear`, `Clone`, and `Delete`. NodeTree is the
abstract specification, in which a node has a sequence of children;
`ImplementsNodeTree` in MCXml maps the lists to it: `kids` is what one meets
from `firstChild` on along `next` (`Chain`, a recursive function that follows a
pointer no more often than there is storage). What is below a node is what every
set closed under children has that has the node, as in XmlTree. The functions
that only walk (`NextSibling`, `IterateChildren`, the elements, the handles) are
operators, and what they find is compared with the places in the sequence in
every state.

**TinyXmlAttributes.** The ring of attributes through its sentinel, with
`SetAttribute` and `RemoveAttribute`. `Next` takes an attribute with neither name
nor value for the end; `AttributesSound` says what a reader of the ring then
sees. `given` is a history of what the calls set and did not remove.

**TinyXmlPrinter**, **TinyXmlParser**, **TinyXmlText.** A document is the sequence
of its nodes with the place of each node's parent, a text a sequence of tokens.
`PrintDocument` has the three ways the code prints (to a file, and by the visitor
with and without line breaks). The parser is a state machine: `p` is the pointer
all functions pass on, `open` the elements whose functions are active, and an
action is one turn of a loop of one of them. `MCTinyXml` gives it documents that
were printed whole, lost a token, had one replaced, or break off, and the first
of two in a stream (`Taken` is `operator>>`). TinyXmlText works on bytes instead:
entities, references, the bytes of a character, spaces that are condensed.

`MCXml` puts XmlTree, TinyXmlNodes and TinyXmlAttributes in one run.

**Process.** One action per call of the system in the three walks and in
`GetProcessById`; the system's answers, failures included, are choices.
`taken` remembers the snapshot; `rank(k)` is how many of its first `k` entries
the caller asked for, which is the place of the `k`-th in the array.

## 3. Runs

All runs finish on two workers in less than three minutes. Where one property is
a conjunction of named invariants, the parts are given with it; the type
invariant of each module is such a part.

| Run | Bounds | Properties and what they show |
|---|---|---|
| WindowMonitor | 2 desktops, both monitored, 2 windows, 3 titles, one in each class, 2 popup threads; before the first popup windows with ordinary titles come and go, hidden and banned ones among them; with popups, windows with any title are opened and closed on the first desktop (`ScansOrPopups`) | `MapsSound` (types; `LeftoversAreKnown`: no stale handle passes for a new window), `ReportedOnce`, `SectionKept` (`HeldOrAbandoned`, `InsideOwns`: who may own the section), `SilencedNeverShown` |
| WindowMonitor_live | 1 desktop, 2 windows, 2 titles, a black list with all compared titles, 1 popup thread | `SectionIsReleased`, `RecordFollowsScreen` (`Noticed`, `Forgotten`) |
| WindowMonitor_shipped | the file as shipped | `SectionIsReleased` is violated |
| Initialize | 3 processes, 1 desktop, every file of at most 6 lines over 2 names and `[End]`, 2 rows | `OneWatches` (`UniqueInstance`, `ThreadFindsAll`), `ListsAsWritten` (types; `TitlesAsWritten`, `ListLenWithinRows`, `ProcessesAsWritten`) |
| PipeServers | 2 clients, 2 handles, 2 threads, 2 requests in a pipe | `PipesSound` (types; `OnePipeEach`), `NothingLost`, `NoReplyDiscarded` of the echo server; `PipesServed` (its `Answered`: what its thread comes to read is answered, and who asks behind an empty message is disconnected; and `ClientsLetGo` of NamedPipeServer: no client is left at its pipe for ever) |
| XmlRpcServer | 2 connections, 3 socket numbers, kept-alive requests | `SourcesSound` (types; `SourcesAreAlive`), `NoStaleEvent` |
| XmlRpcServer_live | 1 connection object, 2 socket numbers, every kind of header | `RequestsSound` (`RunOnce`, `WholeResponse`), `Answered` |
| XmlRpcClient | 3 calls on one connection, a refused connection is an exception only; the dispatcher with 2 sources, timeouts -1, 0 and 2, clock to 9; 5 bytes through room for 3, read by 2 | `CallsSound` (types; `AnswerIsOwn`, `AtMostTwice`), `SourcesKept` (types; `NoneForgotten`, `ReportedAreMonitored`), `EndsInTime` (`WaitsTwiceAtMost`, `ExitEndsWork`), `NotBeforeTime`, `CallsReturn` (`Returns` of both), `BytesInOrder`, `Delivered` |
| XmlRpcMethods | 2 method objects, 2 names of the program's, multicalls of 2 calls, 2 levels | `RegistrySound` (`RegisteredAreAlive`, `Hidden`), `MulticallSound` (types; `EachCallOnce`, `OneResultEach`), `Answered` |
| Xml | 4 nodes, 2 tags, 2 children of a loaded root; 4 nodes of TinyXML of three types and two values; 3 attributes, 2 names and the empty one, 1 value and the empty one | `TreesCount` (types; `NoDangling`, `RootStands`, `OneParent`, `RefCounts`), `RemovesExactly`; `NodesSound` (types; `TreesWhole`, `ListsMirror`, `TraversalsAgree`; `AttributesSound`), `ImplementsNodeTree` |
| TinyXml_shipped | documents of up to 2 nodes | `MissingEndTagReported` is violated |
| Library | 3 nodes, 3 edges, 3 weights of either sign, one node too many as an edge's end; arrays of up to 5 values from below to beyond the sentinel; 3 files; strings of up to 4 pieces, arrays and structs 3 deep; documents of up to 3 nodes, up to 2 where they are changed; texts of up to 3 pieces of a reference, blanks and other characters; up to 5 bytes, and as many as fill a line of base64, one more and one less; trees of up to 4 nodes in files of up to 21 tokens; 6 entries in a log of 2; snapshots of up to 3 entries in arrays of up to 2 | `SetsSound` (types; `SetsAreComponents`, `NamedByMember`), `MinimumForest` (`LightestFirst`, `Forest`, `MinimumWeight`), `EdgesKept`, `ImplementsPartition`; `SortsRight` (`Sorts`, `LosesOnlyToSentinel`, `QueriesSoonest`); `ValuesSound` (`ReadsBack`, `ParamsArrive`, `Compares`, `DataArrive`); `DocumentsSound` (`RoundTrip`, `ErrorsReported`, `TextArrives`, `ReferenceArrives`), `ParseEnds`; `FilesSound` (`SavedReadBack`, `LogSound`); `SnapshotsSound` |

Why the bounds are enough:

* Two of each (windows, clients, handles, threads, connections, method objects)
  let one act on what belongs to the other; with three processes one is past
  the mutex while two race for it.
* Two handles or three socket numbers are fewer than the clients over time, so
  numbers are used again.
* Arrays of two rows are filled and overrun by six lines in every way: with
  and without `[End]`, exactly, by one, by more.
* Three nodes and three edges make a cycle, a forest, and edges of equal weight.
* Five bytes do not fit between the ends at once and are not read in one or two
  turns; both loops are left and entered again.
* Two nodes of a document make an element with an attribute, a text or a section
  in it, three also one of these before or after an element; each token of such
  a text is dropped, replaced, and the last one.
* Three characters are enough for a reference to be begun, ended, and followed
  by something; two rows are fewer than the entries of a snapshot.
* Four tree nodes make a root, a node with a child below it, and storage for
  one more; a clone of a node with a child needs two free ones.
* A timeout of two units has an event strictly inside it; nine units hold the
  longest wait twice.
* Symmetry (windows, popup threads, processes, lines, connections, sockets, tree
  nodes, tags) is used in runs of safety properties only.

`CHECK_DEADLOCK FALSE` appears where a behaviour ends: one call per behaviour,
processes and clients that are used up, the listener that returned, storage
that has leaked away, a stack that is full.

What some properties leave out, because the code does not do it, is said at the
property: `WholeResponse` excepts the client that asked for the connection to be
closed, `Returns` of XmlRpcClient the retry that waits for writing alone,
`MulticallSound` and `Answered` multicalls of multicalls, `ReadsBack` and
`ParamsArrive` what XML does not keep (`kept`), `Compares` pairs that differ only
in the days of dates or the names of members, `Delivered` that a writer whose
last byte the system has taken hears of a loss, `ClientsLetGo` the clients of
pipes no thread could be created for, `ParseEnds` the texts at the end of the input that the
violation run is about, `RoundTrip` line breaks that become part of a text,
`TextArrives` texts with `&#x`, `SavedReadBack` blanks and what a second save
changes (`Plain`), and `LogSound` says that the file of a log is empty.

## 4. Fairness

* WindowMonitor: weak fairness of the monitor thread (the system delivers timer
  messages and schedules it) and of each popup thread. Users owe nothing.
* PipeServers: weak fairness of each thread of the echo server; of the listener
  of NamedPipeServer while its call has something to return with (a client has
  come), and of each of its threads while the pipe is its own. A call on a value
  that was closed under its thread may never return. Clients and the echo
  server's listener owe nothing.
* XmlRpcServer: the application calls `work` again, select does not fail for
  ever, clients read what is sent to them.
* XmlRpcDispatch: the loop goes on; time passes however busy it is (strong
  fairness of the clock, which stands still only while select is woken).
* XmlRpcSocket: select reports an end that can go on, and of the calls it leads
  to not all are interrupted (strong fairness of `send`, `recv` and the end).
  A lost connection is never assumed, nor is one that holds.
* TinyXML's parser runs on once it is called.
* XmlRpcMethods: a request in execution goes on, methods return.
* XmlRpcClient: events reach the client, the system accepts or refuses, the
  server answers or drops a connection.

No property assumes that a particular one of several possible events happens:
answers may lose to errors for ever.

## 5. Proofs

Proved for all values of the constants, under the assumptions named in the
modules. Most only say that a special value is not one of those it is special
to (`ServerAssumption`, `MethodsAssumption`, `TreeAssumption`,
`AttributesAssumption`: the sentinel is no attribute) or that a bound is
a number (`ClientAssumption`, `ConfigAssumption`); storage is finite where nodes
or attributes are counted, weights and elements of arrays are integers of either
sign and files have a length above 0 (`ArraysAssumption`). Every safety property the runs
check is proved but for those listed at the end. Where a run checks a conjunction, the parts
that were worth a theorem have one, and a last theorem puts them together.

* **WindowMonitor_proofs**: `Typing`; `SectionHeldOrAbandoned` and
  `SectionIsExclusive` from one lock invariant (an owner is inside, or has
  ended at the early return with a title compared there); from it
  `FullListNeverAbandons`, that a black list with the compared titles excludes
  the abandoned section; `SilencedTitlesStaySilent`; `LeftoversStayKnown`; and
  `NoSecondReport`. The last needs that whatever has been told is known to the
  maps in every phase of a pass, also while they are swapped, which is
  inductive only together with `LeftoversAreKnown`.
* **Initialize_proofs**: `OneWatchesPrepared` and `ListsReadAsWritten`. The
  arrays and the place in the file belong to the one process past the mutex, so
  the invariant (`StartInv`) has what the loops have read (`ReadInv`: the rows
  so far are the lines so far, up to one beyond the end) next to what each process has prepared by the place
  it stands at (`ProcessInv`), and the owner of the arrays: the process that runs,
  or one that failed and has not ended, which still holds the mutex (`OneOwner`). What the whole file means goes through the place
  of its first `[End]`, found as the least of a set of places.
* **EchoServer_proofs**: `Typing`; `PipesAreNotShared`; `NoRequestLost` from an
  account of each pipe (asked, in the pipe before or behind an empty message, in the thread's hands, answered);
  `RepliesAreKept`, because a thread that is about to disconnect has seen its
  pipe read empty or broken and no one else writes there in between
  (`FlushedFirst`).
* **XmlRpcServer_proofs**: `SourcesStaySound`, `EventsAreFresh` and
  `RequestsStaySound` from one invariant. `ListInv`: the list has each open
  source once, and the server's first. `PassInv`: what select reported still
  belongs to whom it reported it of when the server is visited. The two depend on
  each other: only the server's turn gives out numbers, and as it comes first no
  number it could give again was freed in the pass. `ConnInv` has what a
  connection knows of its request in each state; the iterator stays in the list
  although the source under it is erased.
* **XmlRpcClient_proofs**: of the dispatcher `Typing`; `TwiceAtMost`,
  `ExitIsObeyed` and `TimeIsWaitedFor` from what the end time stands for during a
  call (0 after exit, -1 without end, else start plus timeout) and the fact that
  a select is never started after it; `SourcesAgree`. Of the calls
  `CallsStaySound`: a connection carries at most one request or the answer to
  one, those of the present call (`LinkInv`); what is waited for is what the
  state says (`WaitInv`); and what the server has run, may still run for a
  connection given up, and is asked to run is one at most for each attempt
  (`RunsInv`). Of the sockets `BytesStayInOrder`: a byte is known by its place, and the places
  received, in between, and still to be written follow one another
  (`BytesInv`).
* **XmlRpcMethods_proofs**: `CallsReachLiveMethods` and `IntrospectionHides`. The
  invariant adds that a name bound to an object is that object's name and that
  the introspection objects are registered only while enabled; executing a
  request leaves the registry alone (`ExecutionKeepsRegistry`), so only the
  program's own actions have to be looked at. `MulticallsStaySound`: a multicall
  without multicalls in it has one activation, whose results are as many as the
  entries before its place and are what the history has of them (`FlatInv`);
  the stack is typed for any number of levels (`ExecutionInv`).
* **Xml_proofs**, of the trees of CXMLNode: `TreesStaySound` and
  `RemovalsAreExact`. Below a node is what every closed set with the node
  contains, so that no path has to be followed. `Forest` is stated of any live
  nodes, references and children, not of the variables: a call that removes one
  tree and makes another passes through a forest that is no state of the
  specification. That no node is below itself is what makes the counts of
  references right when a tree is deleted from its leaves on.
* **Xml_proofs**, of the nodes of TinyXML: the invariant (`NodesInv`,
  `NodesStayLinked`) is that the five pointers are those of one sequence of
  children for each node (`Links`), the sequences of a forest (`Lists`). Neither
  the mirrored lists nor the trees are inductive alone: that `prev` is right after
  an insertion needs that the sequence has no node twice, and that deleting what
  is below a child leaves the rest alone needs that no node is above itself.
  Linking, taking out, cutting off, deleting and copying have a lemma each
  (`LinkLinks`, `UnlinkLinks`, `CutSound`, `PruneSound`, `CopyLinks`) about any
  pointers and sequences, and a call of the code is one, two or, in
  `ReplaceChild`, three of these in a row. As following the pointers gives back
  the sequences they are those of (`ChainKids`), each lemma of a call
  (`StepLink`, `StepReplace`, ...) also says what it does to them, and
  `PointersKeepTrees` (`ImplementsNodeTree`) needs nothing more.
  `NodesStayTyped` rests on `ChainStays`: who follows parents from a node that is
  there comes only to such nodes, so that what is told of an error is one of them.
  `NodesStaySound` (`NodesSound`) follows from these: a way through the
  children that is asked for a value or for elements is a way through the places
  of a sequence (`AlongOn`, `AlongBack`), and the one asked for by number is found
  by the rank of its place (`CountedIs`).
* **Xml_proofs**, of the attributes: `AttributesStayLinked`. The ring is that of a
  sequence (`Ringed`), whose names are different and, with their values, what was
  given (`Named`). What a reader sees is how far the ring leads until an
  attribute looks like the sentinel (`SeenAlong`).
* **Library_proofs**, of the graphs: `Typing`; `Sorting` (the prefix before the
  position of the selection sort is sorted and no larger than the rest);
  `Naming`; `Components`: two nodes have one number if and only if edges taken
  connect them. Connection is stated over sets of nodes closed under the edges,
  which takes the place of an induction over paths: one direction holds because
  each number's nodes form such a set, the other because a join links two sets
  that were linked each. `Acyclic` counts edges and numbers with the library's
  facts on cardinality. `Refinement` shows that Kruskal implements `Partition`:
  initial states map to equality, a join to `Union` or a stutter.
  `EdgesStayThere`: the exchange of two edges is a rearrangement.
  `ForestIsMinimum` keeps, for each edge looked at, that what is taken by then
  connects all that the edges up to there connect (`ByStages`). Any choice of
  edges that connects as much therefore has, beyond each place of the sorted
  array, at least as many edges as the tree (`AsManyBeyond`: an edge for each
  set that has gone); summing the weights by parts then gives the tree the least
  (`HeavierBeyond`). Sums over any number of edges exist and are compared by
  the least place at which the claim would fail (`LeastNumber`). If weights are
  negative this is said of choices with as many edges as the tree, else of all.
* **Library_proofs**, of the lists of processes: `SnapshotsStaySound`. What is
  still to be visited is the end of the snapshot, and all before it is in the
  array at its rank (`Copied`); ranks grow, so nothing is written over.
* **Library_proofs**, of the functions on arrays: `SortsStayRight`, for arrays of
  every length. A loop is a recursive function over its turns. That such a
  function exists and that each turn keeps what the first had (`UpwardsRun`,
  `StaysUpwards`, and the same downwards) is shown once, by the least turn at
  which it would fail, which takes the place of an induction; each loop then
  has its invariant. `Placed`: the first elements are in their places
  (insert_sort; Bubble_Sort, whose inner loop carries the least to the front);
  `Hole`: the heap, numbered from 0 as in the code, has one element that may be
  less than those below it, which each call of Max_HeapIFY moves down, and
  `Back`: the last are in their places (Heap_Sort). All exchange only
  (`Rearranged`, which gives `sameElements` by counting). Merge writes the
  elements before two positions of its halves, in order, none of the rest less
  (`Merged`), until it takes the sentinel of the first half for the last element
  of the second (`Merging`); the calls of Merge_Sort are compared by the length
  of their parts (`MergeSortRight`). Of files, `LikelierOrders` compares
  products instead of quotients, `SoonestChosen` gives that no file is likelier
  than one before it, and `SwapIsNoDearer` that two files in a row can change
  over for no more time if the first is not the likelier: any order is turned into
  the chosen one in this way (`NextComesForward`, `OneMoreAgrees`), so
  none costs less (`ChosenCostsLeast`).
* **Library_proofs**, of base64: `DataReadBack` and `DataCutShort`, for data of
  every length, which say for these what `DataArrive` does on a few. Four characters give back the
  three bytes they were made of (`ThreeBytes`). What is written holds the
  characters of the groups in their order and nothing else that is known
  (`Laid`, over the groups that are joined: `PutIsLaid`), and that stays so when it is
  broken into other lines (`LaidWherever`). Of such a text each turn of `get`
  finds the four characters of the next group (`LaidKnown`, `StandAt`) and adds
  its bytes (`TurnReadsGroup`), or all that is known is read; of its first
  characters it does the same until the group that breaks off (`TurnCut`,
  `Whole`). There are enough turns, since no two characters share a place
  (`PlacesGrow`). The loops are those of `UpwardsRun` again.

Only model-checked, and why:

* liveness (`SectionIsReleased`, `RecordFollowsScreen`, `PipesServed`, both
  `Answered`, `CallsReturn`, `Delivered`, `ParseEnds`): fairness and ENABLED are
  out of the prover's reach;
* `ValuesSound`, `DocumentsSound`, `FilesSound`: what is printed and parsed are
  trees and texts of any size, which their modules follow with RECURSIVE
  operators; an induction over these is one the prover cannot instantiate. What
  they say of base64 alone is proved;
* the rules of NamedPipeServer (what `PipesServed` is about).

## 6. Findings

`WindowMonitor_shipped` is a violation run: the popup thread returns between
`EnterCriticalSection` and `LeaveCriticalSection` for three titles, of which the
shipped black list filters one; the other two block all later popups.
`PROJECT.json` quotes the line of the repository this contradicts.

`TinyXml_shipped` is the other: `TiXmlText::Parse` gives back the character
before the end of a text also when the text ended because the input did. The
parse of `<a>x` reads that text for ever and never reports the missing end tag,
which the code a few hundred lines above says it does.

Met while modelling, in the models but without a run of their own; the
exceptions in the properties above are these:

* `Sample/Server/Server.cpp:33` calls the main loop infinite; it ends with the
  process when a pipe or a thread cannot be created (48-54, 75-81).
* `NamedPipeServer.h:126` closes a handle that the destructor of its wrapper
  closes again (`NamedPipeWrapper.h:12`).
* `XmlRpcServerConnection.cpp:202` returns `_keepAlive` after a partial write:
  with `Connection: close` the rest of a response is never sent.
* `XmlRpcDispatch.cpp:106-109` gives every select the whole timeout, so `work`
  waits up to twice its argument, which is in seconds where the header says
  milliseconds.
* `XmlRpcServerConnection.cpp:300` hands a multicall within a multicall the outer
  one's calls; at 293 a mistyped method name turns the whole answer into a
  fault after other calls were run. `XmlRpcServer.cpp:41` removes by name only:
  destroying a replaced method removes its replacement.
* `XmlRpcClient.cpp:296` takes out and adds the client's list node inside the
  handler, and the dispatcher then writes its mask through the erased node
  (`XmlRpcDispatch.cpp:140`); if that memory is the new node's, a refused
  connection is not noticed on Windows and `execute` waits for ever.
* `XmlRpcValue.cpp`: names of members are encoded (530) but not decoded (503);
  dates with years from 1900, as a `struct tm` has them, come back changed (389);
  an element of unknown type ends an array and leaves its rest unread (467);
  comparison ignores the names of members (172) and, though it calls itself a
  predicate for equality (141), the day of dates, compared with itself (144).
* `XmlRpcServer.cpp:243` says introspection is enabled by default, the
  constructor disables it; `XMLLog` counts in a variable that is never
  initialised and saves through `SaveFile`, which empties the file of a parser
  that was not told an encoding: a log that saves itself leaves an empty file.
* `XMLParser.cpp:279`: content next to children gains a carriage return for each
  line break whenever it is saved and read.
* `libxml.cpp:1130`: an attribute whose name and value were set to nothing hides
  the attributes that follow it from those who walk the list.
* `SwitchDesktopEx.cpp:20` releases an interface that was not created.
* `libxml.cpp:59`: a text that was read from `&amp;#x` is written so that it is
  read again as something else.

## 7. What is not modelled

* `Reflection.h` is the third-party AGM::LibReflection 0.8: macros, and a registry
  of members that each class fills when its first object is built. Its only user
  is the demonstration in `main.cpp` of `misc/Library`, whose `main` also builds
  one graph, by the calls that `Kruskal` models. `SimpleSerializer.h` is included
  nowhere and `System.h` holds helpers that forward a call. `libxmlstr` stands in
  for `std::string` where STL is not used.
* `DesktopManager.h` (its overloads pass a `const char*` to a `char*` and return
  a handle as a `BOOL`) and `VERunTimeState.h` (semicolons in its enums) do not
  compile: there is no behaviour to model.
* The samples `CreateDesktop`, `SwitchDesktop`, `SwitchDesktopEx` and
  `EnumDesktops` are each a straight line of calls; what could go wrong between
  them (when a desktop ceases to exist, who may switch) is decided by the system.
* `NamedPipeClient`, the samples of virtual environments and the project
  directories hold stubs and empty functions.
* Of TinyXML: the places kept for error messages, white space inside tags, wide
  encodings in the parser of documents, attributes as numbers, user data. Of
  XMLParser: start tags that break off, callbacks over a tree, changes of single
  properties. Of `XmlRpcServer`: its destructor, after which methods that outlive
  it keep a pointer to it. Of `XmlRpcSocket`: the calls that only forward.
* Inside modelled components: log output and wording; code pages; the rounding of doubles beyond the six digits
  that are written; setSourceEvents by a third party; order of children and
  properties of tree nodes; the ranges of counters that never come near them.

## 8. Plan

Done, in this order: WindowMonitor, Startup and BlackListConfig; EchoServer and
NamedPipeServer; XmlRpcServer and XmlRpcClient; Kruskal and Sorting;
XmlRpcMethods and XmlRpcValue; XmlTree; XmlRpcDispatch; Initialize; the modules
of TinyXML; XmlFile and XMLLog; Base64; XmlRpcSocket; Process.

A new module joins the run of a related one where that keeps the run short, as
in `MCPipeServers`, `MCXmlRpcClient`, `MCXml` and `MCLibrary`.

What would come next, models:

1. Server and client together: XmlRpcClient's environment replaced by
   XmlRpcServer's connection over XmlRpcSocket, checked against an abstract
   remote call that runs a method at least once and at most twice.
2. The start tags of XMLParser and the places of TinyXML's errors.

Proofs:

1. TinyXmlParser as a state machine of its own: what `open` and the tree have in
   common in every turn of the loops, from which no node is linked twice.
2. NamedPipeServer: that no two threads work on one pipe, but for the second
   close of a handle.
