---------------------------- MODULE MCLibrary ----------------------------
(***************************************************************************)
(* What is called as a library, for TLC: the graphs and sorts of            *)
(* misc/Library (Kruskal, Sorting), its XML documents (MCTinyXml) and their *)
(* characters (TinyXmlText), the values of XML-RPC (XmlRpcValue) and their  *)
(* binary data (Base64), the files of CXMLParser (XmlFile) and the log kept *)
(* in one (XMLLog), and the lists of processes (Process). A caller uses one *)
(* of them; the others stay as they are.                                    *)
(***************************************************************************)
EXTENDS Library, MCXmlRpcValue, MCXmlFile, FiniteSetsExt, SequencesExt

CONSTANTS Name, Attr, MaxNode, DocNodes, Edited,                        \* MCTinyXml
          MaxText, MaxLog, Width, MaxAdded,                             \* XmlFile, XMLLog
          Units, MaxUnits, References, Bytes, MaxBytes, Lengths         \* TinyXmlText, Base64

(* The special characters, the parts of references, blanks, and one of two bytes. *)
Characters ==
  {<<38>>, <<38, 35>>, <<38, 35, 120>>, <<120>>, <<65>>, <<59>>, <<60>>, <<34>>, <<10>>, <<13>>, <<32>>, <<195, 169>>}

(* Weights of either sign.                                                  *)
Weights == {-1, 1, 2}

VARIABLES
  used,
  call, value, xml, read, other, equal,     \* of XmlRpcValue
  markup, condense, at, nesting, inHead, doc, error, done, wrote,   \* of MCTinyXml
  xmlRoot, enc, file, saved,                \* of XmlFile
  autosave, running, logs, counter, entries, logFile, added,        \* of XMLLog
  sample                                    \* of TinyXmlText and Base64

Val == INSTANCE XmlRpcValue WITH Value <- Values, Other <- Others
Doc == INSTANCE MCTinyXml WITH input <- markup, p <- at, open <- nesting
File == INSTANCE XmlFile WITH root <- xmlRoot
Log == INSTANCE XMLLog WITH open <- running, tree <- entries, file <- logFile
Chars == INSTANCE TinyXmlText
Data == INSTANCE Base64

values == <<call, value, xml, read, other, equal>>
documents == <<markup, condense, at, nesting, inHead, doc, error, done, wrote>>
files == <<xmlRoot, enc, file, saved>>
log == <<autosave, running, logs, counter, entries, logFile, added>>

noArray == sorter = "none" /\ input = << >> /\ output = << >>
noValue ==
  /\ call = "none" /\ value = Invalid /\ xml = << >>
  /\ read = Invalid /\ other = Invalid /\ equal = FALSE
noDocument ==
  /\ markup = << >> /\ condense = TRUE /\ at = 0 /\ nesting = << >> /\ inHead = FALSE
  /\ doc = << >> /\ error = "unused" /\ done = TRUE /\ wrote = [how |-> "unused"]
noFile ==
  /\ xmlRoot = File!NoTree /\ enc = "none" /\ file = File!Emptied /\ saved = File!Unknown
noLog ==
  /\ autosave = FALSE /\ running = FALSE /\ logs = << >> /\ counter = 0 /\ entries = << >>
  /\ logFile = File!Emptied /\ added = 0
noSample == sample = [kind |-> "unused"]

(* Strings of a few units, references, and data of few bytes or
   about as many as make a line.                                            *)
samples ==
  {[kind |-> "text", s |-> FlattenSeq(u), utf8 |-> b] : u \in upTo(Units, MaxUnits), b \in BOOLEAN}
    \cup {[kind |-> "reference", c |-> c, utf8 |-> b] : c \in References, b \in BOOLEAN}
    \cup {[kind |-> "data", data |-> d] : d \in upTo(Bytes, MaxBytes)}
    \cup {[kind |-> "data", data |-> [k \in 1..n |-> (k * 37) % 256]] : n \in Lengths}

CallInit ==
  /\ Init
  /\ used \in {"graphs", "arrays", "values", "documents", "files", "log", "samples", "processes"}
  /\ IF used = "arrays" THEN Arr!Init ELSE noArray
  /\ IF used = "values" THEN Val!Init ELSE noValue
  /\ IF used = "documents" THEN Doc!MCInit ELSE noDocument
  /\ IF used = "files" THEN File!Init ELSE noFile
  /\ IF used = "log" THEN Log!Init ELSE noLog
  /\ IF used = "samples" THEN sample \in samples ELSE noSample
  /\ Proc!Init

CallNext ==
  /\ UNCHANGED <<used, sample>>
  /\ \/ /\ used = "graphs"
        /\ \/ \E e \in Edge : AddEdge(e)
           \/ MST_KRUSKAL \/ SelectEdge \/ SortedAll
           \/ TakeEdge \/ DropEdge \/ Return
     \/ used # "graphs" /\ UNCHANGED graphs
  /\ \/ used = "arrays" /\ Arr!Next
     \/ used # "arrays" /\ UNCHANGED arrays
  /\ \/ used = "values" /\ Val!Next
     \/ used # "values" /\ UNCHANGED values
  /\ \/ used = "documents" /\ Doc!MCNext
     \/ used # "documents" /\ UNCHANGED documents
  /\ \/ used = "files" /\ File!Next
     \/ used # "files" /\ UNCHANGED files
  /\ \/ used = "log" /\ Log!Next
     \/ used # "log" /\ UNCHANGED log
  /\ \/ used = "processes" /\ Proc!Next
     \/ used # "processes" /\ UNCHANGED lists

callVars == <<used, sample, graphs, arrays, values, documents, files, log, lists>>

(* The parser runs on once it is called. Nothing else need be called.       *)
CallSpec == CallInit /\ [][CallNext]_callVars /\ WF_callVars(used = "documents" /\ CallNext)

-----------------------------------------------------------------------------
(* A document is read as it was printed, and one that is broken off is
   reported; the characters of a text or an attribute are read as they were
   written: see MCTinyXml and TinyXmlText.                                  *)
DocumentsSound ==
  /\ Doc!RoundTrip
  /\ Doc!ErrorsReported
  /\ sample.kind = "text" => Chars!TextArrives(sample.s, sample.utf8)
  /\ sample.kind = "reference" => Chars!ReferenceArrives(sample.c, sample.utf8)

(* The parser comes to an end: see MCTinyXml.                               *)
ParseEnds == Doc!ParseEnds

(* What is saved in a file is read back, and so is what the log keeps: see
   XmlFile and XMLLog.                                                      *)
FilesSound == File!SavedReadBack /\ Log!LogSound

(* What toXml wrote, fromXml reads back, to the end of its text; parseRequest
   finds the parameters that generateRequest was given; operator== tells
   values apart, up to the days of dates and the names of members; and binary
   data arrive, even if their text was broken into other lines.             *)
ValuesSound ==
  /\ Val!ReadsBack
  /\ Val!ParamsArrive
  /\ Val!Compares
  /\ sample.kind = "data" => Data!DataArrive(sample.data)
============================================================================
