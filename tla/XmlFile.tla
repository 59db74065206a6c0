------------------------------- MODULE XmlFile -------------------------------
(***************************************************************************)
(* How CXMLNode writes itself as text and reads it, and how CXMLParser      *)
(* saves its root to a file and loads it (misc/WindowsMonitor/              *)
(* XMLParser.cpp). The nodes themselves are XmlTree's; here a node is a     *)
(* value: tag, properties, content and children.                            *)
(*                                                                         *)
(* A text is a sequence of tokens: a start tag up to its '>' or "/>", these *)
(* two, an end tag, and single characters of content. Content is written as *)
(* it is, so that of the program has neither '<' nor "/>". What reading does*)
(* with start tags that break off is left out, and declarations, which are   *)
(* taken out as comments are.                                               *)
(***************************************************************************)
EXTENDS Integers, Sequences, SequencesExt

CONSTANTS
  Trees,      \* what the program makes the root
  MaxText     \* longest text saved: bound of the model

Letter == <<"x">>
Space == <<" ">>
CR == <<"\r">>
LF == <<"\n">>
Tab == <<"\t">>
White == {Space, CR, LF, Tab}
Gt == <<">">>
Empty == <<"/>">>
Start(tag, props) == <<"<", tag, props>>
EndTag(tag) == <<"</", tag>>
CommentStart == <<"<!--">>
CommentEnd == <<"-->">>

IsStart(t) == t[1] = "<"
IsEnd(t) == t[1] = "</"

Tree(tag, props, content, kids) == [tag |-> tag, props |-> props, content |-> content, kids |-> kids]

None == "none"
NoTree == Tree(None, <<>>, <<>>, <<>>)

-----------------------------------------------------------------------------
(* Blank content is not written. Children are each on lines of their own.   *)
Tabs(k) == [i \in 1..k |-> Tab]

RECURSIVE Output(_, _)
Output(n, fmt) ==
  Tabs(fmt) \o <<Start(n.tag, n.props)>> \o
    (IF n.content = <<>> /\ n.kids = <<>> THEN <<Empty, CR, LF>>
     ELSE <<Gt>>
            \o (IF ToSet(n.content) \subseteq White THEN <<>> ELSE n.content)
            \o (IF n.kids = <<>> THEN <<>>
                ELSE <<CR, LF>> \o FlattenSeq([i \in DOMAIN n.kids |-> Output(n.kids[i], fmt + 1) \o <<CR, LF>>])
                       \o Tabs(fmt))
            \o <<EndTag(n.tag)>>)

(* Mistake: a child that ends with "/>" does not end.                       *)
Closes_OnlyTags(t) == IsEnd(t)

Closes(t) == IsEnd(t) \/ t = Empty

(* Parser: the first element of the text, or NoTree. Between its start tag    *)
(* and the last end tag of the text, what is in an inner element is gathered *)
(* until that is closed, whatever the names of the tags are, and read in    *)
(* turn; the rest, but for line feeds and tabs, is content.                 *)
RECURSIVE Parsed(_)
Turn(at, t) ==
  LET count == IF IsStart(t) THEN at.count + 1 ELSE IF Closes(t) THEN at.count - 1 ELSE at.count
  IN IF ~at.ok THEN at
     ELSE IF Closes(t) /\ count = 0 THEN
       LET kid == Parsed(Append(at.inner, t))
       IN [at EXCEPT !.ok = kid # NoTree, !.count = 0, !.inner = <<>>, !.kids = Append(@, kid)]
     ELSE IF count < 0 THEN [at EXCEPT !.ok = FALSE]
     ELSE IF t \in {LF, Tab} THEN at
     ELSE IF count > 0 THEN [at EXCEPT !.count = count, !.inner = Append(@, t)]
     ELSE IF t = Gt THEN at
     ELSE [at EXCEPT !.content = Append(@, t)]

Parsed(s) ==
  LET first == SelectInSeq(s, LAMBDA t : IsStart(t) \/ IsEnd(t))
      last == SelectLastInSeq(s, IsEnd)
      read == FoldLeft(Turn, [ok |-> TRUE, count |-> 0, inner |-> <<>>, content |-> <<>>, kids |-> <<>>],
                       SubSeq(s, first + 2, last - 1))
  IN IF first = 0 \/ IsEnd(s[first]) THEN NoTree
     ELSE IF s[first + 1] = Empty THEN Tree(s[first][2], s[first][3], <<>>, <<>>)
     ELSE IF last = 0 \/ ~read.ok \/ read.count # 0 THEN NoTree
     ELSE Tree(s[first][2], s[first][3], read.content, read.kids)

(* LoadMem: comments go before the text is read (declarations likewise).    *)
RECURSIVE Uncommented(_)
Uncommented(s) ==
  LET first == SelectInSeq(s, LAMBDA t : t = CommentStart)
      last == SelectInSeq(s, LAMBDA t : t = CommentEnd)
  IN IF first = 0 THEN s
     ELSE IF last = 0 THEN <<>>
     ELSE Uncommented(SubSeq(s, 1, first - 1) \o SubSeq(s, last + 1, Len(s)))

LoadMem(s) == Parsed(Uncommented(s))

-----------------------------------------------------------------------------
(* CXMLParser and one file.                                                 *)
VARIABLES
  root,       \* NoTree after a load that failed
  enc,        \* None, the constructor's E_ERR, until it is chosen
  file,       \* its mark and text; one that is not there is like an empty one
  saved       \* history: what the file should hold

vars == <<root, enc, file, saved>>

Codes == {"UTF16LE", "UTF16BE"}
Emptied == [mark |-> None, text |-> <<>>]
Unknown == [kind |-> "unknown"]           \* the file is not this program's

Init ==
  /\ root \in Trees
  /\ enc = None
  /\ file = Emptied
  /\ saved = Unknown

SetRoot(n) == root' = n /\ UNCHANGED <<enc, file, saved>>

SetCode(c) == enc' = c /\ UNCHANGED <<root, file, saved>>

(* Mistake: the constructor's encoding is as good as another.               *)
Written_AnyCode(n) == [mark |-> "UTF16LE", text |-> Output(n, 0)]

(* The file is opened for writing before the encoding is looked at: one     *)
(* that was never chosen leaves it empty, and SaveFile returns false.       *)
Written(n) == IF enc \in Codes THEN [mark |-> enc, text |-> Output(n, 0)] ELSE Emptied

(* The file can be opened: nothing is checked.                              *)
SaveFile ==
  /\ root # NoTree /\ Len(Output(root, 0)) <= MaxText
  /\ file' = Written(root)
  /\ saved' = IF enc \in Codes THEN [kind |-> "tree", tree |-> root] ELSE [kind |-> "lost"]
  /\ UNCHANGED <<root, enc>>

(* LoadFile returns at once if the file has no mark; else enc is the file's *)
(* and the root is destroyed, also if the text is not read after all.       *)
LoadFile ==
  /\ file.mark # None
  /\ enc' = file.mark
  /\ root' = LoadMem(file.text)
  /\ UNCHANGED <<file, saved>>

(* Another program takes an end tag out of the file.                        *)
Damage ==
  /\ \E i \in DOMAIN file.text :
       /\ IsEnd(file.text[i])
       /\ file' = [file EXCEPT !.text = RemoveAt(@, i)]
  /\ saved' = [kind |-> "damaged"]
  /\ UNCHANGED <<root, enc>>

(* Another program puts an element into the file, as a comment.             *)
Comment ==
  /\ saved.kind = "tree" /\ \A t \in ToSet(file.text) : t # CommentStart
  /\ \E i \in 1..Len(file.text) :
       file' = [file EXCEPT !.text =
                 SubSeq(@, 1, i) \o <<CommentStart, Start("c", <<>>), CommentEnd>> \o SubSeq(@, i + 1, Len(@))]
  /\ UNCHANGED <<root, enc, saved>>

Next ==
  \/ \E n \in Trees : SetRoot(n)
  \/ \E c \in Codes : SetCode(c)
  \/ SaveFile \/ LoadFile \/ Damage \/ Comment

Spec == Init /\ [][Next]_vars

-----------------------------------------------------------------------------
(* What reading makes of a tree: line feeds and tabs go, as does content    *)
(* that is all blank, and the carriage returns the children are written     *)
(* between are added to content.                                            *)
Stripped(content) == SelectSeq(content, LAMBDA t : t \notin {LF, Tab})

IsLeaf(n) == n.content = <<>> /\ n.kids = <<>>

RECURSIVE Reread(_)
Reread(n) ==
  LET kept == IF ToSet(n.content) \subseteq White THEN <<>> ELSE Stripped(n.content)
      lines == 1 + Len(n.kids) + Len(SelectSeq(n.kids, IsLeaf))
  IN Tree(n.tag, n.props,
          IF n.kids = <<>> THEN kept ELSE kept \o [i \in 1..lines |-> CR],
          [i \in DOMAIN n.kids |-> Reread(n.kids[i])])

(* Elements have either children or content that is not blank.              *)
RECURSIVE Plain(_)
Plain(n) ==
  /\ n.content = <<>> \/ (n.kids = <<>> /\ ~(ToSet(n.content) \subseteq White))
  /\ \A i \in DOMAIN n.kids : Plain(n.kids[i])

(* A file that was saved is read back, but for blanks, and if the elements   *)
(* were plain it is read the same when what was read is saved again.        *)
(* (Content next to children gains a carriage return for every line break,  *)
(* each time; blank content is lost the second time.) A file that was       *)
(* damaged is refused, and a save without an encoding has emptied it.       *)
SavedReadBack ==
  LET again == LoadMem(file.text)
  IN /\ saved.kind = "tree" =>
          /\ file.mark \in Codes /\ again = Reread(saved.tree)
          /\ Plain(saved.tree) => Parsed(Output(again, 0)) = again
     /\ saved.kind = "damaged" => again = NoTree
     /\ saved.kind = "lost" => file = Emptied
=============================================================================
