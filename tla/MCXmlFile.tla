------------------------------ MODULE MCXmlFile ------------------------------
(* Trees for XmlFile: with properties, content, children, or several of them. *)
EXTENDS Sequences

node(tag, props, content, kids) == [tag |-> tag, props |-> props, content |-> content, kids |-> kids]

Letter == <<"x">>
Content == {<<>>, <<Letter>>}
Leaves(contents) == {node("a", <<>>, c, <<>>) : c \in contents}
Parent(content, kids) == node("b", <<>>, content, kids)

Trees ==
  Leaves(Content) \cup {node("a", <<"k">>, <<>>, <<>>)}
    \cup {Parent(c, <<n>>) : c \in Content, n \in Leaves({<<>>, <<<<" ">>>>, <<Letter, <<"\n">>, Letter>>})}
    \cup {Parent(<<>>, <<m, n>>) : m, n \in Leaves(Content)}
    \cup {Parent(<<>>, <<Parent(c, <<m>>), n>>) : c \in Content, m \in Leaves(Content), n \in Leaves({<<>>})}
=============================================================================
