--------------------------- MODULE MCXmlRpcValue ---------------------------
(* Values of the constants of XmlRpcValue for TLC.                           *)
EXTENDS Integers

of(type, x) == <<type, x>>
Invalid == <<"invalid">>

upTo(S, n) == UNION {[1..k -> S] : k \in 0..n}

Strings == {of("string", s) : s \in upTo({"a", " ", "<", "&", "lt;", "amp;"}, 4)}
Scalars ==
  {of("bool", TRUE), of("bool", FALSE), of("int", 0), of("int", 12)}
    \cup {of("double", d) : d \in {0, 1, 3000000}}
Times(years) ==
  {of("time", <<y, mo, d, 0, 5, 59>>) : y \in years, mo \in {0, 11}, d \in {1, 31}}

Short == {of("int", 12), of("string", << >>), of("string", <<" ">>), of("string", <<"<", "lt;">>)}
Unset == Short \cup {Invalid}

Arrays(S, n) == {of("array", vs) : vs \in upTo(S, n)}
member(n, v) == [name |-> n, value |-> v]
Structs(S, m, n) ==
  {of("struct", << >>)} \cup {of("struct", <<member(m, v)>>) : v \in S}
    \cup {of("struct", <<member(m, v), member(n, w)>>) : v \in S, w \in S}

a == <<"a">>
ab == <<"a", "b">>

Flat == Arrays(Unset, 2) \cup Structs(Unset, a, ab)
Few == {of("array", << >>), of("array", <<of("int", 12), of("string", << >>)>>),
        of("struct", << >>), of("struct", <<member(a, of("string", <<" ">>))>>), of("int", 0)}
Nested == Arrays(Few, 3) \cup Structs(Few, a, ab) \cup Arrays(Flat, 1) \cup Structs(Flat, a, ab)

Values == {Invalid} \cup Strings \cup Scalars \cup Times({1999, 2026}) \cup Flat \cup Nested
Others == Scalars \cup Short \cup Times({1999}) \cup Few \cup Structs({of("int", 12)}, a, ab)
============================================================================
