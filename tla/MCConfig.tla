------------------------------ MODULE MCConfig ------------------------------
(* A small instance of Config for TLC: sections "s" and "s.b", names "a",  *)
(* "A" and "b.a", so that keys meet by letter case and by dots; a line of  *)
(* each kind with and without indentation.                                 *)
EXTENDS Config

MCLower == [p \in {"", "s", "a", "b", "A"} |-> IF p = "A" THEN "a" ELSE p]

Line(kind, indent, name, value) ==
  [kind |-> kind, indent |-> indent, name |-> name, value |-> value,
   text |-> IF kind = "pair" THEN "name=value" ELSE value]

MCLines ==
  {Line("section", ind, <<"s">>, "[s]") : ind \in BOOLEAN}
  \cup {Line("section", FALSE, <<"s", "b">>, "[s.b]")}
  \cup {Line("pair", ind, n, v) : ind \in BOOLEAN, n \in {<<"a">>, <<"A">>, <<"b", "a">>}, v \in {"1"}}
  \cup {Line("pair", FALSE, n, v) : n \in {<<"a">>, NoName}, v \in {"", "2"}}
  \cup {Line(k, TRUE, NoName, k) : k \in {"blank", "comment", "unclosed", "nopair"}}
  \cup {Line("nopair", FALSE, NoName, "x")}
=============================================================================
