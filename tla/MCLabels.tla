------------------------------ MODULE MCLabels ------------------------------
(* A small instance of Labels for TLC: every code of the ig table, two of  *)
(* each other table, the exceptions and an unknown one, with two marks;    *)
(* two codes with all lines, tags, filters and extensions.                 *)
EXTENDS Labels

New == "sfst_rank_ocpx_v2"
Old == "fr-fusion1"

Line(bid, ad, features) ==
  [bid |-> bid, shown |-> TRUE, fraud |-> TRUE, ad |-> ad, ranks |-> TRUE, features |-> features]

(* Lines all checks pass, of two bid types, and lines some do not.         *)
MCLines ==
  [cpe    |-> Line("8", "full", Tags),
   plain  |-> Line("1", "full", Tags),
   unsafe |-> [Line("8", "full", Tags) EXCEPT !.fraud = FALSE],
   hidden |-> [Line("1", "full", Tags) EXCEPT !.shown = FALSE],
   short  |-> Line("8", "below 10", Tags),
   onlyNew |-> Line("8", "full", {New}),
   empty  |-> Line("8", "full", {})]

MCImpressions ==
  {[mark |-> m, tags |-> t, whole |-> w] :
     m \in Marks, t \in {Tags, {Old}}, w \in BOOLEAN}

Item(k, of, t, in) == [name |-> k, of |-> of, colon |-> TRUE, text |-> t, in |-> in]
Field(k, t) == Item(k, {k}, t, {})
Bare(k, of, t) == [name |-> k, of |-> of, colon |-> FALSE, text |-> t, in |-> {}]

(* No extension; a text alone; one field, two and three; numbers below 0   *)
(* and too large; a name inside another and inside a value, before its own *)
(* item and behind it; a name without a value.                             *)
MCExtensions ==
  {<<>>, <<Bare("1", {}, Number(1))>>, <<Field("open_app", Number(1))>>,
   <<Field("isautoplay", Number(1)), Field("play_duration", Number(-1))>>,
   <<Field("isautoplay", Number(1)), Field("play_duration", Other), Field("open_app", Number(0))>>,
   <<Field("isautoplay", Number(Modulus + 1)), Field("open_app", Number(1 - Modulus))>>,
   <<Item("valid_play_duration", {"play_duration"}, Number(1), {}),
     Field("play_duration", Number(5000)), Field("isautoplay", Number(1))>>,
   <<Field("isautoplay", Number(1)), Field("play_duration", Number(0)),
     Item("from", {}, Other, {"isautoplay"})>>,
   <<Item("from", {}, Other, {"open_app"}), Field("isautoplay", Number(2)),
     Field("open_app", Number(0))>>,
   <<Bare("isautoplay", {"isautoplay"}, Other), Field("open_app", Number(2))>>}

MCCodes == igTable \cup {"14000003", "80000003", "27000004", "50000006"}
                   \cup {"28000001", "80000020", "1"}

Behaviour1(m, t, w, c, f, x) ==
  [mark |-> m, tags |-> t, whole |-> w, code |-> c, filter |-> f, ext |-> x]
MCBehaviours ==
  {Behaviour1(m, Tags, TRUE, c, f, <<>>) :
     m \in {"cpe", "plain"}, c \in MCCodes, f \in {"0", "10000", "1"}}
  \cup {Behaviour1(m, t, TRUE, c, "0", x) :
          m \in Marks, t \in {Tags, {New}, {Old}}, c \in {"14000014", "1"}, x \in MCExtensions}
  \cup {Behaviour1(m, Tags, FALSE, "14000014", "0", <<>>) : m \in Marks}
=============================================================================
