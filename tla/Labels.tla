------------------------------- MODULE Labels -------------------------------
(***************************************************************************)
(* Which samples the four learners of x_learner.cpp take from the two      *)
(* streams, and which behaviours the older program of tools/learner.cpp    *)
(* took: the checks of parse_sample_0 and parse_sample_1 before and after  *)
(* their repeat filters, the lookup of the fields of a behaviour's second  *)
(* extension (find_kv), their conversion (isUInt64) and the rules CheckImp *)
(* and CheckLabel.                                                         *)
(*                                                                         *)
(* A message is what these checks see of it.  An impression and each of    *)
(* its behaviours carry the same line, lineOf its mark.  Each program      *)
(* looks for the tag of its model in the text of a message and later reads *)
(* the features of that model from the line.  A sample here is one offered *)
(* to the buffers; what they drop or lose is in Parser and ToolsMerge.     *)
(*                                                                         *)
(* The extension, written name:value|name:value|..., is a sequence of      *)
(* items, each with the fields whose name occurs in its name or its value. *)
(* A value holds no colon.  A text is empty, a number or something else.   *)
(***************************************************************************)
EXTENDS Integers, Sequences, FiniteSetsExt, SeqFilter

CONSTANTS
  Marks, lineOf,             \* mark ids and the line of each impression
  Impressions, Behaviours,   \* messages of the two streams
  Modulus,                   \* 2^64
  MaxMessages                \* bound: messages of both streams

Tags == {"sfst_rank_ocpx_v2", "fr-fusion1"}   \* of the new program, of the old

(* What is checked of the line before an impression is counted, the        *)
(* sections fraud and ad, the parts of its rank, and the tags of the       *)
(* programs that read features and a ctr other than -1 from the last part. *)
Lines == [bid : STRING, shown : BOOLEAN, fraud : BOOLEAN,
          ad : {"below 6", "below 10", "full"}, ranks : BOOLEAN, features : SUBSET Tags]

Fields == {"play_duration", "isautoplay", "open_app"}
Texts == [kind : {"empty", "number", "other"}, val : Int]
Items == [name : STRING, of : SUBSET Fields, colon : BOOLEAN,
          text : Texts, in : SUBSET Fields]

(* whole: the lines, the sections and their parts are as many as needed.   *)
ImpressionMsg == [mark : Marks, tags : SUBSET Tags, whole : BOOLEAN]
BehaviourMsg == [mark : Marks, tags : SUBSET Tags, whole : BOOLEAN,
                 code : STRING, filter : STRING, ext : Seq(Items)]

(* An item without a colon is a text alone.  A number holds no name.       *)
ASSUME LabelsAssumption ==
  /\ Modulus \in Nat /\ Modulus > 3000 /\ MaxMessages \in Nat
  /\ lineOf \in [Marks -> Lines]
  /\ Impressions \subseteq ImpressionMsg
  /\ Behaviours \subseteq BehaviourMsg
  /\ \A b \in Behaviours : \A i \in 1 .. Len(b.ext) :
       LET item == b.ext[i]
       IN  /\ item.name \in Fields => item.name \in item.of
           /\ item.text.kind # "other" => item.in = {}
           /\ ~item.colon => item.in = {} /\ (item.of # {} => item.text.kind = "other")

Learners == {"ig", "is", "ir", "ivCPE"}

VARIABLES
  seen0, seen1,     \* markid_hashmap0 and markid_hashmap of Parser
  seenTools,        \* markid_hashmap of tools/learner.cpp
  neg, pos,         \* learner -> marks with label 0, behaviours with label 1
  posTools,         \* behaviours tools/learner.cpp accepts
  apart,            \* history: behaviours of which the checks of one program
                    \* but not of the other refused a message
  last, n           \* the last behaviour message; messages so far

vars == <<seen0, seen1, seenTools, neg, pos, posTools, apart, last, n>>

igTable == {"14000014", "22000001", "22000002", "25000001", "25000002",
            "27000001", "27000002", "27000003", "27000005", "27000006",
            "29000001", "29000002", "29000003", "29000005", "50000005",
            "60000001", "60000003", "80000006", "80000010", "80000011",
            "80000030", "80000060", "80000070", "80000089", "50000009",
            "50000010", "60000010"}
isTable == {"14000003", "14000005", "14000008", "14000045", "14000098",
            "21000001", "21000002", "21000003", "21000004", "80000003"}
irTable == {"27000004", "29000004", "50000001", "50000002", "50000004", "50000006"}

toolsTable == {"14000014", "22000001", "22000002", "25000001", "25000002",
               "27000001", "27000002", "27000003", "27000005", "27000006",
               "29000001", "29000002", "29000003", "29000005", "50000005",
               "60000001", "60000003", "80000006", "80000010", "80000011",
               "80000030", "80000060", "80000070", "80000089", "50000009",
               "50000010", "60000010"}

Empty == [kind |-> "empty", val |-> 0]
Other == [kind |-> "other", val |-> 0]
Number(v) == [kind |-> "number", val |-> v]

-----------------------------------------------------------------------------
Whole(s) ==
  IF s = <<>> THEN Empty
  ELSE IF Len(s) = 1 /\ ~s[1].colon THEN s[1].text ELSE Other

(* Mutant: the search for the colon begins in front of the text. *)
MutFindKv(s, key) ==
  LET holding == {i \in DOMAIN s : key \in s[i].of \cup s[i].in}
      colons == {i \in DOMAIN s : s[i].colon}
  IN  IF holding = {} \/ colons = {} THEN Whole(s) ELSE s[Min(colons)].text

(* str.find(key) in names and values, from there the next ':', from there  *)
(* up to the next '|'.  Without one of the first two start0 + 1 wraps to 0 *)
(* and the whole text comes back.                                          *)
find_kv(s, key) ==
  LET holding == {i \in DOMAIN s : key \in s[i].of \cup s[i].in}
      colons == {i \in DOMAIN s : /\ s[i].colon
                                  /\ \/ i > Min(holding)
                                     \/ i = Min(holding) /\ key \in s[i].of}
  IN  IF holding = {} \/ colons = {} THEN Whole(s) ELSE s[Min(colons)].text

(* lexical_cast to uint64_t takes a negative number modulo 2^64; isUInt64  *)
(* leaves the default when the text is no number or the digits do not fit. *)
isUInt64(text, default) ==
  IF text.kind = "number" /\ -Modulus < text.val /\ text.val < Modulus
  THEN text.val % Modulus ELSE default

play_d(b) == isUInt64(find_kv(b.ext, "play_duration"), 3500)
autoplay(b) == isUInt64(find_kv(b.ext, "isautoplay"), 0)
openapp(b) == isUInt64(find_kv(b.ext, "open_app"), 3)

Watched(b) == (play_d(b) >= 3000 \/ autoplay(b) = 0) /\ openapp(b) \notin {1, 2}

ig(b) == b.code \in igTable /\ b.filter \in {"0", "10000"} /\ Watched(b)
is(b) == b.code \in isTable /\ b.filter \in {"0", "10000"}
ir(b) == b.code \in irTable /\ b.filter \in {"0", "10000"}

MutIvCPE(b) == b.filter = "0" /\ b.code \notin {"28000001", "80000020"} /\ openapp(b) \notin {1, 2}

ivCPE(b) ==
  /\ lineOf[b.mark].bid = "8"
  /\ b.filter = "0"
  /\ b.code \notin {"28000001", "80000020"}
  /\ openapp(b) \notin {1, 2}

(* Labels 1 and -1. *)
CheckLabel(l, b) ==
  IF \/ l = "ig" /\ ig(b)
     \/ l = "is" /\ is(b)
     \/ l = "ir" /\ ir(b)
     \/ l = "ivCPE" /\ ivCPE(b)
  THEN 1 ELSE -1

(* Labels 0 and -1. *)
CheckImp(l, mark) == IF l = "ivCPE" /\ lineOf[mark].bid # "8" THEN -1 ELSE 0

-----------------------------------------------------------------------------
Init ==
  /\ seen0 = {} /\ seen1 = {} /\ seenTools = {}
  /\ neg = [l \in Learners |-> {}] /\ pos = [l \in Learners |-> {}]
  /\ posTools = {} /\ apart = {} /\ last = <<>> /\ n = 0

(* parse_sample_0: its checks before the mark is counted and after. *)
Counts0(m) == "sfst_rank_ocpx_v2" \in m.tags /\ m.whole /\ lineOf[m.mark].shown
Takes0(line) ==
  line.fraud /\ line.ad = "full" /\ line.ranks /\ "sfst_rank_ocpx_v2" \in line.features

Impression(m) ==
  /\ n < MaxMessages /\ n' = n + 1
  /\ seen0' = IF Counts0(m) THEN seen0 \cup {m.mark} ELSE seen0
  /\ LET sample == Counts0(m) /\ m.mark \notin seen0 /\ Takes0(lineOf[m.mark])
     IN  neg' = [l \in Learners |->
                  IF sample /\ CheckImp(l, m.mark) = 0 THEN neg[l] \cup {m.mark} ELSE neg[l]]
  /\ UNCHANGED <<seen1, seenTools, pos, posTools, apart, last>>

-----------------------------------------------------------------------------
Key(b) == <<b.mark, b.code, b.filter>>

(* The checks of a behaviour by the new program before it is counted. *)
Reads1(b) ==
  /\ "sfst_rank_ocpx_v2" \in b.tags /\ b.whole
  /\ lineOf[b.mark].ad = "full" /\ lineOf[b.mark].ranks

(* parse_sample_1 with CheckLabel of every learner. *)
NewBehaviour(b) ==
  LET sample == /\ Reads1(b) /\ Key(b) \notin seen1
                /\ "sfst_rank_ocpx_v2" \in lineOf[b.mark].features
  IN  /\ seen1' = IF Reads1(b) THEN seen1 \cup {Key(b)} ELSE seen1
      /\ pos' = [l \in Learners |->
                  IF sample /\ CheckLabel(l, b) = 1 THEN pos[l] \cup {Key(b)} ELSE pos[l]]

(* The same checks by tools/learner.cpp: another tag, and fewer parts of   *)
(* the section ad.                                                         *)
ReadsTools(b) ==
  /\ "fr-fusion1" \in b.tags /\ b.whole
  /\ lineOf[b.mark].ad # "below 6" /\ lineOf[b.mark].ranks

Listed(b) == b.code \in toolsTable /\ b.filter \in {"0", "10000"}

(* Mutant: repeats are taken again. *)
MutTools(b) ==
  LET counted == ReadsTools(b) /\ Listed(b)
      sample == counted /\ Watched(b) /\ "fr-fusion1" \in lineOf[b.mark].features
  IN  /\ seenTools' = IF counted THEN seenTools \cup {Key(b)} ELSE seenTools
      /\ posTools' = IF sample THEN posTools \cup {Key(b)} ELSE posTools

(* Parse_sample_1 of tools/learner.cpp: the table and the filter before    *)
(* the mark is counted, the other label rules after.                       *)
ToolsBehaviour(b) ==
  LET counted == ReadsTools(b) /\ Listed(b)
      sample == /\ counted /\ Key(b) \notin seenTools /\ Watched(b)
                /\ "fr-fusion1" \in lineOf[b.mark].features
  IN  /\ seenTools' = IF counted THEN seenTools \cup {Key(b)} ELSE seenTools
      /\ posTools' = IF sample THEN posTools \cup {Key(b)} ELSE posTools

(* Both programs or neither read the message, and its features. *)
Alike(b) ==
  /\ Reads1(b) <=> ReadsTools(b)
  /\ Reads1(b) => lineOf[b.mark].features \in {{}, Tags}

Behaviour(b) ==
  /\ n < MaxMessages /\ n' = n + 1
  /\ last' = b
  /\ apart' = IF Alike(b) THEN apart ELSE apart \cup {Key(b)}
  /\ NewBehaviour(b) /\ ToolsBehaviour(b)
  /\ UNCHANGED <<seen0, neg>>

Done == n = MaxMessages /\ UNCHANGED vars

Next ==
  \/ \E m \in Impressions : Impression(m)
  \/ \E b \in Behaviours : Behaviour(b)
  \/ Done

Spec == Init /\ [][Next]_vars

-----------------------------------------------------------------------------
(* The rewrite kept the label rules of the first model: of the behaviours  *)
(* whose messages the checks of the two programs (tag, sections, features) *)
(* treat alike, igLearner has label 1 for exactly those Parse_sample_1 of  *)
(* tools/learner.cpp accepted.  Repeats with other fields are included:    *)
(* the two programs count different messages in their repeat filters, and  *)
(* one tests the table, the filter and the fields around its filter, the   *)
(* other all of them behind it.                                            *)
ToolsAgree == posTools \ apart = pos["ig"] \ apart

(* The two streams agree for every learner: a positive sample belongs to   *)
(* an impression that, once it has been counted, before or after, is a     *)
(* negative one of the same learner; otherwise its rate would be biased.   *)
(* The one check of parse_sample_0 behind the count that parse_sample_1    *)
(* does not share is that of the section fraud (166); a line it refuses    *)
(* leaves its positives without a negative.                                *)
PositiveHasImpression ==
  \A l \in Learners : \A k \in pos[l] :
    k[1] \in seen0 /\ lineOf[k[1]].fraud => k[1] \in neg[l]

(* find_kv searches the whole text for the name of a field and falls back  *)
(* to all of it.  A field is still read from its own item, the first that  *)
(* has its name and a colon, or has its default, if no name or value in    *)
(* front of that item holds its name.  Without such an item none at all    *)
(* may hold it, nor may the extension be a text alone.                     *)
Own(s, key) == {i \in 1 .. Len(s) : s[i].name = key /\ s[i].colon}
Clear(s, key) ==
  /\ \A i \in 1 .. Len(s) :
       key \in s[i].of \cup s[i].in => \E j \in Own(s, key) : j <= i
  /\ Len(s) = 1 => s[1].colon

FieldsAreOwn ==
  LET own(s, key, default) ==
        LET mine == Subsequence(s, Own(s, key))
        IN  IF mine # <<>> THEN isUInt64(mine[1].text, default) ELSE default
  IN last # <<>> =>
       /\ Clear(last.ext, "play_duration") =>
            play_d(last) = own(last.ext, "play_duration", 3500)
       /\ Clear(last.ext, "isautoplay") => autoplay(last) = own(last.ext, "isautoplay", 0)
       /\ Clear(last.ext, "open_app") => openapp(last) = own(last.ext, "open_app", 3)
=============================================================================
