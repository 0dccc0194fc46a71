--------------------------- MODULE LabelsProofs -----------------------------
(***************************************************************************)
(* Proofs about Labels: the rewritten label rules accept the behaviours    *)
(* the older program accepted, the two streams of a learner agree, and     *)
(* find_kv reads the fields it is asked for.                               *)
(*                                                                         *)
(* The second half is about ToolsMerge, the batches of the older program.  *)
(***************************************************************************)
EXTENDS Labels, ToolsMerge, SeqFilterProofs, FiniteSetTheorems, TLAPS

Keys == Marks \X STRING \X STRING

TypeInv ==
  /\ seen0 \subseteq Marks /\ seen1 \subseteq Keys /\ seenTools \subseteq Keys
  /\ neg \in [Learners -> SUBSET Marks] /\ pos \in [Learners -> SUBSET Keys]
  /\ posTools \subseteq Keys /\ apart \subseteq Keys

(* What tools/learner.cpp counts in its repeat filter is the listed part   *)
(* of what Parser counts, where their checks agree.                        *)
ListedKey(key) == key[2] \in toolsTable /\ key[3] \in {"0", "10000"}
SeenInv == \A key \in Keys \ apart : key \in seenTools <=> key \in seen1 /\ ListedKey(key)

(* Every counted mark with a line the checks accept is a negative sample   *)
(* of the learners that take it, and every positive sample has a line that *)
(* all checks but that of fraud accept and a mark its learner takes.       *)
NegInv ==
  \A l \in Learners : \A m \in seen0 :
    Takes0(lineOf[m]) /\ CheckImp(l, m) = 0 => m \in neg[l]
Shared(line) ==
  line.ad = "full" /\ line.ranks /\ "sfst_rank_ocpx_v2" \in line.features
PosInv ==
  \A l \in Learners : \A key \in pos[l] : CheckImp(l, key[1]) = 0 /\ Shared(lineOf[key[1]])

(* The parts of the key of a behaviour. *)
LEMMA KeyParts ==
  ASSUME NEW b \in Behaviours
  PROVE  /\ Key(b) \in Keys /\ Key(b)[1] = b.mark
         /\ Key(b)[2] = b.code /\ Key(b)[3] = b.filter
<1>1. b \in BehaviourMsg
  BY LabelsAssumption
<1>2. b.mark \in Marks /\ b.code \in STRING /\ b.filter \in STRING
  BY <1>1 DEF BehaviourMsg
<1> QED
  BY <1>2 DEF Key, Keys

(* The types, at the start and over every step. *)
LEMMA TypeInit == Init => TypeInv
  BY DEF Init, TypeInv

LEMMA TypeStep == TypeInv /\ [Next]_vars => TypeInv'
<1> SUFFICES ASSUME TypeInv, [Next]_vars PROVE TypeInv'
  OBVIOUS
<1>1. CASE UNCHANGED vars
  BY <1>1 DEF TypeInv, vars
<1>2. ASSUME NEW m \in Impressions, Impression(m) PROVE TypeInv'
  <2>1. m.mark \in Marks
    BY LabelsAssumption DEF ImpressionMsg
  <2> QED
    BY <1>2, <2>1 DEF TypeInv, Impression
<1>3. ASSUME NEW b \in Behaviours, Behaviour(b) PROVE TypeInv'
  <2>1. Key(b) \in Keys
    BY KeyParts
  <2>2. pos' \in [Learners -> SUBSET Keys]
    BY <2>1, <1>3 DEF TypeInv, Behaviour, NewBehaviour
  <2>3. seen1' \subseteq Keys /\ seenTools' \subseteq Keys /\ posTools' \subseteq Keys
        /\ apart' \subseteq Keys
    BY <2>1, <1>3 DEF TypeInv, Behaviour, NewBehaviour, ToolsBehaviour
  <2> QED
    BY <2>2, <2>3, <1>3 DEF TypeInv, Behaviour
<1>4. CASE Done
  BY <1>4 DEF TypeInv, Done, vars
<1> QED
  BY <1>1, <1>2, <1>3, <1>4 DEF Next

-----------------------------------------------------------------------------
(* The table of igLearner lists what the table of tools/learner.cpp lists. *)
LEMMA SameTable == igTable = toolsTable
  BY DEF igTable, toolsTable

(* The rule of ig is the table the tools look up. *)
LEMMA SameRule ==
  ASSUME NEW b \in Behaviours
  PROVE  /\ CheckLabel("ig", b) = 1 <=> Listed(b) /\ Watched(b)
         /\ Listed(b) <=> ListedKey(Key(b))
<1>1. CheckLabel("ig", b) = 1 <=> ig(b)
  BY DEF CheckLabel
<1>2. Listed(b) <=> ListedKey(Key(b))
  BY KeyParts DEF Listed, ListedKey
<1> QED
  BY <1>1, <1>2, SameTable DEF ig, Listed

(* Where the checks agree, the samples of ig and those of the tools stay   *)
(* the same.                                                               *)
LEMMA AgreeStep ==
  TypeInv /\ SeenInv /\ ToolsAgree /\ [Next]_vars => SeenInv' /\ ToolsAgree'
<1> SUFFICES ASSUME TypeInv, SeenInv, ToolsAgree, [Next]_vars
             PROVE  SeenInv' /\ ToolsAgree'
  OBVIOUS
<1>1. CASE UNCHANGED vars
  BY <1>1 DEF SeenInv, ToolsAgree, vars
<1>2. ASSUME NEW m \in Impressions, Impression(m) PROVE SeenInv' /\ ToolsAgree'
  BY <1>2 DEF SeenInv, ToolsAgree, Impression
<1>3. ASSUME NEW b \in Behaviours, Behaviour(b) PROVE SeenInv' /\ ToolsAgree'
  <2> DEFINE key == Key(b)
             sample == /\ Reads1(b) /\ key \notin seen1
                       /\ "sfst_rank_ocpx_v2" \in lineOf[b.mark].features
             sampleTools == /\ ReadsTools(b) /\ Listed(b) /\ key \notin seenTools
                            /\ Watched(b) /\ "fr-fusion1" \in lineOf[b.mark].features
  <2>1. key \in Keys
    BY KeyParts
  <2>2. /\ seen1' = IF Reads1(b) THEN seen1 \cup {key} ELSE seen1
        /\ seenTools' = IF ReadsTools(b) /\ Listed(b) THEN seenTools \cup {key} ELSE seenTools
        /\ posTools' = IF sampleTools THEN posTools \cup {key} ELSE posTools
        /\ pos'["ig"] = IF sample /\ CheckLabel("ig", b) = 1
                        THEN pos["ig"] \cup {key} ELSE pos["ig"]
        /\ apart' = IF Alike(b) THEN apart ELSE apart \cup {key}
    BY <1>3 DEF Behaviour, NewBehaviour, ToolsBehaviour, Learners
  <2>3. CASE ~Alike(b)
    <3> HIDE DEF key, sample, sampleTools
    <3>1. SeenInv'
      BY <2>1, <2>2, <2>3 DEF SeenInv
    <3>2. ToolsAgree'
      BY <2>2, <2>3 DEF ToolsAgree
    <3> QED
      BY <3>1, <3>2
  <2>4. CASE Alike(b) /\ key \in apart
    <3> HIDE DEF key, sample, sampleTools
    <3>1. SeenInv'
      BY <2>1, <2>2, <2>4 DEF SeenInv
    <3>2. ToolsAgree'
      BY <2>2, <2>4 DEF ToolsAgree
    <3> QED
      BY <3>1, <3>2
  <2>5. CASE Alike(b) /\ key \notin apart
    <3>1. /\ Reads1(b) <=> ReadsTools(b)
          /\ Reads1(b) => ("fr-fusion1" \in lineOf[b.mark].features
                             <=> "sfst_rank_ocpx_v2" \in lineOf[b.mark].features)
      BY <2>5 DEF Alike, Tags
    <3>2. /\ Listed(b) <=> ListedKey(key)
          /\ CheckLabel("ig", b) = 1 <=> Listed(b) /\ Watched(b)
      BY SameRule
    <3>3. key \in seenTools <=> key \in seen1 /\ Listed(b)
      BY <2>1, <2>5, <3>2 DEF SeenInv
    <3>4. sampleTools <=> sample /\ CheckLabel("ig", b) = 1
      BY <3>1, <3>2, <3>3
    <3> HIDE DEF key, sample, sampleTools
    <3>5. SeenInv'
      BY <2>1, <2>2, <2>5, <3>1, <3>2 DEF SeenInv
    <3>6. ToolsAgree'
      BY <2>2, <2>5, <3>4 DEF ToolsAgree
    <3> QED
      BY <3>5, <3>6
  <2> QED
    BY <2>3, <2>4, <2>5
<1>4. CASE Done
  BY <1>4 DEF SeenInv, ToolsAgree, Done, vars
<1> QED
  BY <1>1, <1>2, <1>3, <1>4 DEF Next

(* Of the behaviours whose messages the checks of the two programs treat   *)
(* alike, igLearner (x_learner.cpp) gives label 1 to exactly those that    *)
(* Parse_sample_1 of tools/learner.cpp accepted, in any stream and with    *)
(* any other messages in between, although the older program leaves its    *)
(* table before it counts a message in its repeat filter and the new one   *)
(* counts first.                                                           *)
THEOREM RewriteKeepsLabels == Spec => []ToolsAgree
<1>1. Init => TypeInv /\ SeenInv /\ ToolsAgree
  BY TypeInit DEF Init, SeenInv, ToolsAgree, Learners
<1>2. (TypeInv /\ SeenInv /\ ToolsAgree) /\ [Next]_vars
        => (TypeInv /\ SeenInv /\ ToolsAgree)'
  BY TypeStep, AgreeStep
<1> QED
  BY <1>1, <1>2, PTL DEF Spec

-----------------------------------------------------------------------------
(* A learner that labels a behaviour takes the impressions of its mark. *)
LEMMA LabelImpliesTaken ==
  ASSUME NEW l \in Learners, NEW b \in Behaviours, CheckLabel(l, b) = 1
  PROVE  CheckImp(l, b.mark) = 0
  BY DEF CheckLabel, CheckImp, ivCPE

(* Both streams keep to it. *)
LEMMA StreamsStep ==
  TypeInv /\ NegInv /\ PosInv /\ [Next]_vars => NegInv' /\ PosInv'
<1> SUFFICES ASSUME TypeInv, NegInv, PosInv, [Next]_vars
             PROVE  NegInv' /\ PosInv'
  OBVIOUS
<1>1. CASE UNCHANGED vars
  BY <1>1 DEF NegInv, PosInv, vars
<1>2. ASSUME NEW msg \in Impressions, Impression(msg) PROVE NegInv' /\ PosInv'
  <2>1. ASSUME NEW l \in Learners, NEW m \in seen0', Takes0(lineOf[m]), CheckImp(l, m) = 0
        PROVE  m \in neg'[l]
    <3>1. neg'[l] = IF /\ Counts0(msg) /\ msg.mark \notin seen0 /\ Takes0(lineOf[msg.mark])
                       /\ CheckImp(l, msg.mark) = 0
                    THEN neg[l] \cup {msg.mark} ELSE neg[l]
      BY <1>2, <2>1 DEF Impression
    <3>2. m \in seen0 \/ (Counts0(msg) /\ m = msg.mark /\ m \notin seen0)
      BY <1>2, <2>1 DEF Impression
    <3>3. m \in seen0 => m \in neg[l]
      BY <2>1 DEF NegInv
    <3> QED
      BY <2>1, <3>1, <3>2, <3>3
  <2>2. PosInv'
    BY <1>2 DEF PosInv, Impression
  <2> QED
    BY <2>1, <2>2 DEF NegInv, CheckImp
<1>3. ASSUME NEW b \in Behaviours, Behaviour(b) PROVE NegInv' /\ PosInv'
  <2>1. NegInv'
    BY <1>3 DEF NegInv, Behaviour
  <2>2. ASSUME NEW l \in Learners, NEW key \in pos'[l]
        PROVE  CheckImp(l, key[1]) = 0 /\ Shared(lineOf[key[1]])
    <3>1. key \in pos[l]
          \/ (key = Key(b) /\ Reads1(b) /\ CheckLabel(l, b) = 1
              /\ "sfst_rank_ocpx_v2" \in lineOf[b.mark].features)
      BY <1>3, <2>2 DEF Behaviour, NewBehaviour
    <3>2. CASE key \in pos[l]
      BY <3>2 DEF PosInv
    <3>3. CASE key = Key(b) /\ Reads1(b) /\ CheckLabel(l, b) = 1
               /\ "sfst_rank_ocpx_v2" \in lineOf[b.mark].features
      <4>1. key[1] = b.mark
        BY <3>3, KeyParts
      <4> QED
        BY <3>3, <4>1, LabelImpliesTaken DEF Reads1, Shared
    <3> QED
      BY <3>1, <3>2, <3>3
  <2> QED
    BY <2>1, <2>2 DEF PosInv, CheckImp
<1>4. CASE Done
  BY <1>4 DEF NegInv, PosInv, Done, vars
<1> QED
  BY <1>1, <1>2, <1>3, <1>4 DEF Next

(* For every learner of x_learner.cpp, a positive sample has a negative    *)
(* one as soon as its impression has been counted, unless the section      *)
(* fraud of the line is too short: no rule of CheckLabel accepts a mark    *)
(* whose impression CheckImp refuses, the other checks behind the count    *)
(* are passed by the line of the positive sample, and the repeat filter of *)
(* parse_sample_0 drops no first message.                                  *)
THEOREM StreamsAgree == Spec => []PositiveHasImpression
<1>1. Init => TypeInv /\ NegInv /\ PosInv
  BY TypeInit DEF Init, NegInv, PosInv
<1>2. (TypeInv /\ NegInv /\ PosInv) /\ [Next]_vars => (TypeInv /\ NegInv /\ PosInv)'
  BY TypeStep, StreamsStep
<1>3. TypeInv /\ NegInv /\ PosInv => PositiveHasImpression
  BY DEF NegInv, PosInv, PositiveHasImpression, Shared, Takes0
<1> QED
  BY <1>1, <1>2, <1>3, PTL DEF Spec

-----------------------------------------------------------------------------
(* A least element is the minimum. *)
LEMMA LeastIsMin ==
  ASSUME NEW T \in SUBSET Nat, NEW x \in T, \A y \in T : x <= y
  PROVE  Min(T) = x
<1>1. Min(T) \in T /\ \A y \in T : Min(T) <= y
  BY DEF Min
<1>2. Min(T) <= x /\ x <= Min(T) /\ Min(T) \in Nat /\ x \in Nat
  BY <1>1
<1> QED
  BY <1>2

(* The first item of a subsequence is the one at its lowest position. *)
LEMMA FirstOfSubsequence ==
  ASSUME NEW E, NEW s \in Seq(E), NEW I \in SUBSET (1 .. Len(s))
  PROVE  /\ I = {} => Subsequence(s, I) = <<>>
         /\ I # {} => Subsequence(s, I) # <<>> /\ Subsequence(s, I)[1] = s[Min(I)]
<1> DEFINE r == Subsequence(s, I)
<1>1. r \in Seq(E) /\ \E h : Lists(h, r, s, I)
  BY SubsequenceLists
<1> HIDE DEF r
<1>2. PICK h : Lists(h, r, s, I)
  BY <1>1
<1>3. Len(r) \in Nat /\ \A i \in 1 .. Len(r) : h[i] \in I
  BY <1>1, <1>2 DEF Lists
<1>4. ASSUME I = {} PROVE r = <<>>
  <2>1. Len(r) = 0
    BY <1>3, <1>4
  <2> QED
    BY <1>1, <2>1
<1>5. ASSUME I # {} PROVE r # <<>> /\ r[1] = s[Min(I)]
  <2>1. 1 \in 1 .. Len(r)
    <3>1. PICK x \in I : TRUE
      BY <1>5
    <3>2. PICK i \in 1 .. Len(r) : h[i] = x
      BY <1>2 DEF Lists
    <3> QED
      BY <1>3, <3>2
  <2>2. \A x \in I : h[1] <= x
    <3> SUFFICES ASSUME NEW x \in I PROVE h[1] <= x
      OBVIOUS
    <3>1. PICK i \in 1 .. Len(r) : h[i] = x
      BY <1>2 DEF Lists
    <3>2. CASE i = 1
      <4>1. x \in Nat
        OBVIOUS
      <4> QED
        BY <3>1, <3>2, <4>1
    <3>3. CASE 1 < i
      <4>1. h[1] < h[i]
        <5>1. \A m, k \in 1 .. Len(r) : m < k => h[m] < h[k]
          BY <1>2 DEF Lists
        <5> QED
          BY <2>1, <3>1, <3>3, <5>1
      <4>2. h[1] \in I /\ h[i] \in I
        BY <1>3, <2>1, <3>1
      <4>3. h[1] \in Nat /\ h[i] \in Nat
        <5>1. \A m \in I : m \in Nat
          OBVIOUS
        <5> QED
          BY <4>2, <5>1
      <4> QED
        BY <3>1, <4>1, <4>3
    <3> QED
      BY <3>2, <3>3
  <2>3. Min(I) = h[1]
    <3>1. I \in SUBSET Nat /\ h[1] \in I
      BY <1>3, <2>1
    <3> QED
      BY <2>2, <3>1, LeastIsMin
  <2>4. r[1] = s[h[1]]
    BY <1>2, <2>1 DEF Lists
  <2>5. r # <<>>
    BY <2>1
  <2> QED
    BY <2>3, <2>4, <2>5
<1> QED
  BY <1>4, <1>5 DEF r

(* Where no other name or value in front holds the name, find_kv returns   *)
(* the text of the first item of a field, and without one no number.       *)
LEMMA FindsOwn ==
  ASSUME NEW s \in Seq(Items), NEW key, Clear(s, key),
         \A i \in 1 .. Len(s) : s[i].name = key => key \in s[i].of
  PROVE  LET mine == Subsequence(s, Own(s, key))
         IN  /\ mine # <<>> => find_kv(s, key) = mine[1].text
             /\ mine = <<>> => find_kv(s, key).kind # "number"
<1> DEFINE I == Own(s, key)
           holding == {i \in DOMAIN s : key \in s[i].of \cup s[i].in}
           colons == {i \in DOMAIN s : /\ s[i].colon
                                       /\ \/ i > Min(holding)
                                          \/ i = Min(holding) /\ key \in s[i].of}
<1>1. Len(s) \in Nat /\ DOMAIN s = 1 .. Len(s) /\ I \in SUBSET (1 .. Len(s))
  BY DEF Own
<1>2. find_kv(s, key) = IF holding = {} \/ colons = {} THEN Whole(s) ELSE s[Min(colons)].text
  BY DEF find_kv
<1>3. CASE I = {}
  <2>1. holding = {}
    BY <1>1, <1>3 DEF Clear
  <2>2. find_kv(s, key) = Whole(s)
    BY <1>2, <2>1
  <2>3. Whole(s).kind # "number"
    BY DEF Clear, Whole, Empty, Other
  <2>4. Subsequence(s, I) = <<>>
    BY <1>1, <1>3, FirstOfSubsequence
  <2> QED
    BY <2>2, <2>3, <2>4
<1>4. CASE I # {}
  <2>1. Subsequence(s, I) # <<>> /\ Subsequence(s, I)[1] = s[Min(I)]
    BY <1>1, <1>4, FirstOfSubsequence
  <2> DEFINE m == Min(I)
  <2>2. m \in I /\ \A i \in I : m <= i
    <3>1. I \in SUBSET Nat
      BY <1>1
    <3>2. PICK x \in I : \A y \in I : x <= y
      <4> HIDE DEF I
      <4> QED
        BY <1>4, <3>1, LeastNat
    <3> HIDE DEF I
    <3> QED
      BY <3>1, <3>2, LeastIsMin
  <2> HIDE DEF m
  <2>3. m \in 1 .. Len(s) /\ s[m].name = key /\ s[m].colon /\ key \in s[m].of
    BY <2>2 DEF Own
  <2>4. Min(holding) = m
    <3>1. holding \in SUBSET Nat /\ m \in holding
      BY <1>1, <2>3
    <3>2. ASSUME NEW i \in holding PROVE m <= i
      <4>1. i \in 1 .. Len(s) /\ key \in s[i].of \cup s[i].in
        BY <1>1
      <4>2. PICK k \in I : k <= i
        BY <4>1 DEF Clear
      <4>3. m <= k /\ k \in 1 .. Len(s)
        BY <1>1, <2>2
      <4> QED
        BY <2>3, <4>1, <4>2, <4>3
    <3> HIDE DEF holding
    <3> QED
      BY <3>1, <3>2, LeastIsMin
  <2>5. m \in colons /\ colons \in SUBSET Nat /\ \A y \in colons : m <= y
    <3> HIDE DEF holding
    <3> QED
      BY <1>1, <2>3, <2>4
  <2>6. Min(colons) = m
    <3> HIDE DEF colons
    <3> QED
      BY <2>5, LeastIsMin
  <2>7. holding # {} /\ colons # {}
    <3>1. m \in holding
      BY <1>1, <2>3
    <3> HIDE DEF colons, holding
    <3> QED
      BY <2>5, <3>1
  <2>8. find_kv(s, key) = s[m].text
    <3> HIDE DEF colons, holding
    <3> QED
      BY <1>2, <2>6, <2>7
  <2> QED
    BY <2>1, <2>8 DEF m
<1> QED
  BY <1>3, <1>4

LastInv == last = <<>> \/ last \in Behaviours

(* For every extension in which no name or value in front of the item of a *)
(* field holds its name, find_kv with isUInt64 (string_util.h 77-105)      *)
(* gives the field the number of its own first item, or its default.       *)
THEOREM FieldsReadOwn == Spec => []FieldsAreOwn
<1>1. Init => LastInv
  BY DEF Init, LastInv
<1>2. LastInv /\ [Next]_vars => LastInv'
  BY DEF LastInv, Next, Impression, Behaviour, Done, vars
<1>3. LastInv => FieldsAreOwn
  <2> SUFFICES ASSUME last \in Behaviours PROVE FieldsAreOwn
    BY DEF LastInv, FieldsAreOwn
  <2>1. last.ext \in Seq(Items)
        /\ \A i \in 1 .. Len(last.ext) :
             last.ext[i].name \in Fields => last.ext[i].name \in last.ext[i].of
    BY LabelsAssumption DEF BehaviourMsg
  <2> DEFINE mine(key) == Subsequence(last.ext, Own(last.ext, key))
             own(key, default) == IF mine(key) # <<>> THEN isUInt64(mine(key)[1].text, default)
                                  ELSE default
  <2>2. ASSUME NEW key \in Fields, NEW default, Clear(last.ext, key)
        PROVE  isUInt64(find_kv(last.ext, key), default) = own(key, default)
    <3>1. /\ mine(key) # <<>> => find_kv(last.ext, key) = mine(key)[1].text
          /\ mine(key) = <<>> => find_kv(last.ext, key).kind # "number"
      BY <2>1, <2>2, FindsOwn
    <3> HIDE DEF mine
    <3>2. CASE mine(key) # <<>>
      BY <3>1, <3>2
    <3>3. CASE mine(key) = <<>>
      BY <3>1, <3>3 DEF isUInt64
    <3> QED
      BY <3>2, <3>3
  <2>3. Clear(last.ext, "play_duration") => play_d(last) = own("play_duration", 3500)
    BY <2>2 DEF play_d, Fields
  <2>4. Clear(last.ext, "isautoplay") => autoplay(last) = own("isautoplay", 0)
    BY <2>2 DEF autoplay, Fields
  <2>5. Clear(last.ext, "open_app") => openapp(last) = own("open_app", 3)
    BY <2>2 DEF openapp, Fields
  <2> QED
    BY <2>3, <2>4, <2>5, Zenon DEF FieldsAreOwn
<1> QED
  BY <1>1, <1>2, <1>3, PTL DEF Spec

-----------------------------------------------------------------------------
(* Merge of the older program.                                             *)
(* The slot the impression thread found free is still inside sample_0 when *)
(* it advances _idx_0, and the flag is down from the lock to the unlock.   *)
Types ==
  /\ sample_0 \in [1 .. Cap0 + Cap1 -> Imps \cup {None}]
  /\ imsg \in Imps \cup {None} /\ handed \subseteq Imps \cup {None}
  /\ idx_0 \in 0 .. Cap0 /\ idx_1 = 0
  /\ ireg \in Nat /\ cntl_0 \in Nat /\ flushes \in Nat
  /\ ipc \in {"wait2", "load"} => idx_0 < Cap0
  /\ ipc = "store" => ireg < Cap0
  /\ bpc \in {"copy", "tasks", "spin", "clear", "unlock"} => mutex_flag = FALSE

(* The types, at the start and over every step. *)
LEMMA TypesInit == MergeInit => Types
BY ToolsAssumption DEF MergeInit, Types

LEMMA TypesStep == Types /\ [MergeNext]_mergeVars => Types'
<1> SUFFICES ASSUME Types, [MergeNext]_mergeVars PROVE Types'
  OBVIOUS
<1> USE ToolsAssumption
        DEF Types, mem, idx, cntl, seen, imp, lws, hist
<1>1. ASSUME NEW m \in Imps, ImpRecv(m) PROVE Types'
  BY <1>1 DEF ImpRecv
<1>2. ASSUME NEW m \in Bhvs, BhvRecv(m) PROVE Types'
  BY <1>2 DEF BhvRecv
<1>3. CASE Imp
  <2>1. CASE ImpWait("wait", "slot") \/ ImpWait("wait2", "load") \/ ImpFull
    BY <2>1 DEF ImpWait, ImpFull
  <2>2. CASE ImpSlot
    BY <2>2 DEF ImpSlot
  <2>3. CASE ImpLoad("load", idx_0, "store") \/ ImpLoad("count", cntl_0, "counted")
    BY <2>3 DEF ImpLoad
  <2>4. CASE ImpStoreIdx \/ ImpStoreCount
    BY <2>4 DEF ImpStoreIdx, ImpAdvance, ImpStoreCount
  <2> QED
    BY <1>3, <2>1, <2>2, <2>3, <2>4 DEF Imp
<1>4. CASE Bhv
  <2>1. CASE BhvReset \/ BhvLock \/ BhvSpin \/ BhvClear \/ BhvUnlock
    BY <2>1 DEF BhvReset, BhvLock, BhvSpin, BhvClear, BhvUnlock
  <2>2. CASE BhvCopy
    BY <2>2 DEF BhvCopy
  <2>3. CASE BhvTasks
    BY <2>3 DEF BhvTasks
  <2> QED
    BY <1>4, <2>1, <2>2, <2>3 DEF Bhv
<1>5. ASSUME NEW w \in Workers, RunStart(w) \/ RunEnd(w) PROVE Types'
  BY <1>5 DEF RunStart, RunEnd
<1>6. CASE UNCHANGED mergeVars
  BY <1>6 DEF mergeVars
<1> QED
  BY <1>1, <1>2, <1>3, <1>4, <1>5, <1>6 DEF MergeNext

-----------------------------------------------------------------------------
(* What a flush may cost.  Lost is what the property counts.  A flush is   *)
(* charged when the tasks are made, and pays for one impression: the one   *)
(* counted between that and the clearing of _idx_0, or else the one in the *)
(* hands of the impression thread, which then is counted in another slot   *)
(* than it was written to (Doomed).  The two exclude each other because    *)
(* the thread polls mutex_flag before the slot and before _idx_0++.        *)
Lost == stored \ (handed \cup Counted \cup InHand)

Doomed ==
  \/ ipc \in {"wait2", "load"} /\ sample_0[idx_0 + 1] # imsg
  \/ ipc = "store" /\ sample_0[ireg + 1] # imsg

Clearing == bpc \in {"spin", "clear"}
Debt == (IF Doomed THEN 1 ELSE 0) + (IF Clearing THEN 1 ELSE 0)
Budget == Cardinality(Lost) + Debt <= flushes

HandedInv ==
  Clearing => \/ Counted \subseteq handed
              \/ /\ ipc \in {"count", "counted", "recv", "wait"}
                 /\ \E x : Counted \subseteq handed \cup {x}

StoreInv ==
  ipc = "store" => \/ idx_0 = ireg
                   \/ idx_0 = 0 /\ \A i \in 1 .. ireg : sample_0[i] \in handed

LossInv == IsFiniteSet(stored) /\ HandedInv /\ StoreInv /\ Budget

(* What is lost can be counted. *)
LEMMA LostFinite ==
  ASSUME IsFiniteSet(stored)
  PROVE  IsFiniteSet(Lost) /\ Cardinality(Lost) \in Nat
<1>1. IsFiniteSet(Lost)
  BY FS_Subset DEF Lost
<1> QED
  BY <1>1, FS_CardinalityType

(* A set that gets at most one new element. *)
LEMMA GrowsByOne ==
  ASSUME NEW S, IsFiniteSet(S), NEW x, NEW T, T \subseteq S \cup {x}
  PROVE  Cardinality(T) \in Nat /\ Cardinality(T) <= Cardinality(S) + 1
<1>1. /\ IsFiniteSet(S \cup {x})
      /\ Cardinality(S \cup {x}) = IF x \in S THEN Cardinality(S) ELSE Cardinality(S) + 1
  BY FS_AddElement
<1>2. IsFiniteSet(T) /\ Cardinality(T) <= Cardinality(S \cup {x})
  BY <1>1, FS_Subset
<1>3. Cardinality(T) \in Nat /\ Cardinality(S) \in Nat
  BY <1>2, FS_CardinalityType
<1> QED
  BY <1>1, <1>2, <1>3

(* A step that loses nothing keeps to the budget. *)
LEMMA NothingLost ==
  ASSUME Types, Types', LossInv, Lost' \subseteq Lost, Debt' - Debt <= flushes' - flushes
  PROVE  Budget'
<1>1. ASSUME NEW c \in Nat, NEW c1 \in Nat, NEW d \in Nat, NEW d1 \in Nat,
             NEW f \in Nat, NEW f1 \in Nat, c + d <= f, c1 <= c, d1 - d <= f1 - f
      PROVE  c1 + d1 <= f1
  BY <1>1
<1>2. IsFiniteSet(Lost) /\ Cardinality(Lost) \in Nat
  BY LostFinite DEF LossInv
<1>3. Cardinality(Lost') <= Cardinality(Lost) /\ Cardinality(Lost') \in Nat
  BY <1>2, FS_Subset, FS_CardinalityType
<1>4. Debt \in Nat /\ Debt' \in Nat /\ flushes \in Nat /\ flushes' \in Nat
  BY DEF Debt, Types
<1>5. Cardinality(Lost) + Debt <= flushes
  BY DEF LossInv, Budget
<1>6. Cardinality(Lost') + Debt' <= flushes'
  BY <1>1, <1>2, <1>3, <1>4, <1>5
<1> QED
  BY <1>6 DEF Budget

(* A step that loses one pays with a debt. *)
LEMMA OneLost ==
  ASSUME Types, Types', LossInv, NEW x, Lost' \subseteq Lost \cup {x}, Debt' + 1 <= Debt,
         UNCHANGED flushes
  PROVE  Budget'
<1>1. ASSUME NEW c \in Nat, NEW c1 \in Nat, NEW d \in Nat, NEW d1 \in Nat,
             NEW f \in Nat, c + d <= f, c1 <= c + 1, d1 + 1 <= d
      PROVE  c1 + d1 <= f
  BY <1>1
<1>2. IsFiniteSet(Lost) /\ Cardinality(Lost) \in Nat
  BY LostFinite DEF LossInv
<1>3. Cardinality(Lost') <= Cardinality(Lost) + 1 /\ Cardinality(Lost') \in Nat
  BY <1>2, GrowsByOne
<1>4. Debt \in Nat /\ Debt' \in Nat /\ flushes \in Nat
  BY DEF Debt, Types
<1>5. Cardinality(Lost) + Debt <= flushes
  BY DEF LossInv, Budget
<1>6. Cardinality(Lost') + Debt' <= flushes
  BY <1>1, <1>2, <1>3, <1>4, <1>5
<1> QED
  BY <1>6 DEF Budget

(* Steps that leave the buffer and what was handed over alone. *)
LEMMA LossFrame ==
  ASSUME Types, Types', LossInv, UNCHANGED <<sample_0, idx_0, stored, handed, flushes>>,
         Lost' \subseteq Lost, HandedInv', StoreInv', Doomed' => Doomed,
         Clearing' => Clearing
  PROVE  LossInv'
<1>1. Debt' - Debt <= flushes' - flushes
  BY DEF Debt, Types
<1> QED
  BY <1>1, NothingLost DEF LossInv

LEMMA LossInit == MergeInit => LossInv
<1> SUFFICES ASSUME MergeInit PROVE LossInv
  OBVIOUS
<1>1. stored = {} /\ Lost = {}
  BY DEF MergeInit, Lost
<1>2. Debt = 0 /\ flushes = 0 /\ HandedInv /\ StoreInv
  BY DEF MergeInit, Debt, Doomed, Clearing, HandedInv, StoreInv
<1> QED
  BY <1>1, <1>2, FS_EmptySet DEF LossInv, Budget

LEMMA LossImpStep == Types /\ Types' /\ LossInv /\ Imp => LossInv'
<1> SUFFICES ASSUME Types, Types', LossInv, Imp PROVE LossInv'
  OBVIOUS
<1> USE ToolsAssumption DEF mem, idx, cntl, seen, imp, lws, hist
<1>1. CASE ImpWait("wait", "slot") \/ ImpFull
  <2>1. /\ UNCHANGED <<sample_0, idx_0, stored, handed, flushes>>
        /\ Lost' \subseteq Lost /\ HandedInv' /\ StoreInv' /\ ~Doomed'
        /\ Clearing' => Clearing
    BY <1>1 DEF ImpWait, ImpFull, Types, LossInv, Lost, Counted, InHand, HandedInv,
                StoreInv, Doomed, Clearing
  <2> QED
    BY <2>1, LossFrame
<1>2. CASE ImpWait("wait2", "load")
  <2>1. /\ UNCHANGED <<sample_0, idx_0, stored, handed, flushes>>
        /\ Lost' \subseteq Lost /\ HandedInv' /\ StoreInv' /\ (Doomed' => Doomed)
        /\ Clearing' => Clearing
    BY <1>2 DEF ImpWait, LossInv, Lost, Counted, InHand, HandedInv, StoreInv, Doomed,
                Clearing
  <2> QED
    BY <2>1, LossFrame
<1>3. CASE ImpSlot
  <2>1. \A i \in 1 .. idx_0 : sample_0'[i] = sample_0[i]
    BY <1>3 DEF ImpSlot, Types
  <2>2. sample_0'[idx_0 + 1] = imsg /\ UNCHANGED <<imsg, idx_0, bpc, handed, flushes>>
        /\ ipc = "slot" /\ ipc' = "wait2" /\ stored' = stored \cup {imsg}
    BY <1>3 DEF ImpSlot, Types
  <2>3. Counted' = Counted
    BY <2>1, <2>2 DEF Counted
  <2>4. Lost' \subseteq Lost
    BY <2>2, <2>3 DEF Lost, InHand
  <2>5. Debt' - Debt <= flushes' - flushes
    BY <2>2 DEF Debt, Doomed, Clearing, Types
  <2>6. HandedInv' /\ StoreInv'
    BY <2>2, <2>3 DEF LossInv, HandedInv, StoreInv, Clearing
  <2>7. IsFiniteSet(stored')
    BY <2>2, FS_AddElement DEF LossInv
  <2> QED
    BY <2>4, <2>5, <2>6, <2>7, NothingLost DEF LossInv
<1>4. CASE ImpLoad("load", idx_0, "store")
  <2>1. /\ UNCHANGED <<sample_0, idx_0, stored, handed, flushes>>
        /\ Lost' \subseteq Lost /\ HandedInv' /\ StoreInv' /\ (Doomed' => Doomed)
        /\ Clearing' => Clearing
    BY <1>4 DEF ImpLoad, LossInv, Lost, Counted, InHand, HandedInv, StoreInv, Doomed,
                Clearing
  <2> QED
    BY <2>1, LossFrame
<1>5. CASE ImpStoreIdx
  <2>1. /\ idx_0' = ireg + 1 /\ ipc = "store" /\ ipc' = "count" /\ ireg \in Nat
        /\ UNCHANGED <<sample_0, bpc, handed, stored, flushes>>
    BY <1>5 DEF ImpStoreIdx, ImpAdvance, Types
  <2>2. Counted' = {sample_0[i] : i \in 1 .. ireg} \cup {sample_0[ireg + 1]}
    <3>1. Counted' = {sample_0[i] : i \in 1 .. ireg + 1}
      BY <2>1 DEF Counted
    <3>2. \A i : i \in 1 .. ireg + 1 <=> i \in 1 .. ireg \/ i = ireg + 1
      BY <2>1
    <3> QED
      BY <3>1, <3>2
  <2>3. \/ Counted = {sample_0[i] : i \in 1 .. ireg}
        \/ Counted = {} /\ {sample_0[i] : i \in 1 .. ireg} \subseteq handed
    BY <2>1 DEF LossInv, StoreInv, Counted
  <2>4. HandedInv'
    <3>1. Clearing => Counted' \subseteq handed \cup {sample_0[ireg + 1]}
      BY <2>1, <2>2, <2>3 DEF LossInv, HandedInv
    <3> QED
      BY <2>1, <3>1 DEF HandedInv, Clearing
  <2>5. StoreInv' /\ IsFiniteSet(stored')
    BY <2>1 DEF StoreInv, LossInv
  <2>6. CASE Doomed
    <3>1. Lost' \subseteq Lost \cup {imsg}
      BY <2>1, <2>2, <2>3 DEF Lost, InHand
    <3>2. Debt' + 1 <= Debt
      BY <2>1, <2>6 DEF Debt, Doomed, Clearing
    <3> QED
      BY <2>1, <2>4, <2>5, <3>1, <3>2, OneLost DEF LossInv
  <2>7. CASE ~Doomed
    <3>1. sample_0[ireg + 1] = imsg
      BY <2>1, <2>7 DEF Doomed
    <3>2. Lost' \subseteq Lost
      BY <2>1, <2>2, <2>3, <3>1 DEF Lost, InHand
    <3>3. Debt' - Debt <= flushes' - flushes
      BY <2>1 DEF Debt, Doomed, Clearing, Types
    <3> QED
      BY <2>4, <2>5, <3>2, <3>3, NothingLost DEF LossInv
  <2> QED
    BY <2>6, <2>7
<1>6. CASE ImpLoad("count", cntl_0, "counted") \/ ImpStoreCount
  <2>1. /\ UNCHANGED <<sample_0, idx_0, stored, handed, flushes>>
        /\ Lost' \subseteq Lost /\ HandedInv' /\ StoreInv' /\ ~Doomed'
        /\ Clearing' => Clearing
    BY <1>6 DEF ImpLoad, ImpStoreCount, LossInv, Lost, Counted, InHand, HandedInv,
                StoreInv, Doomed, Clearing
  <2> QED
    BY <2>1, LossFrame
<1> QED
  BY <1>1, <1>2, <1>3, <1>4, <1>5, <1>6 DEF Imp

LEMMA LossBhvStep == Types /\ Types' /\ LossInv /\ Bhv => LossInv'
<1> SUFFICES ASSUME Types, Types', LossInv, Bhv PROVE LossInv'
  OBVIOUS
<1> USE ToolsAssumption DEF mem, idx, cntl, seen, imp, lws, hist
<1>1. CASE BhvReset \/ BhvLock \/ BhvSpin \/ BhvUnlock
  <2>1. /\ UNCHANGED <<sample_0, idx_0, stored, handed, flushes, ipc, imsg, ireg>>
        /\ Clearing' => Clearing
    BY <1>1 DEF BhvReset, BhvLock, BhvSpin, BhvUnlock, Clearing
  <2>2. /\ Lost' \subseteq Lost /\ HandedInv' /\ StoreInv' /\ (Doomed' => Doomed)
    BY <2>1 DEF LossInv, Lost, Counted, InHand, HandedInv, StoreInv, Doomed
  <2> QED
    BY <2>1, <2>2, LossFrame
<1>2. CASE BhvCopy
  <2>1. sample_0' = sample_0
    BY <1>2 DEF BhvCopy, Types
  <2>2. UNCHANGED <<idx_0, stored, handed, flushes, ipc, imsg, ireg>> /\ ~Clearing'
    BY <1>2 DEF BhvCopy, Clearing
  <2>3. /\ Lost' \subseteq Lost /\ HandedInv' /\ StoreInv' /\ (Doomed' => Doomed)
    BY <2>1, <2>2 DEF LossInv, Lost, Counted, InHand, HandedInv, StoreInv, Doomed
  <2> QED
    BY <2>1, <2>2, <2>3, LossFrame
<1>3. CASE BhvTasks
  <2>1. /\ UNCHANGED <<sample_0, idx_0, stored, ipc, imsg, ireg>>
        /\ handed' = handed \cup {sample_0[i] : i \in 1 .. idx_0 + idx_1}
        /\ flushes' = flushes + 1 /\ ~Clearing /\ Clearing'
    BY <1>3 DEF BhvTasks, Clearing
  <2>2. handed' = handed \cup Counted /\ Counted' = Counted
    <3>1. idx_0 + idx_1 = idx_0
      BY DEF Types
    <3> QED
      BY <2>1, <3>1 DEF Counted
  <2>3. Lost' \subseteq Lost /\ HandedInv' /\ StoreInv'
    BY <2>1, <2>2 DEF LossInv, Lost, InHand, HandedInv, StoreInv
  <2>4. Debt' - Debt <= flushes' - flushes
    BY <2>1 DEF Debt, Doomed, Types
  <2> QED
    BY <2>1, <2>3, <2>4, NothingLost DEF LossInv
<1>4. CASE BhvClear
  <2>1. /\ UNCHANGED <<sample_0, stored, handed, flushes, ipc, imsg, ireg>>
        /\ idx_0' = 0 /\ Clearing /\ ~Clearing'
    BY <1>4 DEF BhvClear, Clearing
  <2>2. HandedInv' /\ IsFiniteSet(stored')
    BY <2>1 DEF HandedInv, LossInv
  <2>3. CASE Counted \subseteq handed
    <3>1. StoreInv'
      BY <2>1, <2>3 DEF LossInv, StoreInv, Counted
    <3>2. Lost' \subseteq Lost
      BY <2>1, <2>3 DEF Lost, InHand
    <3>3. Debt' - Debt <= flushes' - flushes
      BY <2>1 DEF Debt, Types
    <3> QED
      BY <2>2, <3>1, <3>2, <3>3, NothingLost DEF LossInv
  <2>4. ASSUME NEW x, Counted \subseteq handed \cup {x},
               ipc \in {"count", "counted", "recv", "wait"}
        PROVE  LossInv'
    <3>1. StoreInv' /\ ~Doomed' /\ ~Doomed
      BY <2>1, <2>4 DEF StoreInv, Doomed
    <3>2. Lost' \subseteq Lost \cup {x}
      BY <2>1, <2>4 DEF Lost, InHand
    <3>3. Debt' + 1 <= Debt
      BY <2>1, <3>1 DEF Debt
    <3> QED
      BY <2>1, <2>2, <3>1, <3>2, <3>3, OneLost DEF LossInv
  <2> QED
    BY <2>1, <2>3, <2>4 DEF LossInv, HandedInv
<1> QED
  BY <1>1, <1>2, <1>3, <1>4 DEF Bhv

LEMMA LossStep == Types /\ LossInv /\ [MergeNext]_mergeVars => LossInv'
<1> SUFFICES ASSUME Types, LossInv, [MergeNext]_mergeVars PROVE LossInv'
  OBVIOUS
<1>1. Types'
  BY TypesStep
<1>2. ASSUME \/ \E m \in Imps : ImpRecv(m)
             \/ \E m \in Bhvs : BhvRecv(m)
             \/ \E w \in Workers : RunStart(w) \/ RunEnd(w)
             \/ UNCHANGED mergeVars
      PROVE  LossInv'
  <2> USE DEF mem, idx, cntl, seen, imp, lws, hist
  <2>1. /\ UNCHANGED <<sample_0, idx_0, stored, handed, flushes>>
        /\ Clearing' => Clearing
        /\ UNCHANGED <<ipc, imsg, ireg>> \/ (ipc = "recv" /\ ipc' = "wait")
    BY <1>2 DEF ImpRecv, BhvRecv, RunStart, RunEnd, mergeVars, Clearing
  <2>2. /\ Lost' \subseteq Lost /\ HandedInv' /\ StoreInv' /\ (Doomed' => Doomed)
    BY <2>1 DEF LossInv, Lost, Counted, InHand, HandedInv, StoreInv, Doomed
  <2> QED
    BY <1>1, <2>1, <2>2, LossFrame
<1> QED
  BY <1>1, <1>2, LossImpStep, LossBhvStep DEF MergeNext

(* Every impression the older program stores is handed to the workers but  *)
(* for at most one per flush: the price of testing mutex_flag before the   *)
(* slot and again before _idx_0++, for any number of flushes and messages. *)
THEOREM FlushLosesAtMostOne == MergeSpec => []LostAtMostOnePerFlush
<1>1. Types /\ LossInv => LostAtMostOnePerFlush
  <2> SUFFICES ASSUME Types, LossInv PROVE LostAtMostOnePerFlush
    OBVIOUS
  <2>1. Cardinality(Lost) \in Nat /\ Debt \in Nat
    BY LostFinite DEF LossInv, Debt
  <2> QED
    BY <2>1 DEF LossInv, Budget, Types, Lost, LostAtMostOnePerFlush
<1> QED
  BY <1>1, TypesInit, TypesStep, LossInit, LossStep, PTL DEF MergeSpec
=============================================================================
