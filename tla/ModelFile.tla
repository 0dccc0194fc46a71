----------------------------- MODULE ModelFile ------------------------------
(***************************************************************************)
(* The model file: the saver thread of a server, PSS::SyncToRedis          *)
(* (src/src/core/ps_server.cpp), writes the weights that requests change   *)
(* at the same time to a file named by hour and minute, and                *)
(* Learner::LoadModel (src/src/core/learner.cpp) reads such a file.        *)
(*                                                                         *)
(* A line is [fields, key, val, ok]: how many parts commas make of it, and *)
(* whether its last number is the one written or was cut or run together   *)
(* with another.  A weight counts parts of the eighth decimal, Unit of     *)
(* them to one.                                                            *)
(***************************************************************************)
EXTENDS Integers, FiniteSetsExt, SeqFilter

CONSTANTS
  MaxKey,        \* the greatest ps::Key
  RequestKeys,   \* key sequences of a pull or of a push of weights; each has 0
  Weights,       \* weights a request may set
  Unit,          \* parts of a weight to the eighth decimal (odd: no ties)
  MaxLines,      \* 10000000 in the code
  Day,           \* minutes of a day
  save_frequence,
  MaxClock, MaxCrashes, MaxRequests, MaxSaves   \* bounds

ASSUME ModelFileAssumption ==
  /\ Unit \in Nat /\ Unit % 2 = 1 /\ MaxLines \in Nat /\ Day \in Nat \ {0}
  /\ save_frequence \in Nat /\ MaxClock \in Nat /\ MaxCrashes \in Nat /\ MaxRequests \in Nat /\ MaxSaves \in Nat
  /\ MaxKey \in Nat /\ Weights \subseteq Int
  /\ RequestKeys \subseteq Seq(0 .. MaxKey) /\ \A r \in RequestKeys : \E i \in DOMAIN r : r[i] = 0

VARIABLES
  ftrl,          \* the pointer is assigned
  W, req, nreq,  \* weights, keys the request at hand has left, requests so far
  clock,         \* minutes
  saver,         \* [pc, due, todo, data, keys, had, raced]
  file,          \* minute of the day -> [lines, open]; open: no newline at the end
  saves,         \* history: minute of the day -> its saves
  crashes

saveVars == <<ftrl, W, req, nreq, clock, saver, file, saves, crashes>>

NoFile == [lines |-> <<>>, open |-> FALSE]
Saver(pc, due) ==
  [pc |-> pc, due |-> due, todo |-> {}, data |-> <<>>, keys |-> {}, had |-> <<>>, raced |-> FALSE]
Put(f, k, v) == [j \in DOMAIN f \cup {k} |-> IF j = k THEN v ELSE f[j]]

SaveInit ==
  /\ ftrl = FALSE /\ W = <<>> /\ req = <<>> /\ nreq = 0 /\ clock = 0
  /\ saver = Saver("sleep", save_frequence)
  /\ file = [m \in 0 .. Day - 1 |-> NoFile] /\ saves = [m \in 0 .. Day - 1 |-> <<>>]
  /\ crashes = 0

(* The server starts, or is started again without weights. *)
Die ==
  /\ crashes < MaxCrashes /\ crashes' = crashes + 1
  /\ ftrl' = FALSE /\ W' = <<>> /\ req' = <<>>
  /\ saver' = Saver("sleep", clock + save_frequence)
  /\ UNCHANGED <<nreq, clock>>

-----------------------------------------------------------------------------
(* The saver thread exists already when this assigns the pointer. *)
AssignFtrl ==
  /\ ~ftrl /\ ftrl' = TRUE
  /\ UNCHANGED <<W, req, nreq, clock, saver, file, saves, crashes>>

Receive(r) ==
  /\ ftrl /\ req = <<>> /\ nreq < MaxRequests
  /\ req' = r /\ nreq' = nreq + 1
  /\ UNCHANGED <<ftrl, W, clock, saver, file, saves, crashes>>

(* One W[key] of the request.  A key that is new while the saver iterates  *)
(* may rehash the map under it: it then misses any keys or sees some again.*)
Access(v) ==
  /\ req # <<>>
  /\ LET k == Head(req) IN
       /\ W' = Put(W, k, v)
       /\ IF saver.pc # "copy" THEN saver' = saver
          ELSE LET had == Put(saver.had, k, {v} \cup IF k \in DOMAIN W THEN saver.had[k] ELSE {})
               IN IF k \in DOMAIN W THEN saver' = [saver EXCEPT !.had = had]
                  ELSE \E t \in SUBSET (DOMAIN W \cup {k}) :
                         saver' = [saver EXCEPT !.had = had, !.raced = TRUE, !.todo = t]
  /\ req' = Tail(req)
  /\ UNCHANGED <<ftrl, nreq, clock, file, saves, crashes>>

(* A minute passes; AssignFtrl takes less. *)
Tick ==
  /\ ftrl /\ clock < MaxClock
  /\ clock' = clock + 1
  /\ UNCHANGED <<ftrl, W, req, nreq, saver, file, saves, crashes>>

-----------------------------------------------------------------------------
Due == saver.pc = "sleep" /\ clock >= saver.due

SavesMade == MapThenSumSet(LAMBDA m : Len(saves[m]), DOMAIN saves)

Wake ==
  /\ Due /\ ftrl
  /\ SavesMade < MaxSaves
  /\ saver' = [Saver("copy", 0) EXCEPT !.todo = DOMAIN W, !.keys = DOMAIN W,
                                       !.had = [k \in DOMAIN W |-> {W[k]}]]
  /\ UNCHANGED <<ftrl, W, req, nreq, clock, file, saves, crashes>>

(* get_weight of a pointer that is not assigned: the process dies. *)
WakeEarly ==
  /\ Due /\ ~ftrl
  /\ Die
  /\ UNCHANGED <<file, saves>>

(* data(data1.begin(), data1.end()) in the order of the buckets *)
Copy ==
  /\ saver.pc = "copy"
  /\ \E k \in saver.todo :
       saver' = [saver EXCEPT !.todo = @ \ {k}, !.data = Put(@, k, W[k])]
  /\ UNCHANGED <<ftrl, W, req, nreq, clock, file, saves, crashes>>

(* "%.8f" *)
Fmt(w) == (w + Unit \div 2) \div Unit

(* The keys whose lines are written: i is counted from 1 and tested after  *)
(* the line.                                                               *)
Kept(keys) == {k \in keys : Cardinality({j \in keys : j < k}) < MaxLines + 1}
Ascending(S) ==
  Subsequence([i \in 1 .. MaxKey + 1 |-> i - 1], {i \in 1 .. MaxKey + 1 : i - 1 \in S})
Line(fields, k, v, ok) == [fields |-> fields, key |-> k, val |-> v, ok |-> ok]
MutText(data) ==
  LET keys == Ascending(Kept(DOMAIN data))
  IN [i \in 1 .. Min({Len(keys), MaxLines}) |-> Line(2, keys[i], Fmt(data[keys[i]]), TRUE)]
Text(data) ==
  LET keys == Ascending(Kept(DOMAIN data))
  IN [i \in DOMAIN keys |-> Line(2, keys[i], Fmt(data[keys[i]]), TRUE)]

(* Two texts with no newline between them.  A key that was cut before its  *)
(* comma makes another key, g, with the digits that follow.                *)
Join(a, b, g) ==
  IF a.fields = 1 THEN [b EXCEPT !.key = g]
  ELSE Line(a.fields + b.fields - 1, a.key, a.val, FALSE)

(* ios::app *)
Behind(f, text, g) ==
  IF f.open THEN [f.lines EXCEPT ![Len(f.lines)] = Join(@, Head(text), g)] \o Tail(text)
  ELSE f.lines \o text
MutAppended(f, text, g, open) ==
  IF text = <<>> THEN f ELSE [lines |-> Behind(f, text, g), open |-> TRUE]
Appended(f, text, g, open) ==
  IF text = <<>> THEN f ELSE [lines |-> Behind(f, text, g), open |-> open]

Minute == clock % Day
Saved(complete) == [data |-> saver.data, keys |-> saver.keys, had |-> saver.had,
                    raced |-> saver.raced, complete |-> complete]
Written(text, complete) ==
  /\ saver.pc = "copy" /\ saver.todo = {}
  /\ \E g \in 0 .. MaxKey :
       file' = [file EXCEPT ![Minute] = Appended(@, text, g, ~complete)]
  /\ saves' = [saves EXCEPT ![Minute] = Append(@, Saved(complete))]

Write ==
  /\ Written(Text(saver.data), TRUE)
  /\ saver' = Saver("sleep", clock + save_frequence)
  /\ UNCHANGED <<ftrl, W, req, nreq, clock, crashes>>

(* External: the process dies when the file holds a part of the text.  Its *)
(* last line ends in the key, in the number, or before the newline.        *)
Cuts(l) == {Line(1, l.key, l.val, TRUE), [l EXCEPT !.ok = FALSE], l}
WriteCut ==
  /\ \E n \in DOMAIN Text(saver.data) : \E l \in Cuts(Text(saver.data)[n]) :
       Written(Append(SubSeq(Text(saver.data), 1, n - 1), l), FALSE)
  /\ Die

(* External: or at any other time. *)
Crash ==
  /\ ftrl /\ Die
  /\ UNCHANGED <<file, saves>>

(* The bounded time of the model is over. *)
End == clock = MaxClock /\ UNCHANGED saveVars

SaveNext ==
  \/ End
  \/ AssignFtrl \/ Tick \/ Wake \/ WakeEarly \/ Copy \/ Write \/ WriteCut \/ Crash
  \/ \E r \in RequestKeys : Receive(r)
  \/ \E v \in Weights : Access(v)

SaveSpec == SaveInit /\ [][SaveNext]_saveVars

-----------------------------------------------------------------------------
(* LoadModel.  The first line is the weight of key 0, whatever its key.    *)
Used(lines, i) == IF i = 1 THEN lines[i].fields >= 2 ELSE lines[i].fields = 2
KeyOf(lines, i) == IF i = 1 THEN 0 ELSE lines[i].key
LoadModel(lines) ==
  LET used == {i \in DOMAIN lines : Used(lines, i)}
      at(k) == lines[Max({i \in used : KeyOf(lines, i) = k})]
  IN [k \in {KeyOf(lines, i) : i \in used} |-> [val |-> at(k).val, ok |-> at(k).ok]]

-----------------------------------------------------------------------------
(* What was saved under k in file m, in the order of the saves. *)
Holding(m, k) == {i \in DOMAIN saves[m] : k \in Kept(DOMAIN saves[m][i].data)}
HasKey0(m) == \A i \in DOMAIN saves[m] : saves[m][i].data = <<>> \/ 0 \in DOMAIN saves[m][i].data

(* A file all of whose saves were finished and held key 0, those of other  *)
(* days included, reads back as the last value written for each key, and   *)
(* if nothing was inserted while the last copy was made, the MaxLines + 1  *)
(* least of the keys there were have weights they had during the copy,     *)
(* rounded (ps_server.cpp 52-72, learner.cpp 125-141).                     *)
RoundTrip ==
  \A m \in DOMAIN file :
    LET loaded == LoadModel(file[m].lines)
    IN saves[m] # <<>> /\ HasKey0(m) /\ (\A i \in DOMAIN saves[m] : saves[m][i].complete) =>
         /\ DOMAIN loaded = {k \in UNION {DOMAIN saves[m][i].data : i \in DOMAIN saves[m]} : Holding(m, k) # {}}
         /\ \A k \in DOMAIN loaded :
              loaded[k] = [val |-> Fmt(saves[m][Max(Holding(m, k))].data[k]), ok |-> TRUE]
         /\ LET s == saves[m][Len(saves[m])]
            IN ~s.raced => \A k \in Kept(s.keys) : \E v \in s.had[k] : loaded[k].val = Fmt(v)

(* However often the server dies while it writes, each time harms the      *)
(* weight of at most one key of what is later read from the file: a line   *)
(* cut short runs together with the first of the next save.                *)
DamageBounded ==
  \A m \in DOMAIN file :
    LET loaded == LoadModel(file[m].lines)
        cuts == {i \in DOMAIN saves[m] : ~saves[m][i].complete}
        harmed == {k \in DOMAIN loaded :
                     loaded[k] \notin {[val |-> Fmt(saves[m][i].data[k]), ok |-> TRUE] : i \in Holding(m, k)}}
    IN HasKey0(m) => Cardinality(harmed) <= Cardinality(cuts)
=============================================================================
