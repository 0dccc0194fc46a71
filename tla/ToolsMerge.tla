----------------------------- MODULE ToolsMerge -----------------------------
(***************************************************************************)
(* Learner::Merge of the older program (src/tools/learner.cpp), called by  *)
(* the thread of the impressions (param 0) and the thread of the           *)
(* behaviours (param 1) that tools/main.cpp starts.  Here the behaviour    *)
(* thread flushes: it gives sample_0 to the tasks of a thread pool, one    *)
(* for every LWorker, and spins until their flags are up.                  *)
(*                                                                         *)
(* A message is its mark; Bad ones are refused after their mark was        *)
(* counted.  The maps of marks are never emptied ("$M", as in Parser).     *)
(* Accesses to what both threads use are separate steps.  LWorker and the  *)
(* pool are not part of the repository: Run lowers the worker's flag when  *)
(* it starts and raises it when it ends.                                   *)
(***************************************************************************)
EXTENDS Integers, FiniteSets

CONSTANTS
  Imps, Bhvs,       \* marks of the messages of the two streams
  Bad,              \* those Parse_sample_0 and Parse_sample_1 refuse
  Workers,          \* lw
  Cap0, Cap1,       \* 10000 and 2000: limits of _idx_0 and _idx_1
  FlushAt,          \* 100
  None

ASSUME ToolsAssumption ==
  /\ Cap0 \in Nat /\ Cap1 \in Nat \ {0} /\ FlushAt \in Nat \ {0}
  /\ Imps \cap Bhvs = {} /\ None \notin Imps \cup Bhvs

VARIABLES
  sample_0, sample_1, idx_0, idx_1,   \* slot i of the code is i + 1 here
  cntl_0, cntl_1, mutex_flag,
  ipc, imsg, ireg,          \* impression thread: place, message, register
  bpc,                      \* behaviour thread
  pool, running,            \* worker -> tasks waiting; workers inside Run
  seen_0, seen_1,           \* markid_hashmap0, markid_hashmap
  stored, handed, flushes   \* history: marks written to sample_0, and handed
                            \* over by a flush; flushes

mem == <<sample_0, sample_1>>
idx == <<idx_0, idx_1>>
cntl == <<cntl_0, cntl_1>>
seen == <<seen_0, seen_1>>
imp == <<ipc, imsg, ireg>>
lws == <<pool, running>>
hist == <<stored, handed, flushes>>
mergeVars == <<mem, idx, cntl, mutex_flag, imp,
          bpc, lws, seen, hist>>

MergeInit ==
  /\ sample_0 = [i \in 1 .. Cap0 + Cap1 |-> None] /\ sample_1 = [i \in 1 .. Cap1 |-> None]
  /\ idx_0 = 0 /\ idx_1 = 0 /\ cntl_0 = 0 /\ cntl_1 = 0 /\ mutex_flag = TRUE
  /\ ipc = "recv" /\ imsg = None /\ ireg = 0
  /\ bpc = "recv"
  /\ pool = [w \in Workers |-> 0] /\ running = {}
  /\ seen_0 = {} /\ seen_1 = {}
  /\ stored = {} /\ handed = {} /\ flushes = 0

-----------------------------------------------------------------------------
(* Impressions.  Parse_sample_0 counts the mark and drops repeats. *)
ImpRecv(m) ==
  /\ ipc = "recv"
  /\ seen_0' = seen_0 \cup {m}
  /\ IF m \in seen_0 \cup Bad
     THEN UNCHANGED imp
     ELSE ipc' = "wait" /\ imsg' = m /\ ireg' = ireg
  /\ UNCHANGED <<mem, idx, cntl, mutex_flag, bpc, lws, seen_1, hist>>

(* while (!mutex_flag) usleep, before the slot and before _idx_0++ *)
ImpWait(from, to) ==
  /\ ipc = from /\ mutex_flag
  /\ ipc' = to
  /\ UNCHANGED <<mem, idx, cntl, mutex_flag, imsg, ireg, bpc, lws, seen, hist>>

ImpFull ==
  /\ ipc = "slot" /\ idx_0 >= Cap0
  /\ ipc' = "recv"
  /\ UNCHANGED <<mem, idx, cntl, mutex_flag, imsg, ireg, bpc, lws, seen, hist>>

ImpSlot ==
  /\ ipc = "slot" /\ idx_0 < Cap0
  /\ sample_0' = [sample_0 EXCEPT ![idx_0 + 1] = imsg]
  /\ stored' = stored \cup {imsg}
  /\ ipc' = "wait2"
  /\ UNCHANGED <<sample_1, idx, cntl, mutex_flag, imsg, ireg, bpc, lws, seen, handed, flushes>>

(* _idx_0++ and cntl[0]++: load, then store *)
ImpLoad(from, counter, to) ==
  /\ ipc = from
  /\ ireg' = counter /\ ipc' = to
  /\ UNCHANGED <<mem, idx, cntl, mutex_flag, imsg, bpc, lws, seen, hist>>

ImpAdvance(next_0) ==
  /\ ipc = "store"
  /\ idx_0' = next_0 /\ ipc' = "count"
  /\ UNCHANGED <<mem, idx_1, cntl, mutex_flag, imsg, ireg, bpc, lws, seen, hist>>

MutImpStoreIdx == ImpAdvance(ireg)
ImpStoreIdx == ImpAdvance(ireg + 1)

ImpStoreCount ==
  /\ ipc = "counted"
  /\ cntl_0' = ireg + 1 /\ ipc' = "recv"
  /\ UNCHANGED <<mem, idx, cntl_1, mutex_flag, imsg, ireg, bpc, lws, seen, hist>>

-----------------------------------------------------------------------------
(* Behaviours.  Parse_sample_1 applies the label rules, see Labels. *)
Enough == cntl_1 + 1 + cntl_0 >= FlushAt

(* The slot is written and the message counted; _idx_1 stays as it is, so  *)
(* that a flush has no behaviour to copy.                                  *)
BhvRecv(m) ==
  /\ bpc = "recv"
  /\ seen_1' = seen_1 \cup {m}
  /\ IF m \in seen_1 \cup Bad \/ idx_1 >= Cap1
     THEN UNCHANGED <<sample_1, cntl_1, bpc>>
     ELSE /\ sample_1' = [sample_1 EXCEPT ![idx_1 + 1] = m]
          /\ cntl_1' = cntl_1 + 1
          /\ bpc' = IF Enough THEN "reset" ELSE "recv"
  /\ UNCHANGED <<sample_0, idx, cntl_0, mutex_flag, imp, lws, seen_0, hist>>

BhvReset ==
  /\ bpc = "reset"
  /\ cntl_1' = 0 /\ cntl_0' = 0 /\ bpc' = "lock"
  /\ UNCHANGED <<mem, idx, mutex_flag, imp, lws, seen, hist>>

BhvLock ==
  /\ bpc = "lock"
  /\ mutex_flag' = FALSE /\ bpc' = "copy"
  /\ UNCHANGED <<mem, idx, cntl, imp, lws, seen, hist>>

(* sample_1 behind sample_0, from _idx_0 on *)
BhvCopy ==
  /\ bpc = "copy"
  /\ sample_0' = [i \in DOMAIN sample_0 |->
                   IF i - idx_0 \in 1 .. idx_1 THEN sample_1[i - idx_0] ELSE sample_0[i]]
  /\ bpc' = "tasks"
  /\ UNCHANGED <<sample_1, idx, cntl, mutex_flag, imp, lws, seen, hist>>

(* len = _idx_0 + _idx_1, read again, and a task for every worker *)
BhvTasks ==
  /\ bpc = "tasks"
  /\ pool' = [w \in Workers |-> pool[w] + 1]
  /\ handed' = handed \cup {sample_0[i] : i \in 1 .. idx_0 + idx_1}
  /\ flushes' = flushes + 1
  /\ bpc' = "spin"
  /\ UNCHANGED <<mem, idx, cntl, mutex_flag, imp, running, seen, stored>>

MutBhvSpin == bpc = "spin" /\ running = {} /\ UNCHANGED mergeVars

(* All flags are up: also before a task has started. *)
BhvSpin ==
  /\ bpc = "spin" /\ running = {}
  /\ bpc' = "clear"
  /\ UNCHANGED <<mem, idx, cntl, mutex_flag, imp, lws, seen, hist>>

BhvClear ==
  /\ bpc = "clear"
  /\ idx_0' = 0 /\ idx_1' = 0 /\ bpc' = "unlock"
  /\ UNCHANGED <<mem, cntl, mutex_flag, imp, lws, seen, hist>>

BhvUnlock ==
  /\ bpc = "unlock"
  /\ mutex_flag' = TRUE /\ bpc' = "recv"
  /\ UNCHANGED <<mem, idx, cntl, imp, lws, seen, hist>>

-----------------------------------------------------------------------------
(* External: a thread of the pool takes the task of w, and ends it. *)
RunStart(w) ==
  /\ pool[w] > 0 /\ w \notin running
  /\ pool' = [pool EXCEPT ![w] = @ - 1] /\ running' = running \cup {w}
  /\ UNCHANGED <<mem, idx, cntl, mutex_flag, imp, bpc, seen, hist>>

RunEnd(w) ==
  /\ w \in running /\ running' = running \ {w}
  /\ UNCHANGED <<mem, idx, cntl, mutex_flag, imp, bpc, pool, seen, hist>>

-----------------------------------------------------------------------------
Imp ==
  \/ ImpWait("wait", "slot") \/ ImpFull \/ ImpSlot \/ ImpWait("wait2", "load")
  \/ ImpLoad("load", idx_0, "store") \/ ImpStoreIdx
  \/ ImpLoad("count", cntl_0, "counted") \/ ImpStoreCount

Bhv == BhvReset \/ BhvLock \/ BhvCopy \/ BhvTasks \/ BhvSpin \/ BhvClear \/ BhvUnlock

MergeNext ==
  \/ \E m \in Imps : ImpRecv(m)
  \/ \E m \in Bhvs : BhvRecv(m)
  \/ Imp \/ Bhv
  \/ \E w \in Workers : RunStart(w) \/ RunEnd(w)

MergeSpec == MergeInit /\ [][MergeNext]_mergeVars

MergeFairSpec ==
  MergeSpec /\ WF_mergeVars(Bhv) /\ \A w \in Workers : WF_mergeVars(RunStart(w)) /\ WF_mergeVars(RunEnd(w))

-----------------------------------------------------------------------------
(* An impression written to sample_0 is handed over, or counted for the    *)
(* next flush, or still in the impression thread's hands, except that each *)
(* flush may lose one: written at the old _idx_0, counted after the reset. *)
Counted == {sample_0[i] : i \in 1 .. idx_0}
InHand == IF ipc \in {"wait2", "load", "store"} THEN {imsg} ELSE {}
LostAtMostOnePerFlush ==
  Cardinality(stored \ (handed \cup Counted \cup InHand)) <= flushes

(* A flush comes to its end: the spinning on the flags of the workers ends *)
(* once those that run have ended.                                         *)
FlushEnds == bpc = "spin" ~> bpc = "recv"
=============================================================================
