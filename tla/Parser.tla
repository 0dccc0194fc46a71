------------------------------- MODULE Parser -------------------------------
(***************************************************************************)
(* Parser::Process (src/src/io/parser.cpp), the buffer between the two     *)
(* Kafka consumer threads and the learners.  The impression thread         *)
(* (param = 0) appends negative samples to sample_0 and, when enough       *)
(* samples are counted, flushes: it copies sample_1 behind sample_0 and    *)
(* hands the batch to every learner.  The behaviour thread (param = 1)     *)
(* appends to sample_1.  The only synchronisation between them is the      *)
(* volatile bool mutex_flag, which the behaviour thread polls BEFORE it    *)
(* starts an append and the flush clears and sets.                         *)
(*                                                                         *)
(* The threads race on idx_1, cntl_1, mutex_flag, sample_1 and Ys_bhv, so  *)
(* every step is at most one statement that touches them, and idx_1++ and  *)
(* cntl_1++ are a load and a store.  Two groups of accesses stay one step: *)
(* the last load of _idx_1 with the store into the slot it names, and the  *)
(* reads of one slot (of the labels of one learner) by the flush.  Both    *)
(* commute with everything the other thread does meanwhile, because the    *)
(* flush only reads slots below the _idx_1 it saved and the behaviour      *)
(* thread only writes slots at or above the current _idx_1                 *)
(* (FlushRegionStable below).                                              *)
(* Statements keep their program order: the build sets no -O level.        *)
(*                                                                         *)
(* A sample is abstracted to the message it was extracted from: a field    *)
(* holds the message whose value it has.  For the features there are two:  *)
(* mem is the message they were copied from, words the message whose       *)
(* length said how many to copy.  If the two differ, the features are cut  *)
(* off or run into the memory behind them; a reader takes as many as the   *)
(* field length says.  Learner i is given its batch by                     *)
(* GetData, which blocks until the learner has finished the last one       *)
(* (module Handoff; module Learner shows how).                             *)
(***************************************************************************)
EXTENDS Integers, FiniteSets

CONSTANTS
  ImpMsgs,   \* impression messages that reach the duplicate check
  BhvMsgs,   \* behaviour messages that reach the duplicate check
  Usable,    \* those whose remaining fields parse and that have a feature
  NoMsg,     \* content of a field nothing was written to yet
  MarkKey,   \* crc64 of the markid (behaviour: of markid-code-filter)
  AppNum,    \* number of learners
  FlushAt,   \* 100: samples counted before a flush
  Cap0,      \* 10000: impressions refused from here on
  Cap1,      \* 2000: behaviours refused from here on
  Size0,     \* 10000: sample_0, Ys_imp[i], Ys_bhv[i], Learner::samples
  Size1,     \* 3000: sample_1
  HashCap    \* 50000000: size from which the markid maps are cleared

Msgs == ImpMsgs \cup BhvMsgs
Apps == 0 .. AppNum-1
Slots0 == 0 .. Size0-1
Slots1 == 0 .. Size1-1

ASSUME MsgAssumption ==
  /\ NoMsg \notin Msgs /\ ImpMsgs \cap BhvMsgs = {}
  /\ Usable \subseteq Msgs
  /\ DOMAIN MarkKey = Msgs

ASSUME SizeAssumption ==
  /\ AppNum \in Nat \ {0} /\ HashCap \in Nat
  /\ FlushAt \in Nat \ {0} /\ Cap0 \in Nat /\ Cap1 \in Nat
  /\ Size0 \in Nat /\ Size1 \in Nat
  /\ FlushAt <= Cap0 /\ Cap1 <= Size1 /\ FlushAt + Cap1 <= Size0

VARIABLES
  idx_0, idx_1,          \* next free slot of sample_0 and of sample_1
  cntl_0, cntl_1,        \* cntl[0], cntl[1]: samples since the last flush
  mutex_flag,            \* FALSE while a flush is going on
  sample_0, sample_1,    \* slot -> [length, ctr, mem, words]
  Ys_imp, Ys_bhv,        \* learner -> slot -> label
  seen_0, seen_1,        \* keys of markid_hashmap0 and markid_hashmap
  imp,                   \* impression thread: pc and the locals of a flush
  bhv,                   \* behaviour thread: pc, message, loop index, registers
  pending,               \* learner -> batch GetData gave it, until it is done
  appended, given,       \* history: behaviours appended; learner -> given
  flushes                \* history: number of flushes

bufVars == <<idx_0, idx_1, cntl_0, cntl_1, mutex_flag, sample_0, sample_1,
             Ys_imp, Ys_bhv>>
histVars == <<appended, given, flushes>>
vars == <<bufVars, seen_0, seen_1, imp, bhv, pending, histVars>>

NoBatch == [neg |-> 0, len |-> 0, x |-> <<>>, y |-> <<>>]
Blank == [length |-> NoMsg, ctr |-> NoMsg, mem |-> NoMsg, words |-> NoMsg]
(* The behaviour thread between two calls: no locals. *)
NoCall == [pc |-> "idle", msg |-> NoMsg, app |-> 0, reg |-> 0, words |-> NoMsg]
SampleOf(m) == [length |-> m, ctr |-> m, mem |-> m, words |-> m]

-----------------------------------------------------------------------------
(* The constructor and SetLearner. *)
Init ==
  /\ idx_0 = 0 /\ idx_1 = 0 /\ cntl_0 = 0 /\ cntl_1 = 0
  /\ mutex_flag = TRUE
  /\ sample_0 = [s \in Slots0 |-> Blank]
  /\ sample_1 = [s \in Slots1 |-> Blank]
  /\ Ys_imp = [a \in Apps |-> [s \in Slots0 |-> NoMsg]]
  /\ Ys_bhv = [a \in Apps |-> [s \in Slots0 |-> NoMsg]]
  /\ seen_0 = {} /\ seen_1 = {}
  /\ imp = [pc |-> "idle", idx_1 |-> 0, i |-> 0, app |-> 0]
  /\ bhv = NoCall
  /\ pending = [a \in Apps |-> NoBatch]
  /\ appended = {} /\ given = [a \in Apps |-> {}] /\ flushes = 0

-----------------------------------------------------------------------------
(* Duplicate suppression.  Past HashCap entries the map is meant to be     *)
(* emptied in the first minute of the hour (day); the test compares the    *)
(* text strftime makes of "$M" ("%H:$M") with "00" ("00:00").  strftime    *)
(* copies "$M" literally: only a % starts a conversion.                    *)
MutMinute == "00"    \* mutant: "%M", in the first minute of an hour
Minute == "$M"
HourMinute(hour) == <<hour, "$M">>
Hours == {"00", "13"}

Mark0(key) ==
  LET marked == seen_0 \cup {key}
  IN  seen_0' = IF Cardinality(marked) > HashCap /\ Minute \in {"00", "0"}
                THEN {} ELSE marked

Mark1(key, hour) ==
  LET marked == seen_1 \cup {key}
      midnight == HourMinute(hour) \in {<<"00", "00">>, <<"0", "0">>}
  IN  seen_1' = IF Cardinality(marked) > HashCap /\ midnight
                THEN {} ELSE marked

-----------------------------------------------------------------------------
(* The behaviour thread. *)
BhvAt(pc) == bhv.pc = pc
BhvTo(pc) == bhv' = [bhv EXCEPT !.pc = pc]

(* parse_sample_1 returns -1 for a key it has counted before. *)
BhvRepeat(m) ==
  /\ BhvAt("idle")
  /\ MarkKey[m] \in seen_1
  /\ UNCHANGED vars

(* parse_sample_1: a message is marked as seen before it is known whether  *)
(* it yields a sample.                                                     *)
BhvRecv(m, hour) ==
  /\ BhvAt("idle")
  /\ MarkKey[m] \notin seen_1
  /\ Mark1(MarkKey[m], hour)
  /\ bhv' = IF m \in Usable THEN [bhv EXCEPT !.pc = "spin", !.msg = m] ELSE bhv
  /\ UNCHANGED <<bufVars, seen_0, imp, pending, histVars>>

(* Mutant: the poll of mutex_flag is dropped. *)
MutSpin ==
  /\ BhvAt("spin")
  /\ BhvTo("room")
  /\ UNCHANGED <<bufVars, seen_0, seen_1, imp, pending, histVars>>

(* while (!mutex_flag) usleep(100000) *)
BhvSpin ==
  /\ BhvAt("spin") /\ mutex_flag
  /\ BhvTo("room")
  /\ UNCHANGED <<bufVars, seen_0, seen_1, imp, pending, histVars>>

(* Mutant: off by one. *)
MutFull1 == idx_1 > Cap1

(* if (_idx_1 >= 2000) *)
Full1 == idx_1 >= Cap1

(* The message is dropped, although it is marked as seen. *)
BhvDrop ==
  /\ BhvAt("room") /\ Full1
  /\ bhv' = NoCall
  /\ UNCHANGED <<bufVars, seen_0, seen_1, imp, pending, histVars>>

BhvRoom ==
  /\ BhvAt("room") /\ ~Full1
  /\ bhv' = [bhv EXCEPT !.pc = "label", !.app = 0]
  /\ UNCHANGED <<bufVars, seen_0, seen_1, imp, pending, histVars>>

(* Ys_bhv[i][_idx_1] = lw[i]->CheckLabel(condition), one learner a step. *)
BhvLabel ==
  /\ BhvAt("label")
  /\ Ys_bhv' = [Ys_bhv EXCEPT ![bhv.app][idx_1] = bhv.msg]
  /\ bhv' = IF bhv.app + 1 < AppNum THEN [bhv EXCEPT !.app = @ + 1]
            ELSE [bhv EXCEPT !.pc = "length"]
  /\ UNCHANGED <<idx_0, idx_1, cntl_0, cntl_1, mutex_flag, sample_0, sample_1,
                 Ys_imp, seen_0, seen_1, imp, pending, histVars>>

(* The statements that fill sample_1[_idx_1]; each reads _idx_1. *)
BhvLength ==
  /\ BhvAt("length")
  /\ sample_1' = [sample_1 EXCEPT ![idx_1].length = bhv.msg]
  /\ BhvTo("ctr")
  /\ UNCHANGED <<idx_0, idx_1, cntl_0, cntl_1, mutex_flag, sample_0,
                 Ys_imp, Ys_bhv, seen_0, seen_1, imp, pending, histVars>>

BhvCtr ==
  /\ BhvAt("ctr")
  /\ sample_1' = [sample_1 EXCEPT ![idx_1].ctr = bhv.msg]
  /\ BhvTo("mem")
  /\ UNCHANGED <<idx_0, idx_1, cntl_0, cntl_1, mutex_flag, sample_0,
                 Ys_imp, Ys_bhv, seen_0, seen_1, imp, pending, histVars>>

(* memcpy(sample_1[_idx_1]._mem, &features[0], sample_1[_idx_1].length*8): *)
(* _idx_1 is read twice, in an order C++ leaves open, and a flush may      *)
(* clear it before either.                                                 *)
BhvMemArg ==
  /\ BhvAt("mem")
  /\ \/ bhv' = [bhv EXCEPT !.pc = "memto", !.words = sample_1[idx_1].length]
     \/ bhv' = [bhv EXCEPT !.pc = "memlength", !.reg = idx_1]
  /\ UNCHANGED <<bufVars, seen_0, seen_1, imp, pending, histVars>>

Memcpy(slot, length) ==
  sample_1' = [sample_1 EXCEPT ![slot].mem = bhv.msg, ![slot].words = length]

BhvMem ==
  /\ \/ BhvAt("memto") /\ Memcpy(idx_1, bhv.words)
     \/ BhvAt("memlength") /\ Memcpy(bhv.reg, sample_1[idx_1].length)
  /\ bhv' = [bhv EXCEPT !.pc = "incload", !.reg = 0, !.words = NoMsg]
  /\ UNCHANGED <<idx_0, idx_1, cntl_0, cntl_1, mutex_flag, sample_0,
                 Ys_imp, Ys_bhv, seen_0, seen_1, imp, pending, histVars>>

(* _idx_1++ *)
BhvIncLoad ==
  /\ BhvAt("incload")
  /\ bhv' = [bhv EXCEPT !.pc = "incstore", !.reg = idx_1]
  /\ UNCHANGED <<bufVars, seen_0, seen_1, imp, pending, histVars>>

BhvIncStore ==
  /\ BhvAt("incstore")
  /\ idx_1' = bhv.reg + 1
  /\ appended' = appended \cup {bhv.msg}
  /\ BhvTo("cntload")
  /\ UNCHANGED <<idx_0, cntl_0, cntl_1, mutex_flag, sample_0, sample_1, Ys_imp,
                 Ys_bhv, seen_0, seen_1, imp, pending, given, flushes>>

(* cntl[1]++ *)
BhvCntLoad ==
  /\ BhvAt("cntload")
  /\ bhv' = [bhv EXCEPT !.pc = "cntstore", !.reg = cntl_1]
  /\ UNCHANGED <<bufVars, seen_0, seen_1, imp, pending, histVars>>

BhvCntStore ==
  /\ BhvAt("cntstore")
  /\ cntl_1' = bhv.reg + 1
  /\ bhv' = NoCall
  /\ UNCHANGED <<idx_0, idx_1, cntl_0, mutex_flag, sample_0, sample_1, Ys_imp,
                 Ys_bhv, seen_0, seen_1, imp, pending, histVars>>

-----------------------------------------------------------------------------
(* The impression thread.  sample_0, Ys_imp, _idx_0 and cntl[0] are its    *)
(* own, so the whole append is one step.                                   *)
ImpAt(pc) == imp.pc = pc
ImpTo(pc) == imp' = [imp EXCEPT !.pc = pc]

ImpAppend(m) ==
  /\ sample_0' = [sample_0 EXCEPT ![idx_0] = SampleOf(m)]
  /\ Ys_imp' = [a \in Apps |-> [Ys_imp[a] EXCEPT ![idx_0] = m]]
  /\ idx_0' = idx_0 + 1
  /\ cntl_0' = cntl_0 + 1
  /\ ImpTo("test")

ImpRepeat(m) ==
  /\ ImpAt("idle")
  /\ MarkKey[m] \in seen_0
  /\ UNCHANGED vars

ImpRecv(m) ==
  /\ ImpAt("idle")
  /\ MarkKey[m] \notin seen_0
  /\ Mark0(MarkKey[m])
  /\ IF m \in Usable /\ idx_0 < Cap0
     THEN ImpAppend(m)
     ELSE UNCHANGED <<sample_0, Ys_imp, idx_0, cntl_0, imp>>
  /\ UNCHANGED <<idx_1, cntl_1, mutex_flag, sample_1, Ys_bhv, seen_1, bhv,
                 pending, histVars>>

(* Mutant: > for >=. *)
MutEnough == cntl_1 + cntl_0 > FlushAt

(* (cntl[1] + cntl[0] >= 100) && param == 0 *)
Enough == cntl_1 + cntl_0 >= FlushAt

ImpTest ==
  /\ ImpAt("test")
  /\ ImpTo(IF Enough THEN "reset" ELSE "idle")
  /\ UNCHANGED <<bufVars, seen_0, seen_1, bhv, pending, histVars>>

ImpReset ==
  /\ ImpAt("reset")
  /\ cntl_1' = 0 /\ cntl_0' = 0
  /\ ImpTo("lock")
  /\ UNCHANGED <<idx_0, idx_1, mutex_flag, sample_0, sample_1, Ys_imp, Ys_bhv,
                 seen_0, seen_1, bhv, pending, histVars>>

ImpLock ==
  /\ ImpAt("lock")
  /\ mutex_flag' = FALSE
  /\ ImpTo("snap")
  /\ UNCHANGED <<idx_0, idx_1, cntl_0, cntl_1, sample_0, sample_1, Ys_imp,
                 Ys_bhv, seen_0, seen_1, bhv, pending, histVars>>

(* Mutant: _idx_1 is cleared as soon as it is saved, not after the copy. *)
MutSnap ==
  /\ ImpAt("snap")
  /\ imp' = [imp EXCEPT !.pc = "copy", !.idx_1 = idx_1, !.i = 0]
  /\ idx_1' = 0
  /\ UNCHANGED <<idx_0, cntl_0, cntl_1, mutex_flag, sample_0, sample_1, Ys_imp,
                 Ys_bhv, seen_0, seen_1, bhv, pending, histVars>>

(* int idx_0 = _idx_0, idx_1 = _idx_1; nobody changes _idx_0 meanwhile. *)
ImpSnap ==
  /\ ImpAt("snap")
  /\ imp' = [imp EXCEPT !.pc = "copy", !.idx_1 = idx_1, !.i = 0]
  /\ UNCHANGED <<bufVars, seen_0, seen_1, bhv, pending, histVars>>

(* One iteration of the loop that copies sample_1 behind sample_0; of the  *)
(* features as many as the length copied before them says.                 *)
ImpCopy ==
  /\ ImpAt("copy") /\ imp.i < imp.idx_1
  /\ sample_0' = [sample_0 EXCEPT ![idx_0 + imp.i] = sample_1[imp.i]]
  /\ imp' = [imp EXCEPT !.i = @ + 1]
  /\ UNCHANGED <<idx_0, idx_1, cntl_0, cntl_1, mutex_flag, sample_1, Ys_imp,
                 Ys_bhv, seen_0, seen_1, bhv, pending, histVars>>

ImpCopied ==
  /\ ImpAt("copy") /\ imp.i = imp.idx_1
  /\ imp' = [imp EXCEPT !.pc = "give", !.app = 0]
  /\ UNCHANGED <<bufVars, seen_0, seen_1, bhv, pending, histVars>>

(* Mutant: the two insert calls swapped. *)
MutYtemp(a, len) ==
  [s \in 0 .. len-1 |-> IF s < imp.idx_1 THEN Ys_bhv[a][s]
                        ELSE Ys_imp[a][s - imp.idx_1]]

(* Ytemp: the labels of the impressions, then those of the behaviours. *)
Ytemp(a, len) ==
  [s \in 0 .. len-1 |-> IF s < idx_0 THEN Ys_imp[a][s] ELSE Ys_bhv[a][s - idx_0]]

BatchFor(a) ==
  LET len == idx_0 + imp.idx_1
  IN  [neg |-> idx_0, len |-> len,
       x |-> [s \in 0 .. len-1 |-> sample_0[s]], y |-> Ytemp(a, len)]

(* lw[i]->GetData(sample_0, len, Ytemp); waits for learner i (sem_done). *)
ImpGive ==
  /\ ImpAt("give")
  /\ pending[imp.app] = NoBatch
  /\ pending' = [pending EXCEPT ![imp.app] = BatchFor(imp.app)]
  /\ given' = [given EXCEPT ![imp.app] =
                 @ \cup {sample_0[s].mem : s \in 0 .. (idx_0 + imp.idx_1)-1}]
  /\ imp' = IF imp.app + 1 < AppNum THEN [imp EXCEPT !.app = @ + 1]
            ELSE [imp EXCEPT !.pc = "clear"]
  /\ UNCHANGED <<bufVars, seen_0, seen_1, bhv, appended, flushes>>

ImpClear ==
  /\ ImpAt("clear")
  /\ idx_0' = 0 /\ idx_1' = 0
  /\ flushes' = flushes + 1
  /\ ImpTo("unlock")
  /\ UNCHANGED <<cntl_0, cntl_1, mutex_flag, sample_0, sample_1, Ys_imp,
                 Ys_bhv, seen_0, seen_1, bhv, pending, appended, given>>

(* Mutant: mutex_flag is not set again. *)
MutUnlock ==
  /\ ImpAt("unlock")
  /\ ImpTo("idle")
  /\ UNCHANGED <<bufVars, seen_0, seen_1, bhv, pending, histVars>>

ImpUnlock ==
  /\ ImpAt("unlock")
  /\ mutex_flag' = TRUE
  /\ ImpTo("idle")
  /\ UNCHANGED <<idx_0, idx_1, cntl_0, cntl_1, sample_0, sample_1, Ys_imp,
                 Ys_bhv, seen_0, seen_1, bhv, pending, histVars>>

-----------------------------------------------------------------------------
(* Learner a finishes its update and posts sem_done. *)
LearnerDone(a) ==
  /\ pending[a] # NoBatch
  /\ pending' = [pending EXCEPT ![a] = NoBatch]
  /\ UNCHANGED <<bufVars, seen_0, seen_1, imp, bhv, histVars>>

BhvStep == BhvSpin \/ BhvDrop \/ BhvRoom \/ BhvLabel \/ BhvLength \/ BhvCtr
           \/ BhvMemArg \/ BhvMem \/ BhvIncLoad \/ BhvIncStore \/ BhvCntLoad \/ BhvCntStore
ImpStep == ImpTest \/ ImpReset \/ ImpLock \/ ImpSnap \/ ImpCopy \/ ImpCopied
           \/ ImpGive \/ ImpClear \/ ImpUnlock

Next ==
  \/ \E m \in BhvMsgs : BhvRepeat(m)
  \/ \E m \in BhvMsgs, hour \in Hours : BhvRecv(m, hour)
  \/ BhvStep
  \/ \E m \in ImpMsgs : ImpRepeat(m)
  \/ \E m \in ImpMsgs : ImpRecv(m)
  \/ ImpStep
  \/ \E a \in Apps : LearnerDone(a)

Spec == Init /\ [][Next]_vars

(* The two threads keep running a call of Process they have begun, and a   *)
(* learner finishes every batch it was given; messages may stop coming.    *)
FairSpec == Spec /\ WF_vars(ImpStep) /\ WF_vars(BhvStep)
                 /\ \A a \in Apps : WF_vars(LearnerDone(a))

-----------------------------------------------------------------------------
(* Properties. *)
Contents == Msgs \cup {NoMsg}
Fields == [length : Contents, ctr : Contents, mem : Contents, words : Contents]
ImpPcs == {"idle", "test", "reset", "lock", "snap", "copy", "give", "clear",
           "unlock"}
BhvPcs == {"idle", "spin", "room", "label", "length", "ctr", "mem",
           "memto", "memlength", "incload", "incstore", "cntload", "cntstore"}
ImpState == [pc : ImpPcs, idx_1 : Nat, i : Nat, app : Apps]
BhvState == [pc : BhvPcs, msg : Contents, app : Apps, reg : Nat, words : Contents]

(* Every variable has its type; in particular the behaviour thread never   *)
(* takes _idx_1 past the 2000 that Process compares it with, whatever      *)
(* flush its unsynchronised increment races with.                          *)
TypeOK ==
  /\ idx_0 \in Nat /\ idx_1 \in 0 .. Cap1
  /\ cntl_0 \in Nat /\ cntl_1 \in Nat /\ mutex_flag \in BOOLEAN
  /\ sample_0 \in [Slots0 -> Fields] /\ sample_1 \in [Slots1 -> Fields]
  /\ Ys_imp \in [Apps -> [Slots0 -> Contents]]
  /\ Ys_bhv \in [Apps -> [Slots0 -> Contents]]
  /\ imp \in ImpState /\ bhv \in BhvState
  /\ appended \subseteq BhvMsgs /\ flushes \in Nat

InFlush == imp.pc \in {"copy", "give", "clear"}

(* The two batches copied one behind the other fit sample_0, the label     *)
(* vectors and Learner::samples: _idx_0 never passes the flush threshold,  *)
(* although the flush test adds a cntl[1] that a racing increment may have *)
(* left at any earlier value (parser.cpp 337-345).                         *)
BatchFits ==
  /\ idx_0 <= FlushAt
  /\ InFlush => idx_0 + imp.idx_1 <= Size0

(* While a flush copies sample_1, no store of the behaviour thread (always *)
(* at _idx_1 or, for the features, at an _idx_1 it read before the last    *)
(* clearing) reaches the slots being copied, though it may be anywhere in  *)
(* an append it began before mutex_flag was cleared (318-332, 340-356).    *)
FlushRegionStable == InFlush => imp.idx_1 <= idx_1

(* What a learner is given (341-357): a sample, the number of its features *)
(* and its label come from one message, except in the first behaviour      *)
(* slot, which appends cut by the clearing of _idx_1 may mix from several  *)
(* and whose features may be cut off or run over; nothing unwritten is     *)
(* ever given or used as a length.                                         *)
WholeAt(b, s) == \E m \in Msgs : b.x[s] = SampleOf(m) /\ b.y[s] = m
WrittenAt(b, s) == NoMsg \notin {b.x[s].length, b.x[s].ctr, b.x[s].mem, b.x[s].words, b.y[s]}

TornOnlyFirst ==
  \A a \in Apps : \A s \in 0 .. pending[a].len - 1 :
    /\ WrittenAt(pending[a], s)
    /\ s # pending[a].neg => WholeAt(pending[a], s)

(* The race costs at most one appended behaviour per flush (332, 358): the *)
(* features of every other appended behaviour have been given to each      *)
(* learner or are still buffered (in the first slot maybe not all of them, *)
(* see TornOnlyFirst).                                                     *)
Buffered1 == {sample_1[s].mem : s \in 0 .. idx_1 - 1}
LossAtMostOnePerFlush ==
  \A a \in Apps : Cardinality(appended \ (given[a] \cup Buffered1)) <= flushes

(* An impression that was counted (153) and parses is given to each        *)
(* learner exactly once, or waits in sample_0 exactly once: appends,       *)
(* flushes and the emptying of the markid map past its limit never lose it *)
(* or let it in again.                                                     *)
WaitsFor(a, m) ==
  /\ ~ (\/ ImpAt("give") /\ a < imp.app
        \/ ImpAt("clear"))
  /\ \E s \in 0 .. idx_0 - 1 : sample_0[s].mem = m

ImpExactlyOnce ==
  \A a \in Apps : \A key \in seen_0 :
    LET of == {m \in ImpMsgs : MarkKey[m] = key}
        held == {m \in of : WaitsFor(a, m)}
    IN  of \subseteq Usable =>
          Cardinality(held) + Cardinality(of \cap given[a]) = 1

(* A flush that has begun ends, so the behaviour thread polling mutex_flag *)
(* is let go, if every learner finishes the batch it has (318, 339, 359).  *)
FlushCompletes == (~mutex_flag) ~> mutex_flag
=============================================================================
