---------------------------- MODULE ParserProofs ----------------------------
(***************************************************************************)
(* Proofs about module Parser, for every number of messages, learners and  *)
(* for all thresholds and sizes that satisfy SizeAssumption.               *)
(***************************************************************************)
EXTENDS Parser, FiniteSetTheorems, TLAPS

(* Outside a flush cntl[0] counts exactly the slots of sample_0 in use, so *)
(* the flush test bounds _idx_0 whatever cntl[1] is.                       *)
ImpInv ==
  /\ ImpAt("idle") => cntl_0 = idx_0 /\ idx_0 < FlushAt
  /\ imp.pc \in {"test", "reset"} => cntl_0 = idx_0 /\ idx_0 <= FlushAt
  /\ imp.pc \in {"lock", "snap", "copy", "give", "clear"} =>
       cntl_0 = 0 /\ idx_0 <= FlushAt
  /\ ImpAt("unlock") => cntl_0 = 0 /\ idx_0 = 0
  /\ InFlush => imp.i <= imp.idx_1 /\ imp.idx_1 <= idx_1
  /\ imp.pc \in {"give", "clear"} => imp.i = imp.idx_1

(* The room the behaviour thread found is still there when it stores, and  *)
(* the register of a pending memcpy or _idx_1++ is current or a flush has  *)
(* cleared _idx_1 since.                                                   *)
BhvInv ==
  /\ bhv.pc \in {"label", "length", "ctr", "mem", "memto", "memlength", "incload"} =>
       idx_1 < Cap1
  /\ BhvAt("memlength") => bhv.reg < Cap1 /\ idx_1 \in {0, bhv.reg}
  /\ BhvAt("incstore") => bhv.reg < Cap1 /\ idx_1 \in {0, bhv.reg}
  /\ ~BhvAt("idle") => bhv.msg \in BhvMsgs

IndexInv == TypeOK /\ ImpInv /\ BhvInv

-----------------------------------------------------------------------------
(* Updating a function, a sample, the state of a thread keeps its type. *)
LEMMA UpdateType ==
  ASSUME NEW S, NEW T, NEW f \in [S -> T], NEW x \in S, NEW v \in T
  PROVE  [f EXCEPT ![x] = v] \in [S -> T]
OBVIOUS

(* Storing one field of a slot. *)
LEMMA FieldsType ==
  ASSUME NEW f \in Fields, NEW c \in Contents
  PROVE  /\ [f EXCEPT !.length = c] \in Fields
         /\ [f EXCEPT !.ctr = c] \in Fields
         /\ [f EXCEPT !.mem = c] \in Fields
         /\ [f EXCEPT !.words = c] \in Fields
BY DEF Fields

(* The behaviour thread between two calls. *)
LEMMA NoCallType == NoCall \in BhvState /\ NoCall.pc = "idle"
<1>1. 0 \in Apps
  BY SizeAssumption DEF Apps
<1> QED
  BY <1>1 DEF NoCall, BhvState, BhvPcs, Contents

(* Counters and indexes, at the start and over every step. *)
LEMMA IndexInit == Init => IndexInv
BY MsgAssumption, SizeAssumption
DEF Init, NoCall, IndexInv, TypeOK, ImpInv, BhvInv, InFlush, ImpAt, BhvAt, Apps, Slots0,
    Slots1, Fields, Blank, ImpPcs, BhvPcs, Msgs, Contents, ImpState, BhvState

LEMMA TypeStep == IndexInv /\ [Next]_vars => TypeOK'
<1> SUFFICES ASSUME IndexInv, [Next]_vars PROVE TypeOK'
  OBVIOUS
<1> USE MsgAssumption, SizeAssumption
        DEF IndexInv, TypeOK, BhvAt, BhvTo, ImpAt, ImpTo, bufVars, histVars
<1>1. CASE UNCHANGED vars
  BY <1>1 DEF vars
<1>2. ASSUME NEW m \in BhvMsgs, BhvRepeat(m) PROVE TypeOK'
  BY <1>2 DEF BhvRepeat, vars
<1>3. ASSUME NEW m \in BhvMsgs, NEW hour \in Hours, BhvRecv(m, hour)
      PROVE TypeOK'
  <2>1. bhv' \in BhvState
    BY <1>3 DEF BhvState, BhvRecv, BhvPcs, Contents, Msgs
  <2> QED
    BY <1>3, <2>1 DEF BhvRecv
<1>4. CASE BhvStep
  <2>1. CASE BhvSpin
    <3>1. bhv' \in BhvState
      BY <2>1 DEF BhvState, BhvSpin, BhvPcs
    <3> QED
      BY <2>1, <3>1 DEF BhvSpin
  <2>2. CASE BhvDrop
    <3>1. bhv' \in BhvState
      BY <2>2, NoCallType DEF BhvDrop
    <3> QED
      BY <2>2, <3>1 DEF BhvDrop, NoCall
  <2>3. CASE BhvRoom
    <3>0. 0 \in Apps
      BY DEF Apps
    <3>1. bhv' \in BhvState
      BY <2>3, <3>0 DEF BhvState, BhvRoom, BhvPcs
    <3> QED
      BY <2>3, <3>1 DEF BhvRoom
  <2>4. CASE BhvLabel
    <3>1. bhv' \in BhvState
      <4>1. bhv.app \in Apps
        BY DEF BhvState
      <4>2. CASE bhv.app + 1 < AppNum
        <5>1. bhv.app + 1 \in Apps
          BY <4>1, <4>2 DEF Apps
        <5> QED
          BY <2>4, <4>2, <5>1 DEF BhvState, BhvLabel, BhvPcs
      <4> QED
        BY <2>4, <4>2 DEF BhvState, BhvLabel, BhvPcs
    <3>2. Ys_bhv' \in [Apps -> [Slots0 -> Contents]]
      <4> DEFINE row == [Ys_bhv[bhv.app] EXCEPT ![idx_1] = bhv.msg]
      <4>1. bhv.app \in Apps /\ bhv.msg \in Contents
        BY DEF BhvState
      <4>2. row \in [Slots0 -> Contents]
        BY <4>1
      <4>3. Ys_bhv' = [Ys_bhv EXCEPT ![bhv.app] = row]
        BY <2>4 DEF BhvLabel
      <4> HIDE DEF row
      <4> QED
        BY <4>1, <4>2, <4>3
    <3> QED
      BY <2>4, <3>1, <3>2 DEF BhvLabel
  <2>5. CASE BhvLength
    <3>1. bhv' \in BhvState
      BY <2>5 DEF BhvState, BhvLength, BhvPcs
    <3>2. idx_1 \in Slots1 /\ bhv.msg \in Contents
      BY <2>5 DEF BhvLength, BhvInv, Slots1, BhvState
    <3>3. [sample_1[idx_1] EXCEPT !.length = bhv.msg] \in Fields
      BY <3>2, FieldsType
    <3>4. sample_1' \in [Slots1 -> Fields]
      BY <2>5, <3>2, <3>3, UpdateType DEF BhvLength
    <3> QED
      BY <2>5, <3>1, <3>4 DEF BhvLength
  <2>6. CASE BhvCtr
    <3>1. bhv' \in BhvState
      BY <2>6 DEF BhvState, BhvCtr, BhvPcs
    <3>2. idx_1 \in Slots1 /\ bhv.msg \in Contents
      BY <2>6 DEF BhvCtr, BhvInv, Slots1, BhvState
    <3>3. [sample_1[idx_1] EXCEPT !.ctr = bhv.msg] \in Fields
      BY <3>2, FieldsType
    <3>4. sample_1' \in [Slots1 -> Fields]
      BY <2>6, <3>2, <3>3, UpdateType DEF BhvCtr
    <3> QED
      BY <2>6, <3>1, <3>4 DEF BhvCtr
  <2>7. CASE BhvMem
    <3>1. bhv' \in BhvState
      BY <2>7 DEF BhvState, BhvMem, BhvPcs, Contents
    <3>2. idx_1 \in Slots1 /\ bhv.msg \in Contents
      BY <2>7 DEF BhvMem, Memcpy, BhvInv, Slots1, BhvState
    <3>3. ASSUME NEW k \in Slots1, NEW w \in Contents, Memcpy(k, w)
          PROVE  sample_1' \in [Slots1 -> Fields]
      <4>1. [[sample_1[k] EXCEPT !.mem = bhv.msg] EXCEPT !.words = w] \in Fields
        BY <3>2, FieldsType
      <4>2. sample_1' = [sample_1 EXCEPT ![k] =
                           [[sample_1[k] EXCEPT !.mem = bhv.msg] EXCEPT !.words = w]]
        BY <3>3 DEF Memcpy
      <4> QED
        BY <4>1, <4>2, UpdateType
    <3>4. sample_1' \in [Slots1 -> Fields]
      <4>1. sample_1[idx_1].length \in Contents /\ bhv.words \in Contents
        BY <3>2 DEF Fields, BhvState
      <4>2. BhvAt("memlength") => bhv.reg \in Slots1
        BY DEF BhvInv, Slots1, BhvState
      <4> QED
        BY <2>7, <3>2, <3>3, <4>1, <4>2 DEF BhvMem
    <3> QED
      BY <2>7, <3>1, <3>4 DEF BhvMem, Memcpy
  <2>8. CASE BhvIncLoad
    <3>0. idx_1 \in Nat
      OBVIOUS
    <3>1. bhv' \in BhvState
      BY <2>8, <3>0 DEF BhvState, BhvIncLoad, BhvPcs
    <3> QED
      BY <2>8, <3>1 DEF BhvIncLoad
  <2>9. CASE BhvIncStore
    <3>1. bhv' \in BhvState
      BY <2>9 DEF BhvState, BhvIncStore, BhvPcs
    <3>2. bhv.reg \in Nat
      BY DEF BhvState
    <3> QED
      BY <2>9, <3>1, <3>2 DEF BhvIncStore, BhvInv
  <2>10. CASE BhvCntLoad
    <3>1. bhv' \in BhvState
      BY <2>10 DEF BhvState, BhvCntLoad, BhvPcs
    <3> QED
      BY <2>10, <3>1 DEF BhvCntLoad
  <2>11. CASE BhvCntStore
    <3>1. bhv' \in BhvState
      BY <2>11, NoCallType DEF BhvCntStore
    <3>2. bhv.reg \in Nat
      BY DEF BhvState
    <3> QED
      BY <2>11, <3>1, <3>2 DEF BhvCntStore, NoCall
  <2>12. CASE BhvMemArg
    <3>1. idx_1 \in Slots1 /\ idx_1 \in Nat
      BY <2>12 DEF BhvMemArg, BhvInv, Slots1
    <3>2. sample_1[idx_1].length \in Contents
      BY <3>1 DEF Fields
    <3>3. bhv' \in BhvState
      BY <2>12, <3>1, <3>2 DEF BhvState, BhvMemArg, BhvPcs
    <3> QED
      BY <2>12, <3>3 DEF BhvMemArg
  <2> QED
    BY <1>4, <2>1, <2>2, <2>3, <2>4, <2>5, <2>6, <2>7, <2>8, <2>9, <2>10, <2>11, <2>12
    DEF BhvStep
<1>5. ASSUME NEW m \in ImpMsgs, ImpRepeat(m) PROVE TypeOK'
  BY <1>5 DEF ImpRepeat, vars
<1>6. ASSUME NEW m \in ImpMsgs, ImpRecv(m) PROVE TypeOK'
  <2>1. CASE m \in Usable /\ idx_0 < Cap0
    <3>1. imp' \in ImpState
      BY <1>6, <2>1 DEF ImpState, ImpRecv, ImpAppend, ImpPcs
    <3>2. m \in Contents /\ SampleOf(m) \in Fields
      BY DEF SampleOf, Fields, Contents, Msgs
    <3>3. sample_0' \in [Slots0 -> Fields]
      BY <1>6, <2>1, <3>2 DEF ImpRecv, ImpAppend
    <3>4. ASSUME NEW a \in Apps PROVE [Ys_imp[a] EXCEPT ![idx_0] = m] \in [Slots0 -> Contents]
      BY <3>2
    <3>5. Ys_imp' \in [Apps -> [Slots0 -> Contents]]
      BY <1>6, <2>1, <3>4 DEF ImpRecv, ImpAppend
    <3> QED
      BY <1>6, <2>1, <3>1, <3>3, <3>5 DEF ImpRecv, ImpAppend
  <2> QED
    BY <1>6, <2>1 DEF ImpRecv
<1>7. CASE ImpStep
  <2>1. CASE ImpTest
    <3>1. imp' \in ImpState
      BY <2>1 DEF ImpState, ImpTest, ImpPcs
    <3> QED
      BY <2>1, <3>1 DEF ImpTest
  <2>2. CASE ImpReset
    <3>1. imp' \in ImpState
      BY <2>2 DEF ImpState, ImpReset, ImpPcs
    <3> QED
      BY <2>2, <3>1 DEF ImpReset
  <2>3. CASE ImpLock
    <3>1. imp' \in ImpState
      BY <2>3 DEF ImpState, ImpLock, ImpPcs
    <3> QED
      BY <2>3, <3>1 DEF ImpLock
  <2>4. CASE ImpSnap
    <3>0. idx_1 \in Nat
      OBVIOUS
    <3>1. imp' \in ImpState
      BY <2>4, <3>0 DEF ImpState, ImpSnap, ImpPcs
    <3> QED
      BY <2>4, <3>1 DEF ImpSnap
  <2>5. CASE ImpCopy
    <3>1. imp.i \in Nat /\ imp.idx_1 \in Nat
      BY DEF ImpState
    <3>2. imp' \in ImpState
      BY <2>5, <3>1 DEF ImpState, ImpCopy
    <3>3. imp.i \in Slots1
      BY <2>5, <3>1 DEF ImpCopy, ImpInv, InFlush, Slots1
    <3>4. sample_0' \in [Slots0 -> Fields]
      BY <2>5, <3>3 DEF ImpCopy
    <3> QED
      BY <2>5, <3>2, <3>4 DEF ImpCopy
  <2>6. CASE ImpCopied
    <3>0. 0 \in Apps
      BY DEF Apps
    <3>1. imp' \in ImpState
      BY <2>6, <3>0 DEF ImpState, ImpCopied, ImpPcs
    <3> QED
      BY <2>6, <3>1 DEF ImpCopied
  <2>7. CASE ImpGive
    <3>1. imp.app \in Apps
      BY DEF ImpState
    <3>2. CASE imp.app + 1 < AppNum
      <4>1. imp.app + 1 \in Apps
        BY <3>1, <3>2 DEF Apps
      <4>2. imp' \in ImpState
        BY <2>7, <3>2, <4>1 DEF ImpState, ImpGive
      <4> QED
        BY <2>7, <4>2 DEF ImpGive
    <3>3. CASE ~(imp.app + 1 < AppNum)
      <4>1. imp' \in ImpState
        BY <2>7, <3>3 DEF ImpState, ImpGive, ImpPcs
      <4> QED
        BY <2>7, <4>1 DEF ImpGive
    <3> QED
      BY <3>2, <3>3
  <2>8. CASE ImpClear
    <3>1. imp' \in ImpState
      BY <2>8 DEF ImpState, ImpClear, ImpPcs
    <3> QED
      BY <2>8, <3>1 DEF ImpClear
  <2>9. CASE ImpUnlock
    <3>1. imp' \in ImpState
      BY <2>9 DEF ImpState, ImpUnlock, ImpPcs
    <3> QED
      BY <2>9, <3>1 DEF ImpUnlock
  <2> QED
    BY <1>7, <2>1, <2>2, <2>3, <2>4, <2>5, <2>6, <2>7, <2>8, <2>9 DEF ImpStep
<1>8. ASSUME NEW a \in Apps, LearnerDone(a) PROVE TypeOK'
  BY <1>8 DEF LearnerDone
<1> QED
  BY <1>1, <1>2, <1>3, <1>4, <1>5, <1>6, <1>7, <1>8 DEF Next

LEMMA ImpInvStep == IndexInv /\ [Next]_vars => ImpInv'
<1> SUFFICES ASSUME IndexInv, [Next]_vars PROVE ImpInv'
  OBVIOUS
<1> USE SizeAssumption
        DEF IndexInv, TypeOK, ImpInv, InFlush, BhvAt, BhvTo, ImpAt, ImpTo, ImpPcs,
            ImpState, bufVars, histVars
<1>1. CASE UNCHANGED vars
  BY <1>1 DEF vars
<1>2. ASSUME NEW m \in BhvMsgs, BhvRepeat(m) PROVE ImpInv'
  BY <1>2 DEF BhvRepeat, vars
<1>3. ASSUME NEW m \in BhvMsgs, NEW hour \in Hours, BhvRecv(m, hour)
      PROVE ImpInv'
  BY <1>3 DEF BhvRecv
<1>4. CASE BhvStep
  <2>1. CASE BhvSpin
    BY <2>1 DEF BhvSpin
  <2>2. CASE BhvDrop
    BY <2>2 DEF BhvDrop, NoCall
  <2>3. CASE BhvRoom
    BY <2>3 DEF BhvRoom, Full1
  <2>4. CASE BhvLabel
    BY <2>4 DEF BhvLabel
  <2>5. CASE BhvLength
    BY <2>5 DEF BhvLength
  <2>6. CASE BhvCtr
    BY <2>6 DEF BhvCtr
  <2>7. CASE BhvMem
    BY <2>7 DEF BhvMem, Memcpy
  <2>8. CASE BhvIncLoad
    BY <2>8 DEF BhvIncLoad
  <2>9. CASE BhvIncStore
    BY <2>9 DEF BhvIncStore, BhvInv, BhvState
  <2>10. CASE BhvCntLoad
    BY <2>10 DEF BhvCntLoad
  <2>11. CASE BhvCntStore
    BY <2>11 DEF BhvCntStore, NoCall
  <2>12. CASE BhvMemArg
    BY <2>12 DEF BhvMemArg
  <2> QED
    BY <1>4, <2>1, <2>2, <2>3, <2>4, <2>5, <2>6, <2>7, <2>8, <2>9, <2>10, <2>11, <2>12
    DEF BhvStep
<1>5. ASSUME NEW m \in ImpMsgs, ImpRepeat(m) PROVE ImpInv'
  BY <1>5 DEF ImpRepeat, vars
<1>6. ASSUME NEW m \in ImpMsgs, ImpRecv(m) PROVE ImpInv'
  BY <1>6 DEF ImpRecv, ImpAppend
<1>7. CASE ImpStep
  <2>1. CASE ImpTest
    BY <2>1 DEF ImpTest, Enough
  <2>2. CASE ImpReset
    BY <2>2 DEF ImpReset
  <2>3. CASE ImpLock
    BY <2>3 DEF ImpLock
  <2>4. CASE ImpSnap
    BY <2>4 DEF ImpSnap
  <2>5. CASE ImpCopy
    BY <2>5 DEF ImpCopy
  <2>6. CASE ImpCopied
    BY <2>6 DEF ImpCopied
  <2>7. CASE ImpGive
    BY <2>7 DEF ImpGive
  <2>8. CASE ImpClear
    BY <2>8 DEF ImpClear
  <2>9. CASE ImpUnlock
    BY <2>9 DEF ImpUnlock
  <2> QED
    BY <1>7, <2>1, <2>2, <2>3, <2>4, <2>5, <2>6, <2>7, <2>8, <2>9 DEF ImpStep
<1>8. ASSUME NEW a \in Apps, LearnerDone(a) PROVE ImpInv'
  BY <1>8 DEF LearnerDone
<1> QED
  BY <1>1, <1>2, <1>3, <1>4, <1>5, <1>6, <1>7, <1>8 DEF Next

LEMMA BhvInvStep == IndexInv /\ [Next]_vars => BhvInv'
<1> SUFFICES ASSUME IndexInv, [Next]_vars PROVE BhvInv'
  OBVIOUS
<1> USE SizeAssumption
        DEF IndexInv, TypeOK, BhvInv, BhvAt, BhvTo, BhvPcs, BhvState, bufVars, histVars
<1>1. CASE UNCHANGED vars
  BY <1>1 DEF vars
<1>2. ASSUME NEW m \in BhvMsgs, BhvRepeat(m) PROVE BhvInv'
  BY <1>2 DEF BhvRepeat, vars
<1>3. ASSUME NEW m \in BhvMsgs, NEW hour \in Hours, BhvRecv(m, hour)
      PROVE BhvInv'
  BY <1>3 DEF BhvRecv
<1>4. CASE BhvStep
  <2>1. CASE BhvSpin
    BY <2>1 DEF BhvSpin
  <2>2. CASE BhvDrop
    BY <2>2 DEF BhvDrop, NoCall
  <2>3. CASE BhvRoom
    BY <2>3 DEF BhvRoom, Full1
  <2>4. CASE BhvLabel
    BY <2>4 DEF BhvLabel
  <2>5. CASE BhvLength
    BY <2>5 DEF BhvLength
  <2>6. CASE BhvCtr
    BY <2>6 DEF BhvCtr
  <2>7. CASE BhvMem
    BY <2>7 DEF BhvMem, Memcpy
  <2>8. CASE BhvIncLoad
    BY <2>8 DEF BhvIncLoad
  <2>9. CASE BhvIncStore
    BY <2>9 DEF BhvIncStore
  <2>10. CASE BhvCntLoad
    BY <2>10 DEF BhvCntLoad
  <2>11. CASE BhvCntStore
    BY <2>11 DEF BhvCntStore, NoCall
  <2>12. CASE BhvMemArg
    BY <2>12 DEF BhvMemArg
  <2> QED
    BY <1>4, <2>1, <2>2, <2>3, <2>4, <2>5, <2>6, <2>7, <2>8, <2>9, <2>10, <2>11, <2>12
    DEF BhvStep
<1>5. ASSUME NEW m \in ImpMsgs, ImpRepeat(m) PROVE BhvInv'
  BY <1>5 DEF ImpRepeat, vars
<1>6. ASSUME NEW m \in ImpMsgs, ImpRecv(m) PROVE BhvInv'
  BY <1>6 DEF ImpRecv, ImpAppend
<1>7. CASE ImpStep
  <2>1. CASE ImpTest
    BY <2>1 DEF ImpTest, Enough
  <2>2. CASE ImpReset
    BY <2>2 DEF ImpReset
  <2>3. CASE ImpLock
    BY <2>3 DEF ImpLock
  <2>4. CASE ImpSnap
    BY <2>4 DEF ImpSnap
  <2>5. CASE ImpCopy
    BY <2>5 DEF ImpCopy
  <2>6. CASE ImpCopied
    BY <2>6 DEF ImpCopied
  <2>7. CASE ImpGive
    BY <2>7 DEF ImpGive
  <2>8. CASE ImpClear
    BY <2>8 DEF ImpClear
  <2>9. CASE ImpUnlock
    BY <2>9 DEF ImpUnlock
  <2> QED
    BY <1>7, <2>1, <2>2, <2>3, <2>4, <2>5, <2>6, <2>7, <2>8, <2>9 DEF ImpStep
<1>8. ASSUME NEW a \in Apps, LearnerDone(a) PROVE BhvInv'
  BY <1>8 DEF LearnerDone
<1> QED
  BY <1>1, <1>2, <1>3, <1>4, <1>5, <1>6, <1>7, <1>8 DEF Next

LEMMA IndexStep == IndexInv /\ [Next]_vars => IndexInv'
BY TypeStep, ImpInvStep, BhvInvStep DEF IndexInv

(* Every variable keeps its type; _idx_1 never passes 2000. *)
THEOREM TypeCorrect == Spec => []TypeOK
<1>1. IndexInv => TypeOK
  BY DEF IndexInv
<1> QED
  BY <1>1, IndexInit, IndexStep, PTL DEF Spec

(* A flush never writes past sample_0: the batch of impressions and the    *)
(* saved batch of behaviours fit, whatever the races on cntl[1] and _idx_1 *)
(* left there.                                                             *)
THEOREM BatchesFit == Spec => []BatchFits
<1>1. IndexInv => BatchFits
  BY SizeAssumption
  DEF IndexInv, TypeOK, ImpInv, BatchFits, InFlush, ImpState, ImpPcs, ImpAt
<1> QED
  BY <1>1, IndexInit, IndexStep, PTL DEF Spec

(* The slots of sample_1 a flush copies are out of the reach of the        *)
(* behaviour thread's stores until the flush clears _idx_1.                *)
THEOREM RegionStable == Spec => []FlushRegionStable
<1>1. IndexInv => FlushRegionStable
  BY DEF IndexInv, ImpInv, FlushRegionStable
<1> QED
  BY <1>1, IndexInit, IndexStep, PTL DEF Spec

-----------------------------------------------------------------------------
(* What the buffers hold.  A slot below _idx_1 is written, and from slot 1 *)
(* on by a single message.                                                 *)
Written1(s) ==
  /\ sample_1[s].length # NoMsg /\ sample_1[s].ctr # NoMsg
  /\ sample_1[s].mem # NoMsg /\ sample_1[s].words # NoMsg
  /\ \A a \in Apps : Ys_bhv[a][s] # NoMsg
From1(m, s) ==
  /\ sample_1[s].length = m /\ sample_1[s].ctr = m /\ sample_1[s].mem = m
  /\ sample_1[s].words = m
  /\ \A a \in Apps : Ys_bhv[a][s] = m
Good1(s) == Written1(s) /\ (s # 0 => \E m \in BhvMsgs : From1(m, s))
SlotsInv == \A s \in 0 .. idx_1-1 : Good1(s)

(* The slot being filled: what the append has stored so far is there, or a *)
(* flush has cleared _idx_1 and slot 0 holds an older message's.  So the   *)
(* length memcpy reads is always a written one.                            *)
Stored(c) == c # NoMsg /\ (idx_1 # 0 => c = bhv.msg)
FillInv ==
  /\ BhvAt("label") => \A a \in Apps : a < bhv.app => Stored(Ys_bhv[a][idx_1])
  /\ bhv.pc \in {"length", "ctr", "mem", "memto", "memlength", "incload"} =>
       \A a \in Apps : Stored(Ys_bhv[a][idx_1])
  /\ bhv.pc \in {"ctr", "mem", "memto", "memlength", "incload"} =>
       Stored(sample_1[idx_1].length)
  /\ bhv.pc \in {"mem", "memto", "memlength", "incload"} => Stored(sample_1[idx_1].ctr)
  /\ BhvAt("memto") => Stored(bhv.words)
  /\ BhvAt("memlength") /\ bhv.reg # idx_1 =>
       sample_1[idx_1].mem # NoMsg /\ sample_1[idx_1].words # NoMsg
  /\ BhvAt("incload") => Stored(sample_1[idx_1].mem) /\ Stored(sample_1[idx_1].words)
  /\ BhvAt("incstore") => \A s \in 0 .. bhv.reg : Good1(s)

(* The impressions buffered are whole; in a flush, what was copied behind  *)
(* them equals sample_1.                                                   *)
ImpSlotsInv ==
  \A s \in 0 .. idx_0-1 : \E m \in ImpMsgs :
    sample_0[s] = SampleOf(m) /\ \A a \in Apps : Ys_imp[a][s] = m
CopyInv == InFlush => \A s \in 0 .. imp.i-1 : sample_0[idx_0 + s] = sample_1[s]

PendingInv == pending = [a \in Apps |-> pending[a]] /\ TornOnlyFirst

ContentInv == IndexInv /\ SlotsInv /\ FillInv /\ ImpSlotsInv /\ CopyInv /\ PendingInv

(* The contents of the slots, at the start and over every step. *)
LEMMA ContentInit == Init => ContentInv
<1> SUFFICES ASSUME Init PROVE ContentInv
  OBVIOUS
<1>1. SlotsInv /\ FillInv /\ ImpSlotsInv /\ CopyInv
  BY DEF Init, NoCall, SlotsInv, FillInv, ImpSlotsInv, CopyInv, BhvAt, InFlush
<1>2. PendingInv
  BY DEF Init, NoCall, PendingInv, TornOnlyFirst, NoBatch
<1> QED
  BY <1>1, <1>2, IndexInit DEF ContentInv

LEMMA SlotsStep == ContentInv /\ [Next]_vars => SlotsInv'
<1> SUFFICES ASSUME ContentInv, [Next]_vars PROVE SlotsInv'
  OBVIOUS
<1> USE MsgAssumption, SizeAssumption
        DEF ContentInv, IndexInv, TypeOK, bufVars, histVars, BhvAt, ImpAt, BhvTo, ImpTo,
            SlotsInv, Good1, Written1, From1
<1>1. CASE UNCHANGED vars
  BY <1>1 DEF vars
<1>2. ASSUME NEW m \in BhvMsgs, BhvRepeat(m) PROVE SlotsInv'
  BY <1>2 DEF BhvRepeat, vars
<1>3. ASSUME NEW m \in BhvMsgs, NEW hour \in Hours, BhvRecv(m, hour)
      PROVE SlotsInv'
  BY <1>3 DEF BhvRecv
<1>4. CASE BhvStep
  <2>1. CASE BhvSpin
    BY <2>1 DEF BhvSpin
  <2>2. CASE BhvDrop
    BY <2>2 DEF BhvDrop, NoCall
  <2>3. CASE BhvRoom
    BY <2>3 DEF BhvRoom, Full1
  <2>4. CASE BhvLabel
    BY <2>4 DEF BhvLabel, BhvInv, FillInv, Stored, BhvState
  <2>5. CASE BhvLength
    BY <2>5 DEF BhvLength, BhvInv, FillInv, Stored, BhvState
  <2>6. CASE BhvCtr
    BY <2>6 DEF BhvCtr, BhvInv, FillInv, Stored, BhvState
  <2>7. CASE BhvMem
    <3>1. PICK k, w : Memcpy(k, w) /\ k \in Nat /\ k \notin 0 .. idx_1-1
      BY <2>7 DEF BhvMem, BhvInv, BhvState
    <3>2. UNCHANGED <<idx_1, Ys_bhv>>
      BY <2>7 DEF BhvMem
    <3>3. ASSUME NEW s \in 0 .. idx_1-1 PROVE sample_1'[s] = sample_1[s]
      BY <3>1, <3>3 DEF Memcpy, Slots1
    <3>4. ASSUME NEW s \in 0 .. idx_1-1 PROVE Good1(s)'
      <4>1. Good1(s)
        BY <3>4 DEF SlotsInv
      <4> QED
        BY <3>2, <3>3, <3>4, <4>1 DEF Good1, Written1, From1
    <3> QED
      BY <3>2, <3>4 DEF SlotsInv
  <2>8. CASE BhvIncLoad
    BY <2>8 DEF BhvIncLoad
  <2>9. CASE BhvIncStore
    BY <2>9 DEF BhvIncStore, BhvInv, FillInv, Stored, BhvState
  <2>10. CASE BhvCntLoad
    BY <2>10 DEF BhvCntLoad
  <2>11. CASE BhvCntStore
    BY <2>11 DEF BhvCntStore, NoCall
  <2>12. CASE BhvMemArg
    BY <2>12 DEF BhvMemArg
  <2> QED
    BY <1>4, <2>1, <2>2, <2>3, <2>4, <2>5, <2>6, <2>7, <2>8, <2>9, <2>10, <2>11, <2>12
    DEF BhvStep
<1>5. ASSUME NEW m \in ImpMsgs, ImpRepeat(m) PROVE SlotsInv'
  BY <1>5 DEF ImpRepeat, vars
<1>6. ASSUME NEW m \in ImpMsgs, ImpRecv(m) PROVE SlotsInv'
  BY <1>6 DEF ImpRecv, ImpAppend
<1>7. CASE ImpStep
  <2>1. CASE ImpTest
    BY <2>1 DEF ImpTest, Enough
  <2>2. CASE ImpReset
    BY <2>2 DEF ImpReset
  <2>3. CASE ImpLock
    BY <2>3 DEF ImpLock
  <2>4. CASE ImpSnap
    BY <2>4 DEF ImpSnap
  <2>5. CASE ImpCopy
    BY <2>5 DEF ImpCopy
  <2>6. CASE ImpCopied
    BY <2>6 DEF ImpCopied
  <2>7. CASE ImpGive
    BY <2>7 DEF ImpGive
  <2>8. CASE ImpClear
    BY <2>8 DEF ImpClear
  <2>9. CASE ImpUnlock
    BY <2>9 DEF ImpUnlock
  <2> QED
    BY <1>7, <2>1, <2>2, <2>3, <2>4, <2>5, <2>6, <2>7, <2>8, <2>9 DEF ImpStep
<1>8. ASSUME NEW a \in Apps, LearnerDone(a) PROVE SlotsInv'
  BY <1>8 DEF LearnerDone
<1> QED
  BY <1>1, <1>2, <1>3, <1>4, <1>5, <1>6, <1>7, <1>8 DEF Next

LEMMA ImpSlotsStep == ContentInv /\ [Next]_vars => ImpSlotsInv'
<1> SUFFICES ASSUME ContentInv, [Next]_vars PROVE ImpSlotsInv'
  OBVIOUS
<1> USE MsgAssumption, SizeAssumption
        DEF ContentInv, IndexInv, TypeOK, bufVars, histVars, BhvAt, ImpAt, BhvTo, ImpTo, ImpSlotsInv
<1>1. CASE UNCHANGED vars
  BY <1>1 DEF vars
<1>2. ASSUME NEW m \in BhvMsgs, BhvRepeat(m) PROVE ImpSlotsInv'
  BY <1>2 DEF BhvRepeat, vars
<1>3. ASSUME NEW m \in BhvMsgs, NEW hour \in Hours, BhvRecv(m, hour)
      PROVE ImpSlotsInv'
  BY <1>3 DEF BhvRecv
<1>4. CASE BhvStep
  <2>1. CASE BhvSpin
    BY <2>1 DEF BhvSpin
  <2>2. CASE BhvDrop
    BY <2>2 DEF BhvDrop, NoCall
  <2>3. CASE BhvRoom
    BY <2>3 DEF BhvRoom, Full1
  <2>4. CASE BhvLabel
    BY <2>4 DEF BhvLabel
  <2>5. CASE BhvLength
    BY <2>5 DEF BhvLength
  <2>6. CASE BhvCtr
    BY <2>6 DEF BhvCtr
  <2>7. CASE BhvMem
    BY <2>7 DEF BhvMem, Memcpy
  <2>8. CASE BhvIncLoad
    BY <2>8 DEF BhvIncLoad
  <2>9. CASE BhvIncStore
    BY <2>9 DEF BhvIncStore
  <2>10. CASE BhvCntLoad
    BY <2>10 DEF BhvCntLoad
  <2>11. CASE BhvCntStore
    BY <2>11 DEF BhvCntStore, NoCall
  <2>12. CASE BhvMemArg
    BY <2>12 DEF BhvMemArg
  <2> QED
    BY <1>4, <2>1, <2>2, <2>3, <2>4, <2>5, <2>6, <2>7, <2>8, <2>9, <2>10, <2>11, <2>12
    DEF BhvStep
<1>5. ASSUME NEW m \in ImpMsgs, ImpRepeat(m) PROVE ImpSlotsInv'
  BY <1>5 DEF ImpRepeat, vars
<1>6. ASSUME NEW m \in ImpMsgs, ImpRecv(m) PROVE ImpSlotsInv'
  <2>1. CASE m \in Usable /\ idx_0 < Cap0
    <3>1. idx_0 \in Slots0
      BY <1>6 DEF ImpRecv, ImpInv, Slots0
    <3>2. /\ sample_0' = [sample_0 EXCEPT ![idx_0] = SampleOf(m)]
          /\ Ys_imp' = [a \in Apps |-> [Ys_imp[a] EXCEPT ![idx_0] = m]]
          /\ idx_0' = idx_0 + 1
      BY <1>6, <2>1 DEF ImpRecv, ImpAppend
    <3>3. sample_0'[idx_0] = SampleOf(m) /\ \A a \in Apps : Ys_imp'[a][idx_0] = m
      BY <3>1, <3>2
    <3>4. ASSUME NEW s \in 0 .. idx_0-1
          PROVE  sample_0'[s] = sample_0[s]
                 /\ \A a \in Apps : Ys_imp'[a][s] = Ys_imp[a][s]
      BY <3>1, <3>2 DEF Slots0
    <3> QED
      BY <3>2, <3>3, <3>4
  <2> QED
    BY <1>6, <2>1 DEF ImpRecv
<1>7. CASE ImpStep
  <2>1. CASE ImpTest
    BY <2>1 DEF ImpTest, Enough
  <2>2. CASE ImpReset
    BY <2>2 DEF ImpReset
  <2>3. CASE ImpLock
    BY <2>3 DEF ImpLock
  <2>4. CASE ImpSnap
    BY <2>4 DEF ImpSnap
  <2>5. CASE ImpCopy
    BY <2>5 DEF ImpCopy, ImpInv, InFlush, ImpState
  <2>6. CASE ImpCopied
    BY <2>6 DEF ImpCopied
  <2>7. CASE ImpGive
    BY <2>7 DEF ImpGive
  <2>8. CASE ImpClear
    BY <2>8 DEF ImpClear
  <2>9. CASE ImpUnlock
    BY <2>9 DEF ImpUnlock
  <2> QED
    BY <1>7, <2>1, <2>2, <2>3, <2>4, <2>5, <2>6, <2>7, <2>8, <2>9 DEF ImpStep
<1>8. ASSUME NEW a \in Apps, LearnerDone(a) PROVE ImpSlotsInv'
  BY <1>8 DEF LearnerDone
<1> QED
  BY <1>1, <1>2, <1>3, <1>4, <1>5, <1>6, <1>7, <1>8 DEF Next

LEMMA CopyStep == ContentInv /\ [Next]_vars => CopyInv'
<1> SUFFICES ASSUME ContentInv, [Next]_vars PROVE CopyInv'
  OBVIOUS
<1> USE SizeAssumption
        DEF ContentInv, IndexInv, TypeOK, bufVars, histVars, BhvAt, ImpAt, BhvTo, ImpTo, CopyInv, InFlush, ImpState, ImpInv
<1>1. CASE UNCHANGED vars
  BY <1>1 DEF vars
<1>2. ASSUME NEW m \in BhvMsgs, BhvRepeat(m) PROVE CopyInv'
  BY <1>2 DEF BhvRepeat, vars
<1>3. ASSUME NEW m \in BhvMsgs, NEW hour \in Hours, BhvRecv(m, hour)
      PROVE CopyInv'
  BY <1>3 DEF BhvRecv
<1>4. CASE BhvStep
  <2>1. CASE BhvSpin
    BY <2>1 DEF BhvSpin
  <2>2. CASE BhvDrop
    BY <2>2 DEF BhvDrop, NoCall
  <2>3. CASE BhvRoom
    BY <2>3 DEF BhvRoom, Full1
  <2>4. CASE BhvLabel
    BY <2>4 DEF BhvLabel
  <2>5. CASE BhvLength
    BY <2>5 DEF BhvLength
  <2>6. CASE BhvCtr
    BY <2>6 DEF BhvCtr
  <2>7. CASE BhvMem
    <3>1. PICK k, w : Memcpy(k, w) /\ k \in Nat /\ k \notin 0 .. idx_1-1
      BY <2>7 DEF BhvMem, BhvInv, BhvState
    <3>2. UNCHANGED <<idx_0, idx_1, imp, sample_0>>
      BY <2>7 DEF BhvMem
    <3>3. ASSUME NEW s \in 0 .. idx_1-1 PROVE sample_1'[s] = sample_1[s]
      BY <3>1, <3>3 DEF Memcpy, Slots1
    <3> QED
      BY <3>2, <3>3
  <2>8. CASE BhvIncLoad
    BY <2>8 DEF BhvIncLoad
  <2>9. CASE BhvIncStore
    BY <2>9 DEF BhvIncStore
  <2>10. CASE BhvCntLoad
    BY <2>10 DEF BhvCntLoad
  <2>11. CASE BhvCntStore
    BY <2>11 DEF BhvCntStore, NoCall
  <2>12. CASE BhvMemArg
    BY <2>12 DEF BhvMemArg
  <2> QED
    BY <1>4, <2>1, <2>2, <2>3, <2>4, <2>5, <2>6, <2>7, <2>8, <2>9, <2>10, <2>11, <2>12
    DEF BhvStep
<1>5. ASSUME NEW m \in ImpMsgs, ImpRepeat(m) PROVE CopyInv'
  BY <1>5 DEF ImpRepeat, vars
<1>6. ASSUME NEW m \in ImpMsgs, ImpRecv(m) PROVE CopyInv'
  BY <1>6 DEF ImpRecv, ImpAppend
<1>7. CASE ImpStep
  <2>1. CASE ImpTest
    BY <2>1 DEF ImpTest, Enough
  <2>2. CASE ImpReset
    BY <2>2 DEF ImpReset
  <2>3. CASE ImpLock
    BY <2>3 DEF ImpLock
  <2>4. CASE ImpSnap
    BY <2>4 DEF ImpSnap
  <2>5. CASE ImpCopy
    <3>1. imp.i \in Nat /\ imp.idx_1 \in Nat /\ imp'.i = imp.i + 1
          /\ idx_0 + imp.i \in Slots0
      BY <2>5 DEF ImpCopy, Slots0
    <3>2. sample_0' = [sample_0 EXCEPT ![idx_0 + imp.i] = sample_1[imp.i]]
          /\ UNCHANGED <<idx_0, sample_1>>
      BY <2>5 DEF ImpCopy
    <3>3. sample_0'[idx_0 + imp.i] = sample_1[imp.i]
      BY <3>1, <3>2
    <3>4. ASSUME NEW s \in 0 .. imp.i-1 PROVE sample_0'[idx_0 + s] = sample_0[idx_0 + s]
      BY <3>1, <3>2 DEF Slots0
    <3>5. ASSUME NEW s \in 0 .. imp.i PROVE sample_0'[idx_0 + s] = sample_1[s]
      BY <2>5, <3>1, <3>3, <3>4 DEF ImpCopy
    <3> QED
      BY <2>5, <3>1, <3>2, <3>5 DEF ImpCopy
  <2>6. CASE ImpCopied
    BY <2>6 DEF ImpCopied
  <2>7. CASE ImpGive
    BY <2>7 DEF ImpGive
  <2>8. CASE ImpClear
    BY <2>8 DEF ImpClear
  <2>9. CASE ImpUnlock
    BY <2>9 DEF ImpUnlock
  <2> QED
    BY <1>7, <2>1, <2>2, <2>3, <2>4, <2>5, <2>6, <2>7, <2>8, <2>9 DEF ImpStep
<1>8. ASSUME NEW a \in Apps, LearnerDone(a) PROVE CopyInv'
  BY <1>8 DEF LearnerDone
<1> QED
  BY <1>1, <1>2, <1>3, <1>4, <1>5, <1>6, <1>7, <1>8 DEF Next

(* Steps that do not touch the slots of the behaviours. *)
LEMMA FillFrame ==
  ASSUME FillInv, UNCHANGED <<idx_1, sample_1, Ys_bhv, bhv>> PROVE FillInv'
BY DEF FillInv, Stored, Good1, Written1, From1, BhvAt

(* Storing a field, publishing the slot, and clearing _idx_1 under an      *)
(* append that is half done.                                               *)
LEMMA FillStep == ContentInv /\ [Next]_vars => FillInv'
<1> SUFFICES ASSUME ContentInv, [Next]_vars PROVE FillInv'
  OBVIOUS
<1> USE MsgAssumption, SizeAssumption
        DEF ContentInv, IndexInv, TypeOK, BhvInv, bufVars, histVars, BhvAt, ImpAt,
            BhvTo, ImpTo, Msgs
<1>1. CASE UNCHANGED vars
  BY <1>1, FillFrame DEF vars
<1>2. ASSUME NEW m \in BhvMsgs, BhvRepeat(m) PROVE FillInv'
  BY <1>2, FillFrame DEF BhvRepeat, vars
<1>3. ASSUME NEW m \in BhvMsgs, NEW hour \in Hours, BhvRecv(m, hour)
      PROVE FillInv'
  BY <1>3 DEF BhvRecv, FillInv, BhvState
<1>4. CASE BhvStep
  <2>1. CASE BhvSpin
    BY <2>1 DEF BhvSpin, FillInv, BhvState
  <2>2. CASE BhvDrop
    BY <2>2 DEF BhvDrop, NoCall, FillInv, BhvState
  <2>3. CASE BhvRoom
    <3>1. bhv'.pc = "label" /\ bhv'.app = 0
      BY <2>3 DEF BhvRoom, BhvState
    <3> QED
      BY <3>1 DEF FillInv, Apps
  <2>4. CASE BhvLabel
    <3>1. idx_1 \in Slots0 /\ bhv.msg # NoMsg /\ bhv.app \in Apps
      BY <2>4 DEF BhvLabel, Slots0, BhvState
    <3>2. /\ Ys_bhv' = [Ys_bhv EXCEPT ![bhv.app][idx_1] = bhv.msg]
          /\ UNCHANGED <<idx_1, sample_1>> /\ bhv'.msg = bhv.msg
      BY <2>4 DEF BhvLabel, BhvState
    <3>3. \A a \in Apps : Ys_bhv'[a][idx_1] =
            IF a = bhv.app THEN bhv.msg ELSE Ys_bhv[a][idx_1]
      BY <3>1, <3>2
    <3>4. \A a \in Apps : a < bhv.app + 1 => Stored(Ys_bhv[a][idx_1])'
      BY <2>4, <3>1, <3>2, <3>3 DEF BhvLabel, FillInv, Stored, Apps
    <3>5. CASE bhv.app + 1 < AppNum
      <4>1. bhv'.pc = "label" /\ bhv'.app = bhv.app + 1
        BY <2>4, <3>5 DEF BhvLabel, BhvState
      <4> QED
        BY <3>4, <4>1 DEF FillInv
    <3>6. CASE ~(bhv.app + 1 < AppNum)
      <4>1. bhv'.pc = "length"
        BY <2>4, <3>6 DEF BhvLabel, BhvState
      <4>2. \A a \in Apps : a < bhv.app + 1
        BY <3>1, <3>6 DEF Apps
      <4> QED
        BY <3>4, <4>1, <4>2 DEF FillInv
    <3> QED
      BY <3>5, <3>6
  <2>5. CASE BhvLength
    <3>1. idx_1 \in Slots1 /\ bhv.msg # NoMsg
      BY <2>5 DEF BhvLength, Slots1
    <3>2. sample_1' = [sample_1 EXCEPT ![idx_1].length = bhv.msg]
          /\ bhv' = [bhv EXCEPT !.pc = bhv'.pc] /\ UNCHANGED <<idx_1, Ys_bhv>>
      BY <2>5 DEF BhvLength, BhvState
    <3>3. sample_1'[idx_1] = [sample_1[idx_1] EXCEPT !.length = bhv.msg]
      BY <3>1, <3>2
    <3>4. sample_1[idx_1] \in Fields
      BY <3>1
    <3>5. sample_1'[idx_1].length = bhv.msg
          /\ sample_1'[idx_1].ctr = sample_1[idx_1].ctr
          /\ sample_1'[idx_1].mem = sample_1[idx_1].mem
      BY <3>3, <3>4 DEF Fields
    <3>6. bhv'.msg = bhv.msg
      BY <3>2 DEF BhvState
    <3> QED
      BY <2>5, <3>1, <3>2, <3>5, <3>6 DEF BhvLength, FillInv, Stored, BhvState
  <2>6. CASE BhvCtr
    <3>1. idx_1 \in Slots1 /\ bhv.msg # NoMsg
      BY <2>6 DEF BhvCtr, Slots1
    <3>2. sample_1' = [sample_1 EXCEPT ![idx_1].ctr = bhv.msg]
          /\ bhv' = [bhv EXCEPT !.pc = bhv'.pc] /\ UNCHANGED <<idx_1, Ys_bhv>>
      BY <2>6 DEF BhvCtr, BhvState
    <3>3. sample_1'[idx_1] = [sample_1[idx_1] EXCEPT !.ctr = bhv.msg]
      BY <3>1, <3>2
    <3>4. sample_1[idx_1] \in Fields
      BY <3>1
    <3>5. sample_1'[idx_1].ctr = bhv.msg
          /\ sample_1'[idx_1].length = sample_1[idx_1].length
          /\ sample_1'[idx_1].mem = sample_1[idx_1].mem
      BY <3>3, <3>4 DEF Fields
    <3>6. bhv'.msg = bhv.msg
      BY <3>2 DEF BhvState
    <3> QED
      BY <2>6, <3>1, <3>2, <3>5, <3>6 DEF BhvCtr, FillInv, Stored, BhvState
  <2>7. CASE BhvMem
    <3>1. PICK k \in Slots1, w \in Contents :
            /\ sample_1' = [sample_1 EXCEPT ![k].mem = bhv.msg, ![k].words = w]
            /\ (k = idx_1 /\ Stored(w))
               \/ (BhvAt("memlength") /\ k # idx_1 /\ k = bhv.reg)
      <4>1. idx_1 \in Slots1 /\ (BhvAt("memlength") => bhv.reg \in Slots1)
        BY <2>7 DEF BhvMem, Slots1, BhvState
      <4>2. sample_1[idx_1].length \in Contents /\ bhv.words \in Contents
        BY <4>1 DEF Fields, BhvState
      <4>3. CASE BhvAt("memto") /\ Memcpy(idx_1, bhv.words)
        BY <4>1, <4>2, <4>3 DEF Memcpy, FillInv
      <4>4. CASE BhvAt("memlength") /\ Memcpy(bhv.reg, sample_1[idx_1].length)
        BY <4>1, <4>2, <4>4 DEF Memcpy, FillInv
      <4> QED
        BY <2>7, <4>3, <4>4 DEF BhvMem
    <3>2. /\ bhv'.pc = "incload" /\ bhv'.msg = bhv.msg /\ bhv.pc \in {"memto", "memlength"}
          /\ UNCHANGED <<idx_1, Ys_bhv>> /\ idx_1 \in Slots1 /\ bhv.msg # NoMsg
      BY <2>7 DEF BhvMem, BhvState, Slots1
    <3>3. CASE k = idx_1 /\ Stored(w)
      <4>1. sample_1'[k] = [[sample_1[k] EXCEPT !.mem = bhv.msg] EXCEPT !.words = w]
        BY <3>1
      <4>2. sample_1[k] \in Fields
        BY <3>1
      <4>3. /\ sample_1'[k].mem = bhv.msg /\ sample_1'[k].words = w
            /\ sample_1'[k].length = sample_1[k].length /\ sample_1'[k].ctr = sample_1[k].ctr
        BY <4>1, <4>2 DEF Fields
      <4> QED
        BY <3>2, <3>3, <4>3 DEF FillInv, Stored
    <3>4. CASE BhvAt("memlength") /\ k # idx_1 /\ k = bhv.reg
      <4>1. sample_1'[idx_1] = sample_1[idx_1]
        BY <3>1, <3>2, <3>4
      <4>2. idx_1 = 0 /\ idx_1 # bhv.reg
        BY <3>4
      <4> QED
        BY <3>2, <3>4, <4>1, <4>2 DEF FillInv, Stored
    <3> QED
      BY <3>1, <3>3, <3>4
  <2>8. CASE BhvIncLoad
    <3>1. bhv'.pc = "incstore" /\ bhv'.reg = idx_1
      BY <2>8 DEF BhvIncLoad, BhvState
    <3>2. Good1(idx_1)
      BY <2>8 DEF BhvIncLoad, FillInv, Stored, Good1, Written1, From1
    <3>3. \A s \in 0 .. idx_1 : Good1(s)
      <4>1. idx_1 \in Nat
        OBVIOUS
      <4>2. \A s \in 0 .. idx_1 : s = idx_1 \/ s \in 0 .. idx_1-1
        BY ONLY <4>1
      <4> QED
        BY ONLY <3>2, <4>2, SlotsInv DEF SlotsInv
    <3>4. \A s \in 0 .. idx_1 : Good1(s)'
      BY <2>8, <3>3 DEF BhvIncLoad, Good1, Written1, From1
    <3> QED
      BY <3>1, <3>4 DEF FillInv
  <2>9. CASE BhvIncStore
    BY <2>9 DEF BhvIncStore, FillInv, BhvState
  <2>10. CASE BhvCntLoad
    BY <2>10 DEF BhvCntLoad, FillInv, BhvState
  <2>11. CASE BhvCntStore
    BY <2>11 DEF BhvCntStore, NoCall, FillInv, BhvState
  <2>12. CASE BhvMemArg
    <3>1. UNCHANGED <<idx_1, sample_1, Ys_bhv>> /\ bhv.pc = "mem" /\ bhv'.msg = bhv.msg
          /\ \/ bhv'.pc = "memto" /\ bhv'.words = sample_1[idx_1].length
             \/ bhv'.pc = "memlength" /\ bhv'.reg = idx_1
      BY <2>12 DEF BhvMemArg, BhvState
    <3> QED
      BY <3>1 DEF FillInv, Stored
  <2> QED
    BY <1>4, <2>1, <2>2, <2>3, <2>4, <2>5, <2>6, <2>7, <2>8, <2>9, <2>10, <2>11, <2>12
    DEF BhvStep
<1>5. ASSUME NEW m \in ImpMsgs, ImpRepeat(m) PROVE FillInv'
  BY <1>5, FillFrame DEF ImpRepeat, vars
<1>6. ASSUME NEW m \in ImpMsgs, ImpRecv(m) PROVE FillInv'
  BY <1>6, FillFrame DEF ImpRecv, ImpAppend
<1>7. CASE ImpStep
  <2>1. CASE ImpTest
    BY <2>1, FillFrame DEF ImpTest
  <2>2. CASE ImpReset
    BY <2>2, FillFrame DEF ImpReset
  <2>3. CASE ImpLock
    BY <2>3, FillFrame DEF ImpLock
  <2>4. CASE ImpSnap
    BY <2>4, FillFrame DEF ImpSnap
  <2>5. CASE ImpCopy
    BY <2>5, FillFrame DEF ImpCopy
  <2>6. CASE ImpCopied
    BY <2>6, FillFrame DEF ImpCopied
  <2>7. CASE ImpGive
    BY <2>7, FillFrame DEF ImpGive
  <2>8. CASE ImpClear
    <3>1. UNCHANGED <<sample_1, Ys_bhv, bhv>> /\ idx_1' = 0
      BY <2>8 DEF ImpClear
    <3>2. CASE idx_1 = 0
      BY <3>1, <3>2, FillFrame
    <3>3. CASE idx_1 # 0
      <4>1. Good1(0)
        BY <3>3 DEF SlotsInv
      <4>2. /\ Stored(sample_1[idx_1].length)' /\ Stored(sample_1[idx_1].ctr)'
            /\ Stored(sample_1[idx_1].mem)' /\ Stored(sample_1[idx_1].words)'
            /\ \A a \in Apps : Stored(Ys_bhv[a][idx_1])'
        BY <3>1, <4>1 DEF Good1, Written1, Stored
      <4>3. BhvAt("incstore") => \A s \in 0 .. bhv.reg : Good1(s)'
        BY <3>1 DEF FillInv, Good1, Written1, From1
      <4>4. BhvAt("memto") => Stored(bhv.words)'
        BY <3>1 DEF FillInv, Stored
      <4> QED
        BY <3>1, <4>2, <4>3, <4>4 DEF FillInv, Stored
    <3> QED
      BY <3>2, <3>3
  <2>9. CASE ImpUnlock
    BY <2>9, FillFrame DEF ImpUnlock
  <2> QED
    BY <1>7, <2>1, <2>2, <2>3, <2>4, <2>5, <2>6, <2>7, <2>8, <2>9 DEF ImpStep
<1>8. ASSUME NEW a \in Apps, LearnerDone(a) PROVE FillInv'
  BY <1>8, FillFrame DEF LearnerDone
<1> QED
  BY <1>1, <1>2, <1>3, <1>4, <1>5, <1>6, <1>7, <1>8 DEF Next

(* Steps that give no batch. *)
LEMMA PendingFrame ==
  ASSUME PendingInv, UNCHANGED pending PROVE PendingInv'
BY DEF PendingInv, TornOnlyFirst, WrittenAt, WholeAt

(* What GetData is given, and what the learner gives back. *)
LEMMA PendingStep == ContentInv /\ [Next]_vars => PendingInv'
<1> SUFFICES ASSUME ContentInv, [Next]_vars PROVE PendingInv'
  OBVIOUS
<1> USE MsgAssumption, SizeAssumption
        DEF ContentInv, IndexInv, TypeOK, ImpAt
<1>1. CASE UNCHANGED pending
  BY <1>1, PendingFrame
<1>2. CASE ImpGive
  <2> DEFINE A == imp.app
             B == BatchFor(A)
  <2>1. /\ A \in Apps /\ imp.idx_1 \in Nat /\ imp.i = imp.idx_1
        /\ imp.idx_1 <= idx_1 /\ imp.pc = "give"
    BY <1>2 DEF ImpGive, ImpState, ImpInv, InFlush
  <2>2. pending' = [pending EXCEPT ![A] = B]
    BY <1>2 DEF ImpGive
  <2>3. /\ B.neg = idx_0 /\ B.len = idx_0 + imp.idx_1
        /\ \A s \in 0 .. B.len-1 : B.x[s] = sample_0[s] /\ B.y[s] =
             IF s < idx_0 THEN Ys_imp[A][s] ELSE Ys_bhv[A][s - idx_0]
    BY DEF BatchFor, Ytemp
  <2> HIDE DEF B
  <2>4. ASSUME NEW s \in 0 .. B.len-1
        PROVE  WrittenAt(B, s) /\ (s # B.neg => WholeAt(B, s))
    <3>1. CASE s < idx_0
      <4>1. PICK m \in ImpMsgs : sample_0[s] = SampleOf(m)
                                 /\ \A a \in Apps : Ys_imp[a][s] = m
        BY <3>1, <2>1, <2>3 DEF ImpSlotsInv
      <4>2. B.x[s] = SampleOf(m) /\ B.y[s] = m /\ m \in Msgs
        BY <2>1, <2>3, <3>1, <4>1 DEF Msgs
      <4> QED
        BY <4>2 DEF WrittenAt, WholeAt, SampleOf
    <3>2. CASE ~(s < idx_0)
      <4> DEFINE k == s - idx_0
      <4>1. k \in 0 .. imp.idx_1-1 /\ k \in 0 .. idx_1-1 /\ k \in Slots1
            /\ idx_0 + k = s
        BY <2>1, <2>3, <3>2 DEF Slots1
      <4>2. B.x[s] = sample_1[k] /\ B.y[s] = Ys_bhv[A][k]
        <5>1. sample_0[idx_0 + k] = sample_1[k]
          BY <2>1, <4>1 DEF CopyInv, InFlush
        <5> QED
          BY <5>1, <2>3, <3>2, <4>1
      <4>3. Good1(k)
        BY <4>1 DEF SlotsInv
      <4>4. WrittenAt(B, s)
        BY <2>1, <4>2, <4>3 DEF Good1, Written1, WrittenAt
      <4>5. k # 0 => WholeAt(B, s)
        <5> SUFFICES ASSUME k # 0 PROVE WholeAt(B, s)
          OBVIOUS
        <5>1. PICK m \in BhvMsgs : From1(m, k)
          BY <4>3 DEF Good1
        <5>2. sample_1[k] \in Fields
          BY <4>1
        <5>3. sample_1[k] = SampleOf(m)
          BY <5>1, <5>2 DEF From1, SampleOf, Fields
        <5>4. B.x[s] = SampleOf(m) /\ B.y[s] = m /\ m \in Msgs
          BY <2>1, <4>2, <5>1, <5>3 DEF From1, Msgs
        <5> QED
          BY <5>4 DEF WholeAt
      <4> QED
        BY <2>3, <4>1, <4>4, <4>5
    <3> QED
      BY <3>1, <3>2
  <2>5. pending' = [a \in Apps |-> pending'[a]]
        /\ \A a \in Apps : pending'[a] = IF a = A THEN B ELSE pending[a]
    BY <2>1, <2>2 DEF PendingInv
  <2> QED
    BY <2>4, <2>5 DEF PendingInv, TornOnlyFirst, WrittenAt, WholeAt
<1>3. ASSUME NEW a \in Apps, LearnerDone(a) PROVE PendingInv'
  <2>1. pending' = [b \in Apps |-> pending'[b]]
        /\ \A b \in Apps : pending'[b] = IF b = a THEN NoBatch ELSE pending[b]
    BY <1>3 DEF LearnerDone, PendingInv
  <2>2. ASSUME NEW b \in Apps, NEW s \in 0 .. pending'[b].len - 1
        PROVE  /\ WrittenAt(pending'[b], s)
               /\ s # pending'[b].neg => WholeAt(pending'[b], s)
    <3>1. b # a
      BY <2>1, <2>2 DEF NoBatch
    <3> QED
      BY <2>1, <2>2, <3>1 DEF PendingInv, TornOnlyFirst
  <2> QED
    BY <2>1, <2>2 DEF PendingInv, TornOnlyFirst, WrittenAt, WholeAt
<1>4. CASE BhvStep
  BY <1>1, <1>4 DEF BhvStep, BhvSpin, BhvDrop, BhvRoom, BhvLabel, BhvLength,
     BhvCtr, BhvMemArg, BhvMem, BhvIncLoad, BhvIncStore, BhvCntLoad, BhvCntStore
<1>5. CASE ImpStep
  BY <1>1, <1>2, <1>5 DEF ImpStep, ImpTest, ImpReset, ImpLock, ImpSnap, ImpCopy,
     ImpCopied, ImpClear, ImpUnlock
<1>6. ASSUME NEW m, BhvRepeat(m) \/ ImpRepeat(m) \/ ImpRecv(m) PROVE PendingInv'
  BY <1>1, <1>6 DEF BhvRepeat, ImpRepeat, ImpRecv, vars
<1>7. ASSUME NEW m, NEW hour, BhvRecv(m, hour) PROVE PendingInv'
  BY <1>1, <1>7 DEF BhvRecv
<1> QED
  BY <1>1, <1>3, <1>4, <1>5, <1>6, <1>7 DEF Next, vars

LEMMA ContentStep == ContentInv /\ [Next]_vars => ContentInv'
BY IndexStep, SlotsStep, FillStep, ImpSlotsStep, CopyStep, PendingStep DEF ContentInv

(* A batch handed to a learner holds no unwritten slot, and only the first *)
(* behaviour of it may be mixed from several messages or have features     *)
(* copied with the length of another one.                                  *)
THEOREM BatchesTornOnlyFirst == Spec => []TornOnlyFirst
<1>1. ContentInv => TornOnlyFirst
  BY DEF ContentInv, PendingInv
<1> QED
  BY <1>1, ContentInit, ContentStep, PTL DEF Spec

-----------------------------------------------------------------------------
(* Impressions.  Of the messages with one mark at most one was let in, and *)
(* if all of them parse, one was: a learner has it, or it waits for it.    *)
Has(a, m) == WaitsFor(a, m) \/ m \in given[a]
OnceInv ==
  /\ \A a \in Apps, m \in ImpMsgs : ~(WaitsFor(a, m) /\ m \in given[a])
  /\ \A a \in Apps, m \in ImpMsgs : Has(a, m) => MarkKey[m] \in seen_0
  /\ \A a \in Apps : \A m, n \in ImpMsgs :
       Has(a, m) /\ Has(a, n) /\ MarkKey[m] = MarkKey[n] => m = n
  /\ \A a \in Apps : \A key \in seen_0 :
       {m \in ImpMsgs : MarkKey[m] = key} \subseteq Usable =>
         \E m \in ImpMsgs : MarkKey[m] = key /\ Has(a, m)

(* The features in sample_1 are of behaviours, so no flush gives a learner *)
(* an impression through them.                                             *)
Mem1Inv ==
  /\ \A s \in Slots1 : sample_1[s].mem \in BhvMsgs \cup {NoMsg}
  /\ given = [a \in Apps |-> given[a]]

LEMMA Mem1Step == IndexInv /\ Mem1Inv /\ [Next]_vars => Mem1Inv'
<1> SUFFICES ASSUME IndexInv, Mem1Inv, [Next]_vars PROVE Mem1Inv'
  OBVIOUS
<1> USE SizeAssumption
        DEF IndexInv, TypeOK, Mem1Inv, BhvInv, bufVars, histVars, BhvAt, ImpAt
<1>1. CASE UNCHANGED <<sample_1, given>>
  BY <1>1
<1>2. CASE BhvLength \/ BhvCtr
  <2>1. idx_1 \in Slots1 /\ UNCHANGED given
    BY <1>2 DEF BhvLength, BhvCtr, Slots1
  <2>2. sample_1[idx_1] \in Fields
    BY <2>1
  <2>3. ASSUME NEW f, f = [sample_1[idx_1] EXCEPT !.length = bhv.msg]
                      \/ f = [sample_1[idx_1] EXCEPT !.ctr = bhv.msg]
        PROVE  f.mem = sample_1[idx_1].mem
    BY <2>2, <2>3 DEF Fields
  <2>4. /\ \A s \in Slots1 : s # idx_1 => sample_1'[s] = sample_1[s]
        /\ \/ sample_1'[idx_1] = [sample_1[idx_1] EXCEPT !.length = bhv.msg]
           \/ sample_1'[idx_1] = [sample_1[idx_1] EXCEPT !.ctr = bhv.msg]
    BY <1>2, <2>1 DEF BhvLength, BhvCtr
  <2>5. \A s \in Slots1 : sample_1'[s].mem = sample_1[s].mem
    BY <2>3, <2>4
  <2> QED
    BY <2>1, <2>5
<1>12. CASE BhvMem
  <2>1. bhv.msg \in BhvMsgs /\ UNCHANGED given
    BY <1>12 DEF BhvMem
  <2>2. PICK k, w : Memcpy(k, w)
    BY <1>12 DEF BhvMem
  <2>3. ASSUME NEW s \in Slots1 PROVE sample_1'[s].mem \in {sample_1[s].mem, bhv.msg}
    <3>1. sample_1[s] \in Fields
      OBVIOUS
    <3>2. CASE s = k
      <4>1. sample_1'[s] = [[sample_1[s] EXCEPT !.mem = bhv.msg] EXCEPT !.words = w]
        BY <2>2, <3>2 DEF Memcpy
      <4> QED
        BY <3>1, <4>1 DEF Fields
    <3>3. CASE s # k
      BY <2>2, <3>3 DEF Memcpy
    <3> QED
      BY <3>2, <3>3
  <2> QED
    BY <2>1, <2>3
<1>3. CASE ImpGive
  BY <1>3 DEF ImpGive
<1>4. CASE BhvStep
  BY <1>1, <1>2, <1>4, <1>12
  DEF BhvStep, BhvSpin, BhvDrop, BhvRoom, BhvLabel, BhvMemArg, BhvIncLoad,
     BhvIncStore, BhvCntLoad, BhvCntStore
<1>5. CASE ImpStep
  BY <1>1, <1>3, <1>5 DEF ImpStep, ImpTest, ImpReset, ImpLock, ImpSnap, ImpCopy,
     ImpCopied, ImpClear, ImpUnlock
<1>6. ASSUME NEW m, BhvRepeat(m) \/ ImpRepeat(m) \/ ImpRecv(m) PROVE Mem1Inv'
  BY <1>1, <1>6 DEF BhvRepeat, ImpRepeat, ImpRecv, vars
<1>7. ASSUME NEW m, NEW hour, BhvRecv(m, hour) PROVE Mem1Inv'
  BY <1>1, <1>7 DEF BhvRecv
<1>8. ASSUME NEW a \in Apps, LearnerDone(a) PROVE Mem1Inv'
  BY <1>1, <1>8 DEF LearnerDone
<1> QED
  BY <1>1, <1>4, <1>5, <1>6, <1>7, <1>8 DEF Next, vars

(* Steps that neither see nor give an impression. *)
LEMMA OnceFrame ==
  ASSUME OnceInv, UNCHANGED <<seen_0, given>>,
         \A a \in Apps, m \in ImpMsgs : WaitsFor(a, m)' <=> WaitsFor(a, m)
  PROVE  OnceInv'
BY DEF OnceInv, Has

(* An impression is with the parser, on its way or given. *)
LEMMA OnceStep == ContentInv /\ Mem1Inv /\ OnceInv /\ [Next]_vars => OnceInv'
<1> SUFFICES ASSUME ContentInv, Mem1Inv, OnceInv, [Next]_vars PROVE OnceInv'
  OBVIOUS
<1> USE MsgAssumption, SizeAssumption DEF bufVars, histVars, BhvAt, ImpAt, BhvTo, ImpTo
<1>0. /\ imp \in ImpState /\ idx_0 \in Nat /\ sample_0 \in [Slots0 -> Fields]
      /\ imp.app \in Apps
  BY DEF ContentInv, IndexInv, TypeOK, ImpState
<1>1. CASE UNCHANGED <<idx_0, sample_0, imp, seen_0, given>>
  BY <1>1, OnceFrame DEF WaitsFor
<1>2. ASSUME NEW m \in ImpMsgs, ImpRecv(m) PROVE OnceInv'
  <2>1. seen_0' = seen_0 \cup {MarkKey[m]} /\ MarkKey[m] \notin seen_0
        /\ UNCHANGED given /\ imp.pc = "idle"
    BY <1>2 DEF ImpRecv, Mark0, Minute
  <2>2. CASE m \in Usable /\ idx_0 < Cap0
    <3>1. idx_0 \in Slots0
      BY <2>1 DEF ContentInv, IndexInv, ImpInv, Slots0, TypeOK
    <3>2. /\ sample_0' = [sample_0 EXCEPT ![idx_0] = SampleOf(m)]
          /\ idx_0' = idx_0 + 1 /\ imp'.pc = "test"
      BY <1>0, <1>2, <2>2 DEF ImpRecv, ImpAppend, ImpState
    <3>3. sample_0'[idx_0].mem = m
          /\ \A s \in 0 .. idx_0 - 1 : sample_0'[s].mem = sample_0[s].mem
      BY <1>0, <3>1, <3>2 DEF SampleOf, Slots0
    <3>4. \A a \in Apps, n \in ImpMsgs : WaitsFor(a, n)' <=> WaitsFor(a, n) \/ n = m
      <4>1. \A s : s \in 0 .. idx_0' - 1 <=> s \in 0 .. idx_0 - 1 \/ s = idx_0
        BY <1>0, <3>2
      <4> QED
        BY <2>1, <3>2, <3>3, <4>1 DEF WaitsFor
    <3>5. \A a \in Apps, n \in ImpMsgs : Has(a, n)' <=> Has(a, n) \/ n = m
      BY <2>1, <3>4 DEF Has
    <3>6. \A a \in Apps : ~Has(a, m)
      BY <2>1 DEF OnceInv
    <3>7. \A a \in Apps, n \in ImpMsgs : ~(WaitsFor(a, n) /\ n \in given[a])'
      BY <2>1, <3>4, <3>6 DEF OnceInv, Has
    <3>8. \A a \in Apps, n \in ImpMsgs : Has(a, n)' => MarkKey[n] \in seen_0'
      BY <2>1, <3>5 DEF OnceInv
    <3>9. \A a \in Apps : \A n, k \in ImpMsgs :
            Has(a, n)' /\ Has(a, k)' /\ MarkKey[n] = MarkKey[k] => n = k
      BY <2>1, <3>5 DEF OnceInv
    <3>10. \A a \in Apps : \A key \in seen_0' :
             {n \in ImpMsgs : MarkKey[n] = key} \subseteq Usable =>
               \E n \in ImpMsgs : MarkKey[n] = key /\ Has(a, n)'
      BY <2>1, <3>5 DEF OnceInv
    <3> QED
      BY <3>7, <3>8, <3>9, <3>10 DEF OnceInv
  <2>3. CASE ~(m \in Usable /\ idx_0 < Cap0)
    <3>1. m \notin Usable
      BY <2>1, <2>3 DEF ContentInv, IndexInv, ImpInv, TypeOK
    <3>2. UNCHANGED <<idx_0, sample_0, imp>>
      BY <1>2, <2>3 DEF ImpRecv
    <3>3. \A a \in Apps, n \in ImpMsgs :
            /\ WaitsFor(a, n)' <=> WaitsFor(a, n)
            /\ Has(a, n)' <=> Has(a, n)
      BY <2>1, <3>2 DEF WaitsFor, Has
    <3> QED
      BY <2>1, <3>1, <3>3 DEF OnceInv
  <2> QED
    BY <2>2, <2>3
<1>3. CASE ImpTest \/ ImpReset \/ ImpLock \/ ImpSnap \/ ImpUnlock
  <2>1. /\ UNCHANGED <<idx_0, sample_0, seen_0, given>>
        /\ imp.pc \notin {"give", "clear"} /\ imp'.pc \notin {"give", "clear"}
    BY <1>0, <1>3 DEF ImpTest, ImpReset, ImpLock, ImpSnap, ImpUnlock, ImpState
  <2> QED
    BY <2>1, OnceFrame DEF WaitsFor
<1>4. CASE ImpCopy
  <2>1. /\ UNCHANGED <<idx_0, seen_0, given>> /\ imp.pc = "copy" /\ imp'.pc = "copy"
        /\ imp.i \in Nat /\ sample_0' = [sample_0 EXCEPT ![idx_0 + imp.i] = sample_1[imp.i]]
    BY <1>0, <1>4 DEF ImpCopy, ImpState
  <2>2. \A s \in 0 .. idx_0 - 1 : sample_0'[s] = sample_0[s]
    BY <1>0, <2>1
  <2> QED
    BY <2>1, <2>2, OnceFrame DEF WaitsFor
<1>5. CASE ImpCopied
  <2>1. /\ UNCHANGED <<idx_0, sample_0, seen_0, given>>
        /\ imp.pc = "copy" /\ imp'.pc = "give" /\ imp'.app = 0
    BY <1>0, <1>5 DEF ImpCopied, ImpState
  <2> QED
    BY <2>1, OnceFrame DEF WaitsFor, Apps
<1>6. CASE ImpGive
  <2>0. PICK A \in Apps : A = imp.app
    BY <1>0
  <2> DEFINE Imps == {sample_0[s].mem : s \in 0 .. idx_0 - 1}
  <2>1. /\ imp.pc = "give" /\ imp.idx_1 \in Nat /\ imp.i = imp.idx_1
        /\ imp.idx_1 <= idx_1 /\ idx_1 \in 0 .. Cap1
        /\ UNCHANGED <<idx_0, sample_0, seen_0>>
    BY <1>0, <1>6 DEF ImpGive, ContentInv, IndexInv, TypeOK, ImpInv, ImpState, InFlush
  <2>2. \A s \in 0 .. imp.idx_1 - 1 : sample_0[idx_0 + s].mem \in BhvMsgs \cup {NoMsg}
    <3>1. \A s \in 0 .. imp.idx_1 - 1 : sample_0[idx_0 + s] = sample_1[s] /\ s \in Slots1
      BY <2>1 DEF ContentInv, CopyInv, InFlush, Slots1
    <3> QED
      BY <3>1 DEF Mem1Inv
  <2>3. \A m \in ImpMsgs :
          m \in {sample_0[s].mem : s \in 0 .. (idx_0 + imp.idx_1)-1} <=> m \in Imps
    <3>1. \A s : s \in 0 .. (idx_0 + imp.idx_1)-1 <=>
                  s \in 0 .. idx_0 - 1 \/ (s - idx_0 \in 0 .. imp.idx_1 - 1 /\ s \in Int)
      BY <1>0, <2>1
    <3>2. ASSUME NEW m \in ImpMsgs, NEW s \in Int, s - idx_0 \in 0 .. imp.idx_1 - 1
          PROVE  sample_0[s].mem # m
      <4>1. idx_0 + (s - idx_0) = s
        BY <1>0
      <4>2. sample_0[s].mem \in BhvMsgs \cup {NoMsg}
        BY <2>2, <3>2, <4>1
      <4> QED
        BY <4>2 DEF Msgs
    <3> QED
      BY <3>1, <3>2
  <2>4. /\ \A a \in Apps : a # A => given'[a] = given[a]
        /\ \A m \in ImpMsgs : m \in given'[A] <=> m \in given[A] \/ m \in Imps
    <3>1. given' = [given EXCEPT ![A] =
                      @ \cup {sample_0[s].mem : s \in 0 .. (idx_0 + imp.idx_1)-1}]
      BY <1>6, <2>0 DEF ImpGive
    <3> HIDE DEF Imps
    <3> QED
      BY <1>0, <2>3, <3>1 DEF Mem1Inv
  <2>5. \A m : /\ WaitsFor(A, m) <=> m \in Imps
               /\ ~WaitsFor(A, m)'
               /\ \A a \in Apps : a # A => (WaitsFor(a, m)' <=> WaitsFor(a, m))
    <3>1. CASE A + 1 < AppNum
      <4>1. imp'.pc = "give" /\ imp'.app = A + 1
        BY <1>0, <1>6, <2>0, <3>1 DEF ImpGive, ImpState
      <4>2. \A a \in Apps : (a < A + 1 <=> a < A \/ a = A) /\ ~(A < A)
        BY <2>0 DEF Apps
      <4> QED
        BY <2>0, <2>1, <4>1, <4>2 DEF WaitsFor
    <3>2. CASE ~(A + 1 < AppNum)
      <4>1. imp'.pc = "clear"
        BY <1>0, <1>6, <2>0, <3>2 DEF ImpGive, ImpState
      <4>2. ~(A < A) /\ \A a \in Apps : a # A => a < A
        BY <2>0, <3>2 DEF Apps
      <4> QED
        BY <2>0, <2>1, <4>1, <4>2 DEF WaitsFor
    <3> QED
      BY <3>1, <3>2
  <2> HIDE DEF Imps
  <2>6. \A a \in Apps, m \in ImpMsgs :
          /\ Has(a, m)' <=> Has(a, m)
          /\ (WaitsFor(a, m) /\ m \in given[a])' => WaitsFor(a, m) /\ m \in given[a]
    BY <2>4, <2>5 DEF Has
  <2> QED
    BY <2>1, <2>6 DEF OnceInv
<1>7. CASE ImpClear
  <2>1. UNCHANGED <<seen_0, given>> /\ imp.pc = "clear" /\ idx_0' = 0
    BY <1>7 DEF ImpClear
  <2> QED
    BY <2>1, OnceFrame DEF WaitsFor
<1>8. CASE BhvStep
  BY <1>1, <1>8 DEF BhvStep, BhvSpin, BhvDrop, BhvRoom, BhvLabel, BhvLength, BhvCtr,
     BhvMemArg, BhvMem, BhvIncLoad, BhvIncStore, BhvCntLoad, BhvCntStore
<1>9. ASSUME NEW m, BhvRepeat(m) \/ ImpRepeat(m) PROVE OnceInv'
  BY <1>1, <1>9 DEF BhvRepeat, ImpRepeat, vars
<1>10. ASSUME NEW m, NEW hour, BhvRecv(m, hour) PROVE OnceInv'
  BY <1>1, <1>10 DEF BhvRecv
<1>11. ASSUME NEW a \in Apps, LearnerDone(a) PROVE OnceInv'
  BY <1>1, <1>11 DEF LearnerDone
<1> QED
  BY <1>1, <1>2, <1>3, <1>4, <1>5, <1>6, <1>7, <1>8, <1>9, <1>10, <1>11
  DEF Next, vars, ImpStep

(* Every impression that is counted and parses reaches each learner once   *)
(* and only once, or is waiting in sample_0 to do so, for any stream of    *)
(* messages with repeated marks, any number of learners, flushes and       *)
(* entries of the map of marks.                                            *)
THEOREM ImpressionsExactlyOnce == Spec => []ImpExactlyOnce
<1>1. Init => Mem1Inv /\ OnceInv
  BY DEF Init, NoCall, Mem1Inv, OnceInv, Has, WaitsFor, Blank
<1>2. OnceInv => ImpExactlyOnce
  <2> SUFFICES ASSUME OnceInv, NEW a \in Apps, NEW key \in seen_0,
                      {m \in ImpMsgs : MarkKey[m] = key} \subseteq Usable
               PROVE  Cardinality({m \in {n \in ImpMsgs : MarkKey[n] = key} : WaitsFor(a, m)})
                      + Cardinality({n \in ImpMsgs : MarkKey[n] = key} \cap given[a]) = 1
    BY DEF ImpExactlyOnce
  <2> DEFINE Of == {n \in ImpMsgs : MarkKey[n] = key}
             held == {m \in Of : WaitsFor(a, m)}
  <2>1. PICK m \in ImpMsgs : MarkKey[m] = key /\ Has(a, m)
    BY DEF OnceInv
  <2>2. \A n \in Of : Has(a, n) => n = m
    BY <2>1 DEF OnceInv
  <2>3. \/ held = {m} /\ Of \cap given[a] = {}
        \/ held = {} /\ Of \cap given[a] = {m}
    BY <2>1, <2>2 DEF OnceInv, Has
  <2>4. Cardinality({m}) = 1 /\ Cardinality({}) = 0
    BY FS_Singleton, FS_EmptySet
  <2> QED
    BY <2>3, <2>4
<1>3. ContentInv /\ Mem1Inv /\ OnceInv /\ [Next]_vars => (Mem1Inv /\ OnceInv)'
  BY Mem1Step, OnceStep DEF ContentInv
<1> QED
  BY <1>1, <1>2, <1>3, ContentInit, ContentStep, PTL DEF Spec

-----------------------------------------------------------------------------
(* Behaviours.  A flush may cost the one behaviour whose append it races   *)
(* with: appended after _idx_1 was saved and before it is cleared          *)
(* (GrownInv), or about to be appended in slot 0 although its features     *)
(* were, or will be, stored at the old _idx_1 (Doomed).  It cannot be      *)
(* both, because the behaviour thread polls mutex_flag before the next     *)
(* append.                                                                 *)
Mem(s) == sample_1[s].mem
Lost(a) == appended \ (given[a] \cup Buffered1)

Doomed ==
  \/ BhvAt("memlength") /\ bhv.reg # idx_1
  \/ BhvAt("incload") /\ Mem(idx_1) # bhv.msg
  \/ BhvAt("incstore") /\ Mem(bhv.reg) # bhv.msg

FlagInv ==
  imp.pc \in {"snap", "copy", "give", "clear", "unlock"} => mutex_flag = FALSE

GivenInv ==
  \A a \in Apps : ImpAt("clear") \/ (ImpAt("give") /\ a < imp.app) =>
    \A s \in 0 .. imp.idx_1 - 1 : Mem(s) \in given[a]

GrownInv ==
  InFlush =>
    \/ idx_1 = imp.idx_1
    \/ /\ bhv.pc \in {"cntload", "cntstore", "idle", "spin"}
       /\ \A a \in Apps : \E x : \A s \in 0 .. idx_1 - 1 :
            s < imp.idx_1 \/ Mem(s) \in given[a] \cup {x}

(* An _idx_1++ interrupted by a clear brings back slots every learner has. *)
StoreInv ==
  BhvAt("incstore") =>
    idx_1 = bhv.reg \/ \A a \in Apps : \A s \in 0 .. bhv.reg - 1 : Mem(s) \in given[a]

Debt == IF Doomed THEN 1 ELSE 0
Budget == \A a \in Apps : Cardinality(Lost(a)) + Debt <= flushes

LossInv == FlagInv /\ GivenInv /\ GrownInv /\ StoreInv /\ IsFiniteSet(appended) /\ Budget
BaseInv == ContentInv /\ Mem1Inv

(* What is lost can be counted. *)
LEMMA LostFinite ==
  ASSUME IsFiniteSet(appended), NEW a
  PROVE  IsFiniteSet(Lost(a)) /\ Cardinality(Lost(a)) \in Nat
<1>1. IsFiniteSet(Lost(a))
  BY FS_Subset DEF Lost
<1> QED
  BY <1>1, FS_CardinalityType

(* A set that gets at most one new element. *)
LEMMA GrowsByOne ==
  ASSUME NEW S, IsFiniteSet(S), NEW x, NEW T, T \subseteq S \cup {x}
  PROVE  Cardinality(T) \in Nat /\ Cardinality(T) <= Cardinality(S) + 1
<1>1. /\ IsFiniteSet(S \cup {x})
      /\ Cardinality(S \cup {x}) = IF x \in S THEN Cardinality(S) ELSE Cardinality(S) + 1
  BY FS_AddElement
<1>2. IsFiniteSet(T) /\ Cardinality(T) <= Cardinality(S \cup {x})
  BY <1>1, FS_Subset
<1>3. Cardinality(T) \in Nat /\ Cardinality(S) \in Nat
  BY <1>2, FS_CardinalityType
<1> QED
  BY <1>1, <1>2, <1>3

(* A step that loses nothing keeps to the budget. *)
LEMMA NothingLost ==
  ASSUME IsFiniteSet(appended), flushes \in Nat, flushes' \in Nat, Budget,
         NEW a \in Apps, Lost(a)' \subseteq Lost(a), Debt' - Debt <= flushes' - flushes
  PROVE  Cardinality(Lost(a))' + Debt' <= flushes'
<1>1. ASSUME NEW c \in Nat, NEW c1 \in Nat, NEW d \in Nat, NEW d1 \in Nat,
             NEW f \in Nat, NEW f1 \in Nat, c + d <= f, c1 <= c, d1 - d <= f1 - f
      PROVE  c1 + d1 <= f1
  BY <1>1
<1>2. IsFiniteSet(Lost(a)) /\ Cardinality(Lost(a)) \in Nat
  BY LostFinite
<1>3. Cardinality(Lost(a)') <= Cardinality(Lost(a)) /\ Cardinality(Lost(a)') \in Nat
  BY <1>2, FS_Subset, FS_CardinalityType
<1>4. Debt \in Nat /\ Debt' \in Nat
  BY DEF Debt
<1>5. Cardinality(Lost(a)) + Debt <= flushes
  BY DEF Budget
<1> QED
  BY <1>1, <1>2, <1>3, <1>4, <1>5

(* A step that loses one pays with a debt or a flush. *)
LEMMA OneLost ==
  ASSUME IsFiniteSet(appended), flushes \in Nat, flushes' \in Nat, Budget,
         NEW a \in Apps, NEW x, Lost(a)' \subseteq Lost(a) \cup {x},
         Debt' + 1 - Debt <= flushes' - flushes
  PROVE  Cardinality(Lost(a))' + Debt' <= flushes'
<1>1. ASSUME NEW c \in Nat, NEW c1 \in Nat, NEW d \in Nat, NEW d1 \in Nat,
             NEW f \in Nat, NEW f1 \in Nat, c + d <= f, c1 <= c + 1,
             d1 + 1 - d <= f1 - f
      PROVE  c1 + d1 <= f1
  BY <1>1
<1>2. IsFiniteSet(Lost(a)) /\ Cardinality(Lost(a)) \in Nat
  BY LostFinite
<1>3. Cardinality(Lost(a)') <= Cardinality(Lost(a)) + 1 /\ Cardinality(Lost(a)') \in Nat
  BY <1>2, GrowsByOne
<1>4. Debt \in Nat /\ Debt' \in Nat
  BY DEF Debt
<1>5. Cardinality(Lost(a)) + Debt <= flushes
  BY DEF Budget
<1> QED
  BY <1>1, <1>2, <1>3, <1>4, <1>5

(* Steps that leave the buffered behaviours and what was given alone. *)
LEMMA LossFrame ==
  ASSUME TypeOK, TypeOK', LossInv, UNCHANGED <<idx_1, appended, given, flushes>>,
         \A s \in 0 .. idx_1 - 1 : Mem(s)' = Mem(s),
         FlagInv', GivenInv', GrownInv', StoreInv', Doomed' => Doomed
  PROVE  LossInv'
<1>1. Debt' - Debt <= flushes' - flushes
  BY DEF Debt, TypeOK
<1>2. \A a \in Apps : Lost(a)' \subseteq Lost(a)
  <2>1. Buffered1' = Buffered1
    BY DEF Buffered1, Mem
  <2> QED
    BY <2>1 DEF Lost
<1>3. Budget'
  BY <1>1, <1>2, NothingLost DEF LossInv, Budget, TypeOK
<1> QED
  BY <1>3 DEF LossInv

LEMMA LossInit == Init => LossInv
<1> SUFFICES ASSUME Init PROVE LossInv
  OBVIOUS
<1>1. FlagInv /\ GivenInv /\ GrownInv /\ StoreInv /\ Debt = 0 /\ flushes = 0
  BY DEF Init, NoCall, FlagInv, GivenInv, GrownInv, StoreInv, Debt, Doomed, ImpAt, BhvAt, InFlush
<1>2. appended = {} /\ \A a \in Apps : Lost(a) = {}
  BY DEF Init, NoCall, Lost
<1> QED
  BY <1>1, <1>2, FS_EmptySet DEF LossInv, Budget

LEMMA LossBhvStep == BaseInv /\ IndexInv' /\ LossInv /\ BhvStep => LossInv'
<1> SUFFICES ASSUME BaseInv, IndexInv', LossInv, BhvStep PROVE LossInv'
  OBVIOUS
<1> USE SizeAssumption DEF BhvAt, ImpAt, BhvTo, bufVars, histVars
<1>0. /\ TypeOK /\ TypeOK' /\ idx_1 \in 0 .. Cap1 /\ BhvInv /\ bhv \in BhvState
      /\ flushes \in Nat /\ ImpInv /\ imp \in ImpState
      /\ imp.idx_1 \in Nat /\ sample_1 \in [Slots1 -> Fields]
  BY DEF BaseInv, ContentInv, IndexInv, TypeOK, ImpState
<1>1. CASE BhvSpin \/ BhvDrop \/ BhvRoom \/ BhvLabel
  <2>1. /\ UNCHANGED <<idx_1, imp, mutex_flag, appended, given, flushes, sample_1>>
        /\ BhvSpin => mutex_flag
        /\ bhv.pc \in {"spin", "room", "label"}
        /\ bhv'.pc \in {"idle", "room", "label", "length"}
        /\ bhv.pc = "spin" => BhvSpin
    BY <1>0, <1>1, NoCallType DEF BhvSpin, BhvDrop, BhvRoom, BhvLabel, BhvState
  <2>2. bhv.pc = "spin" => ~InFlush
    BY <2>1 DEF LossInv, FlagInv, InFlush
  <2>3. FlagInv' /\ GivenInv' /\ GrownInv' /\ StoreInv' /\ ~Doomed'
    BY <2>1, <2>2 DEF LossInv, FlagInv, GivenInv, GrownInv, StoreInv, Doomed, InFlush, Mem
  <2> QED
    BY <1>0, <2>1, <2>3, LossFrame DEF Mem
<1>2. CASE BhvLength \/ BhvCtr \/ BhvMemArg
  <2>1. /\ UNCHANGED <<idx_1, imp, mutex_flag, appended, given, flushes>>
        /\ bhv.pc \in {"length", "ctr", "mem"}
        /\ bhv'.pc \in {"ctr", "mem", "memto", "memlength"}
        /\ bhv'.pc = "memlength" => bhv'.reg = idx_1
    BY <1>0, <1>2 DEF BhvLength, BhvCtr, BhvMemArg, BhvState
  <2>2. idx_1 \in Slots1
    BY <1>0, <2>1 DEF BhvInv, Slots1
  <2>3. \A s \in 0 .. idx_1 - 1 : Mem(s)' = Mem(s)
    <3>1. ASSUME NEW s \in 0 .. idx_1 - 1 PROVE sample_1'[s] = sample_1[s]
      <4>1. s \in Slots1 /\ s # idx_1
        BY <1>0, <2>2 DEF Slots1
      <4> QED
        BY <1>0, <1>2, <2>2, <4>1 DEF BhvLength, BhvCtr, BhvMemArg
    <3> QED
      BY <3>1 DEF Mem
  <2>4. InFlush => idx_1 = imp.idx_1
    BY <2>1 DEF LossInv, GrownInv
  <2>5. GivenInv' /\ GrownInv'
    BY <2>1, <2>3, <2>4 DEF LossInv, GivenInv, GrownInv, InFlush
  <2>6. FlagInv' /\ StoreInv' /\ ~Doomed'
    BY <2>1 DEF LossInv, FlagInv, StoreInv, Doomed
  <2> QED
    BY <1>0, <2>1, <2>3, <2>5, <2>6, LossFrame
<1>6. CASE BhvMem
  <2>1. PICK k, w : Memcpy(k, w) /\ ((k = idx_1) \/ (BhvAt("memlength") /\ k = bhv.reg))
    BY <1>6 DEF BhvMem
  <2>2. /\ UNCHANGED <<idx_1, imp, mutex_flag, appended, given, flushes>>
        /\ bhv.pc \in {"memto", "memlength"} /\ bhv'.pc = "incload" /\ bhv'.msg = bhv.msg
    BY <1>0, <1>6 DEF BhvMem, BhvState
  <2>3. k \in Slots1 /\ idx_1 \in Slots1 /\ (k = idx_1 \/ idx_1 = 0) /\ k \in Nat
    BY <1>0, <2>1, <2>2 DEF BhvInv, Slots1, BhvState
  <2>4. \A s \in Slots1 : s # k => Mem(s)' = Mem(s)
    BY <1>0, <2>1, <2>3 DEF Memcpy, Mem
  <2>5. Mem(k)' = bhv.msg
    <3>1. sample_1[k] \in Fields
      BY <1>0, <2>3
    <3>2. sample_1'[k] = [[sample_1[k] EXCEPT !.mem = bhv.msg] EXCEPT !.words = w]
      BY <1>0, <2>1, <2>3 DEF Memcpy
    <3>3. [[sample_1[k] EXCEPT !.mem = bhv.msg] EXCEPT !.words = w].mem = bhv.msg
      BY <3>1 DEF Fields
    <3> QED
      BY <3>2, <3>3 DEF Mem
  <2>6. \A s \in 0 .. idx_1 - 1 : Mem(s)' = Mem(s)
    BY <1>0, <2>3, <2>4 DEF Slots1
  <2>7. InFlush => idx_1 = imp.idx_1
    BY <2>2 DEF LossInv, GrownInv
  <2>8. GivenInv' /\ GrownInv'
    <3>1. ASSUME NEW a \in Apps,
                 imp.pc = "clear" \/ (imp.pc = "give" /\ a < imp.app),
                 NEW s \in 0 .. imp.idx_1 - 1
          PROVE  Mem(s)' \in given[a]
      <4>1. s \in 0 .. idx_1 - 1 /\ Mem(s) \in given[a]
        BY <2>7, <3>1 DEF LossInv, GivenInv, InFlush
      <4> QED
        BY <2>6, <4>1
    <3> QED
      BY <2>2, <2>7, <3>1 DEF GivenInv, GrownInv, InFlush
  <2>9. FlagInv' /\ StoreInv' /\ (Doomed' => Doomed)
    BY <2>1, <2>2, <2>5 DEF LossInv, FlagInv, StoreInv, Doomed, Mem
  <2> QED
    BY <1>0, <2>2, <2>6, <2>8, <2>9, LossFrame
<1>3. CASE BhvIncLoad
  <2>1. /\ UNCHANGED <<idx_1, imp, mutex_flag, appended, given, flushes, sample_1>>
        /\ bhv.pc = "incload" /\ bhv'.pc = "incstore" /\ bhv'.reg = idx_1
        /\ bhv'.msg = bhv.msg
    BY <1>0, <1>3 DEF BhvIncLoad, BhvState
  <2>2. FlagInv' /\ GivenInv' /\ GrownInv' /\ StoreInv' /\ (Doomed' => Doomed)
    BY <2>1 DEF LossInv, FlagInv, GivenInv, GrownInv, StoreInv, Doomed, InFlush, Mem
  <2> QED
    BY <1>0, <2>1, <2>2, LossFrame DEF Mem
<1>4. CASE BhvIncStore
  <2>1. /\ UNCHANGED <<imp, mutex_flag, given, flushes, sample_1>>
        /\ bhv.pc = "incstore" /\ bhv'.pc = "cntload" /\ bhv.reg \in Nat
        /\ idx_1' = bhv.reg + 1 /\ appended' = appended \cup {bhv.msg}
    BY <1>0, <1>4 DEF BhvIncStore, BhvState
  <2>2. idx_1 = bhv.reg \/ idx_1 = 0
    BY <1>0, <2>1 DEF BhvInv
  <2>3. ASSUME NEW a \in Apps, NEW s \in 0 .. bhv.reg - 1
        PROVE  s \in 0 .. idx_1 - 1 \/ Mem(s) \in given[a]
    BY <2>1, <2>2 DEF LossInv, StoreInv
  <2>4. \A s : s \in 0 .. idx_1' - 1 <=> s \in 0 .. bhv.reg - 1 \/ s = bhv.reg
    BY <2>1
  <2>5. FlagInv' /\ GivenInv' /\ StoreInv' /\ ~Doomed' /\ IsFiniteSet(appended')
    BY <2>1, FS_AddElement DEF LossInv, FlagInv, GivenInv, StoreInv, Doomed, InFlush, Mem
  <2>6. GrownInv'
    <3> SUFFICES ASSUME InFlush
                 PROVE  \A a \in Apps : \E x : \A s \in 0 .. idx_1' - 1 :
                          s < imp.idx_1 \/ Mem(s) \in given[a] \cup {x}
      BY <2>1 DEF GrownInv, InFlush, Mem
    <3>1. idx_1 = imp.idx_1
      BY <2>1 DEF LossInv, GrownInv
    <3>2. ASSUME NEW a \in Apps
          PROVE  \A s \in 0 .. idx_1' - 1 :
                   s < imp.idx_1 \/ Mem(s) \in given[a] \cup {Mem(bhv.reg)}
      BY <1>0, <2>3, <2>4, <3>1
    <3> QED
      BY <3>2
  <2>7. \A a \in Apps : Buffered1 \subseteq Buffered1' /\ Mem(bhv.reg) \in Buffered1'
    <3>1. \A s \in 0 .. idx_1 - 1 : s \in 0 .. idx_1' - 1
      BY <1>0, <2>1, <2>2
    <3> QED
      BY <2>1, <2>4, <3>1 DEF Buffered1, Mem
  <2>8. Budget'
    <3>1. CASE Doomed
      <4>1. \A a \in Apps : Lost(a)' \subseteq Lost(a) \cup {bhv.msg}
        BY <2>1, <2>7 DEF Lost
      <4>2. Debt' + 1 - Debt <= flushes' - flushes
        BY <1>0, <2>1, <2>5, <3>1 DEF Debt
      <4> QED
        BY <1>0, <2>1, <4>1, <4>2, OneLost DEF LossInv, Budget
    <3>2. CASE ~Doomed
      <4>1. Mem(bhv.reg) = bhv.msg
        BY <2>1, <3>2 DEF Doomed
      <4>2. \A a \in Apps : Lost(a)' \subseteq Lost(a)
        BY <2>1, <2>7, <4>1 DEF Lost
      <4>3. Debt' - Debt <= flushes' - flushes
        BY <1>0, <2>1, <2>5, <3>2 DEF Debt
      <4> QED
        BY <1>0, <2>1, <4>2, <4>3, NothingLost DEF LossInv, Budget
    <3> QED
      BY <3>1, <3>2
  <2> QED
    BY <2>5, <2>6, <2>8 DEF LossInv
<1>5. CASE BhvCntLoad \/ BhvCntStore
  <2>1. /\ UNCHANGED <<idx_1, imp, mutex_flag, appended, given, flushes, sample_1>>
        /\ bhv.pc \in {"cntload", "cntstore"} /\ bhv'.pc \in {"cntstore", "idle"}
    BY <1>0, <1>5, NoCallType DEF BhvCntLoad, BhvCntStore, BhvState
  <2>2. FlagInv' /\ GivenInv' /\ GrownInv' /\ StoreInv' /\ ~Doomed'
    BY <2>1 DEF LossInv, FlagInv, GivenInv, GrownInv, StoreInv, Doomed, InFlush, Mem
  <2> QED
    BY <1>0, <2>1, <2>2, LossFrame DEF Mem
<1> QED
  BY <1>1, <1>2, <1>3, <1>4, <1>5, <1>6 DEF BhvStep

LEMMA LossImpStep == BaseInv /\ IndexInv' /\ LossInv /\ ImpStep => LossInv'
<1> SUFFICES ASSUME BaseInv, IndexInv', LossInv, ImpStep PROVE LossInv'
  OBVIOUS
<1> USE SizeAssumption DEF BhvAt, ImpAt, ImpTo, bufVars, histVars
<1>0. /\ TypeOK /\ TypeOK' /\ idx_1 \in 0 .. Cap1 /\ flushes \in Nat /\ ImpInv
      /\ imp \in ImpState /\ imp.idx_1 \in Nat /\ imp.app \in Apps /\ BhvInv
      /\ idx_0 \in Nat
  BY DEF BaseInv, ContentInv, IndexInv, TypeOK, ImpState
<1>1. CASE ImpTest \/ ImpReset \/ ImpLock \/ ImpSnap \/ ImpUnlock
  <2>1. /\ UNCHANGED <<idx_1, bhv, appended, given, flushes, sample_1>>
        /\ imp'.pc \in {"idle", "reset", "lock", "snap", "copy"}
        /\ imp'.pc = "snap" => mutex_flag' = FALSE
        /\ imp'.pc = "copy" => imp.pc = "snap" /\ imp'.idx_1 = idx_1 /\ UNCHANGED mutex_flag
    BY <1>0, <1>1 DEF ImpTest, ImpReset, ImpLock, ImpSnap, ImpUnlock, ImpState
  <2>2. FlagInv' /\ GivenInv' /\ GrownInv' /\ StoreInv' /\ (Doomed' => Doomed)
    BY <2>1 DEF LossInv, FlagInv, GivenInv, GrownInv, StoreInv, Doomed, InFlush, Mem
  <2> QED
    BY <1>0, <2>1, <2>2, LossFrame DEF Mem
<1>2. CASE ImpCopy \/ ImpCopied
  <2>1. /\ UNCHANGED <<idx_1, bhv, mutex_flag, appended, given, flushes, sample_1>>
        /\ imp.pc = "copy" /\ imp'.idx_1 = imp.idx_1
        /\ imp'.pc = "copy" \/ (imp'.pc = "give" /\ imp'.app = 0)
    BY <1>0, <1>2 DEF ImpCopy, ImpCopied, ImpState
  <2>2. FlagInv' /\ GrownInv' /\ StoreInv' /\ (Doomed' => Doomed)
    BY <2>1 DEF LossInv, FlagInv, GrownInv, StoreInv, Doomed, InFlush, Mem
  <2>3. GivenInv'
    <3>1. \A a \in Apps : ~(a < 0)
      BY DEF Apps
    <3> QED
      BY <2>1, <3>1 DEF GivenInv
  <2> QED
    BY <1>0, <2>1, <2>2, <2>3, LossFrame DEF Mem
<1>3. CASE ImpGive
  <2>0. PICK A \in Apps : A = imp.app
    BY <1>0
  <2>1. /\ UNCHANGED <<idx_1, bhv, mutex_flag, appended, flushes, sample_1>>
        /\ imp.pc = "give" /\ imp'.idx_1 = imp.idx_1 /\ imp.i = imp.idx_1
        /\ imp'.pc = "clear" \/ (imp'.pc = "give" /\ imp'.app = A + 1)
        /\ imp'.pc = "clear" => ~(A + 1 < AppNum)
    <3>1. CASE A + 1 < AppNum
      BY <1>0, <1>3, <2>0, <3>1 DEF ImpGive, ImpState, ImpInv
    <3>2. CASE ~(A + 1 < AppNum)
      BY <1>0, <1>3, <2>0, <3>2 DEF ImpGive, ImpState, ImpInv
    <3> QED
      BY <3>1, <3>2
  <2>2. /\ \A a \in Apps : given[a] \subseteq given'[a]
        /\ {sample_0[s].mem : s \in 0 .. (idx_0 + imp.idx_1)-1} \subseteq given'[A]
    BY <1>3, <2>0 DEF ImpGive, BaseInv, Mem1Inv
  <2>3. \A s \in 0 .. imp.idx_1 - 1 : Mem(s) \in given'[A]
    <3>1. ASSUME NEW s \in 0 .. imp.idx_1 - 1
          PROVE  sample_0[idx_0 + s] = sample_1[s]
                 /\ idx_0 + s \in 0 .. (idx_0 + imp.idx_1)-1
      BY <1>0, <2>1 DEF BaseInv, ContentInv, CopyInv, InFlush
    <3> QED
      BY <2>2, <3>1 DEF Mem
  <2>4. GivenInv'
    <3>1. \A a \in Apps : imp'.pc = "clear" \/ a < imp'.app => a = A \/ a < A
      BY <2>0, <2>1 DEF Apps
    <3>2. ASSUME NEW a \in Apps, a = A \/ a < A, NEW s \in 0 .. imp.idx_1 - 1
          PROVE  Mem(s) \in given'[a]
      BY <2>0, <2>1, <2>2, <2>3, <3>2 DEF LossInv, GivenInv
    <3> QED
      BY <2>1, <3>1, <3>2 DEF GivenInv, Mem
  <2>5. GrownInv'
    BY <2>1, <2>2 DEF LossInv, GrownInv, InFlush, Mem
  <2>6. FlagInv' /\ StoreInv' /\ (Doomed' <=> Doomed)
    BY <2>1, <2>2 DEF LossInv, FlagInv, StoreInv, Doomed, Mem
  <2>7. \A a \in Apps : Lost(a)' \subseteq Lost(a)
    BY <2>1, <2>2 DEF Lost, Buffered1
  <2>8. Debt' - Debt <= flushes' - flushes
    BY <1>0, <2>1, <2>6 DEF Debt
  <2>9. Budget'
    BY <1>0, <2>1, <2>7, <2>8, NothingLost DEF LossInv, Budget
  <2> QED
    BY <2>1, <2>4, <2>5, <2>6, <2>9 DEF LossInv
<1>4. CASE ImpClear
  <2>1. /\ UNCHANGED <<bhv, mutex_flag, appended, given, sample_1>>
        /\ imp.pc = "clear" /\ imp'.pc = "unlock" /\ idx_1' = 0 /\ flushes' = flushes + 1
    BY <1>0, <1>4 DEF ImpClear, ImpState
  <2>2. \A a \in Apps : \A s \in 0 .. imp.idx_1 - 1 : Mem(s) \in given[a]
    BY <2>1 DEF LossInv, GivenInv
  <2>3. FlagInv' /\ GivenInv' /\ GrownInv'
    BY <2>1 DEF LossInv, FlagInv, GivenInv, GrownInv, InFlush
  <2>4. Debt \in 0 .. 1 /\ Debt' \in 0 .. 1
    BY DEF Debt
  <2>5. CASE idx_1 = imp.idx_1
    <3>1. StoreInv'
      BY <2>1, <2>2, <2>5 DEF LossInv, StoreInv, Mem
    <3>2. \A a \in Apps : Lost(a)' \subseteq Lost(a)
      BY <2>1, <2>2, <2>5 DEF Lost, Buffered1, Mem
    <3>3. Debt' - Debt <= flushes' - flushes
      <4>1. ASSUME NEW d \in 0 .. 1, NEW e \in 0 .. 1, NEW f \in Nat
            PROVE  e - d <= (f + 1) - f
        OBVIOUS
      <4> QED
        BY <1>0, <2>1, <2>4, <4>1
    <3>4. Budget'
      BY <1>0, <2>1, <3>2, <3>3, NothingLost DEF LossInv, Budget
    <3> QED
      BY <2>1, <2>3, <3>1, <3>4 DEF LossInv
  <2>6. CASE idx_1 # imp.idx_1
    <3>1. /\ bhv.pc \in {"cntload", "cntstore", "idle", "spin"}
          /\ \A a \in Apps : \E x : \A s \in 0 .. idx_1 - 1 :
               s < imp.idx_1 \/ Mem(s) \in given[a] \cup {x}
      BY <2>1, <2>6 DEF LossInv, GrownInv, InFlush
    <3>2. StoreInv' /\ ~Doomed /\ ~Doomed'
      BY <2>1, <3>1 DEF StoreInv, Doomed
    <3>3. \A a \in Apps : \E x : Lost(a)' \subseteq Lost(a) \cup {x}
      <4>1. ASSUME NEW a \in Apps PROVE \E x : Lost(a)' \subseteq Lost(a) \cup {x}
        <5>1. PICK x : \A s \in 0 .. idx_1 - 1 :
                         s < imp.idx_1 \/ Mem(s) \in given[a] \cup {x}
          BY <3>1
        <5>2. \A s \in 0 .. idx_1 - 1 : Mem(s) \in given[a] \cup {x}
          BY <1>0, <2>2, <5>1
        <5>3. Buffered1 \subseteq given[a] \cup {x}
          BY <5>2 DEF Buffered1, Mem
        <5>4. Lost(a)' \subseteq Lost(a) \cup {x}
          BY <2>1, <5>3 DEF Lost
        <5> QED
          BY <5>4
      <4> QED
        BY <4>1
    <3>4. Debt' + 1 - Debt <= flushes' - flushes
      BY <1>0, <2>1, <3>2 DEF Debt
    <3>5. Budget'
      BY <1>0, <2>1, <3>3, <3>4, OneLost DEF LossInv, Budget
    <3> QED
      BY <2>1, <2>3, <3>2, <3>5 DEF LossInv
  <2> QED
    BY <2>5, <2>6
<1> QED
  BY <1>1, <1>2, <1>3, <1>4 DEF ImpStep

LEMMA LossStep == BaseInv /\ LossInv /\ [Next]_vars => LossInv'
<1> SUFFICES ASSUME BaseInv, LossInv, [Next]_vars PROVE LossInv'
  OBVIOUS
<1>0. TypeOK /\ IndexInv' /\ TypeOK' /\ imp \in ImpState /\ bhv \in BhvState
  BY IndexStep DEF BaseInv, ContentInv, IndexInv, TypeOK
<1>1. ASSUME \/ \E m \in BhvMsgs : BhvRepeat(m)
             \/ \E m \in BhvMsgs, hour \in Hours : BhvRecv(m, hour)
             \/ \E m \in ImpMsgs : ImpRepeat(m) \/ ImpRecv(m)
             \/ \E a \in Apps : LearnerDone(a)
             \/ UNCHANGED vars
      PROVE  LossInv'
  <2> USE DEF bufVars, histVars, BhvAt, ImpAt, ImpTo
  <2>1. /\ UNCHANGED <<idx_1, mutex_flag, appended, given, flushes, sample_1>>
        /\ UNCHANGED bhv \/ (bhv.pc = "idle" /\ bhv'.pc = "spin")
        /\ UNCHANGED imp \/ (imp.pc = "idle" /\ imp'.pc = "test")
    BY <1>0, <1>1 DEF BhvRepeat, BhvRecv, ImpRepeat, ImpRecv, ImpAppend, LearnerDone, vars,
                      ImpState, BhvState
  <2>2. FlagInv' /\ GivenInv' /\ GrownInv' /\ StoreInv' /\ (Doomed' => Doomed)
    BY <2>1 DEF LossInv, FlagInv, GivenInv, GrownInv, StoreInv, Doomed, InFlush, Mem
  <2> QED
    BY <1>0, <2>1, <2>2, LossFrame DEF Mem
<1> QED
  BY <1>0, <1>1, LossBhvStep, LossImpStep DEF Next

(* However the append of a behaviour and the flushes interleave, a flush   *)
(* costs at most one behaviour, for any number of flushes, messages and    *)
(* learners: the others reach every learner or are still in sample_1.      *)
THEOREM FlushCostsAtMostOne == Spec => []LossAtMostOnePerFlush
<1>1. Init => BaseInv /\ LossInv
  <2>1. Init => Mem1Inv
    BY DEF Init, NoCall, Mem1Inv, Blank
  <2> QED
    BY <2>1, ContentInit, LossInit DEF BaseInv
<1>2. BaseInv /\ LossInv /\ [Next]_vars => (BaseInv /\ LossInv)'
  <2>1. BaseInv /\ [Next]_vars => BaseInv'
    BY ContentStep, Mem1Step DEF BaseInv, ContentInv
  <2> QED
    BY <2>1, LossStep
<1>3. BaseInv /\ LossInv => LossAtMostOnePerFlush
  <2> SUFFICES ASSUME BaseInv, LossInv, NEW a \in Apps
               PROVE  Cardinality(Lost(a)) <= flushes
    BY DEF LossAtMostOnePerFlush, Lost
  <2>1. Cardinality(Lost(a)) \in Nat /\ Debt \in Nat /\ flushes \in Nat
    BY LostFinite DEF LossInv, Debt, BaseInv, ContentInv, IndexInv, TypeOK
  <2>2. Cardinality(Lost(a)) + Debt <= flushes
    BY DEF LossInv, Budget
  <2> QED
    BY <2>1, <2>2
<1> QED
  BY <1>1, <1>2, <1>3, PTL DEF Spec
=============================================================================
