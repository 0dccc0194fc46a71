--------------------------- MODULE LearnerProofs ----------------------------
(***************************************************************************)
(* Proofs about module Learner: the two semaphores are one baton, and what *)
(* GetData leaves in samples is the labelled part of the batch it took.    *)
(***************************************************************************)
EXTENDS Learner, SeqFilterProofs, FiniteSetTheorems, TLAPS

(* The baton is in sem_done, with GetData, in sem_ready or with update. *)
SemInv ==
  \/ sem_done = 1 /\ sem_ready = 0 /\ ~GdHolds /\ ~UpHolds
  \/ sem_done = 0 /\ sem_ready = 0 /\ GdHolds /\ ~UpHolds
  \/ sem_done = 0 /\ sem_ready = 1 /\ ~GdHolds /\ ~UpHolds
  \/ sem_done = 0 /\ sem_ready = 0 /\ ~GdHolds /\ UpHolds

(* The first n slots hold the labelled ones of the first lim entries. *)
CopiedTo(n, lim) ==
  /\ \A s \in 1 .. n :
       /\ src[s] \in 1 .. lim /\ slot[src[s]].y # -1
       /\ samples[s] = [label |-> slot[src[s]].y, mem |-> slot[src[s]].mem]
  /\ \A s, t \in 1 .. n : s < t => src[s] < src[t]
  /\ \A i \in 1 .. lim : slot[i].y # -1 => \E s \in 1 .. n : src[s] = i

CopyInv ==
  /\ gd.pc \in {"wait", "copy", "post"} => gd.batch \in Batches
  /\ gd.pc = "wait" => gd.i = 1 /\ gd.idx = 0
  /\ GdHolds => slot = gd.batch
  /\ gd.pc = "copy" => /\ gd.idx < gd.i /\ gd.i <= Len(slot) + 1
                       /\ CopiedTo(gd.idx, gd.i - 1)
  /\ gd.pc = "post" \/ sem_ready = 1 \/ UpHolds =>
       slot \in Batches /\ CopiedTo(num_sample, Len(slot))

UpRecord == up = [pc |-> up.pc, keys |-> up.keys, w |-> up.w, asked |-> up.asked,
                  grad |-> up.grad]

Inv == TypeOK /\ UpRecord /\ SemInv /\ CopyInv

(* What the assumption says of one entry of a batch. *)
LEMMA EntryType ==
  ASSUME NEW b \in Batches, NEW i \in 1 .. Len(b), b[i].y # -1
  PROVE  [label |-> b[i].y, mem |-> b[i].mem] \in [label : {0, 1}, mem : Seq(Features)]
<1> DEFINE E == [y : {-1, 0, 1}, mem : Seq(Features)]
<1>1. b \in Seq(E)
  BY LearnerAssumption
<1>2. b[i] \in E
  <2> HIDE DEF E
  <2> QED
    BY <1>1
<1> QED
  BY <1>2

(* A batch fits into samples. *)
LEMMA BatchLen ==
  ASSUME NEW b \in Batches PROVE Len(b) \in Nat /\ Len(b) <= SampleCap
<1>1. b \in Seq([y : {-1, 0, 1}, mem : Seq(Features)])
  BY LearnerAssumption
<1> QED
  BY <1>1, LearnerAssumption

(* The invariant holds at the start ... *)
LEMMA InvInit == Init => Inv
<1> SUFFICES ASSUME Init PROVE Inv
  OBVIOUS
<1> USE LearnerAssumption DEF Init
<1>1. TypeOK
  <2>1. Empty \in [label : {0, 1}, mem : Seq(Features)]
    BY DEF Empty
  <2>2. samples \in [1 .. SampleCap -> [label : {0, 1}, mem : Seq(Features)]]
    BY <2>1
  <2> QED
    BY <2>2 DEF TypeOK, GdState, Idle
<1>2. UpRecord /\ SemInv /\ CopyInv
  BY DEF UpRecord, SemInv, CopyInv, GdHolds, UpHolds, Idle
<1> QED
  BY <1>1, <1>2 DEF Inv

(* Steps that leave the batch, the samples and the baton where they are. *)
LEMMA InvFrame ==
  ASSUME Inv, UNCHANGED <<sem_done, sem_ready, samples, num_sample, gd, slot, src>>,
         stat' \in 0 .. 5, UpRecord', UpHolds' = UpHolds,
         up'.pc \in {"wait", "begin", "pull", "push", "done", "stat"}
  PROVE  Inv'
<1>1. TypeOK'
  BY DEF Inv, TypeOK, GdState
<1>2. SemInv'
  BY DEF Inv, SemInv, GdHolds
<1>3. CopyInv'
  BY DEF Inv, CopyInv, CopiedTo, GdHolds
<1> QED
  BY <1>1, <1>2, <1>3 DEF Inv

(* ... and every step keeps it. *)
LEMMA InvStep == Inv /\ [Next]_vars => Inv'
<1> SUFFICES ASSUME Inv, [Next]_vars PROVE Inv'
  OBVIOUS
<1> USE DEF GdAt, UpAt, shared, hist
<1>1. CASE UNCHANGED vars
  <2>1. UpRecord' /\ UpHolds' = UpHolds
    BY <1>1 DEF vars, Inv, UpRecord, UpHolds
  <2> QED
    BY <1>1, <2>1, InvFrame DEF vars, Inv, TypeOK, GdState
<1>2. ASSUME NEW b \in Batches, GdCall(b) PROVE Inv'
  <2>1. TypeOK'
    BY <1>2, LearnerAssumption DEF GdCall, Inv, TypeOK, GdState
  <2>2. UpRecord' /\ SemInv'
    BY <1>2 DEF GdCall, Inv, UpRecord, SemInv, GdHolds, UpHolds
  <2>3. CopyInv'
    BY <1>2 DEF GdCall, Inv, CopyInv, CopiedTo, GdHolds, UpHolds
  <2> QED
    BY <2>1, <2>2, <2>3 DEF Inv
<1>3. CASE GdWait
  <2>1. TypeOK'
    BY <1>3 DEF GdWait, Inv, TypeOK, GdState
  <2>2. UpRecord' /\ SemInv'
    BY <1>3 DEF GdWait, Inv, TypeOK, GdState, UpRecord, SemInv, GdHolds, UpHolds
  <2>3. CopyInv'
    <3>1. /\ gd'.pc = "copy" /\ gd'.i = 1 /\ gd'.idx = 0 /\ gd'.batch = gd.batch
          /\ slot' = gd.batch /\ gd.batch \in Batches
      BY <1>3 DEF GdWait, Inv, TypeOK, GdState, CopyInv
    <3>2. sem_ready' = 0 /\ ~UpHolds'
      BY <1>3, <2>2, <3>1 DEF SemInv, GdHolds
    <3> QED
      BY <3>1, <3>2, BatchLen DEF CopyInv, CopiedTo, GdHolds
  <2> QED
    BY <2>1, <2>2, <2>3 DEF Inv
<1>4. CASE GdCopy
  <2> DEFINE e == gd.batch[gd.i]
  <2>1. /\ gd.pc = "copy" /\ slot = gd.batch /\ slot \in Batches
        /\ gd.i \in 1 .. Len(slot) /\ gd.idx \in 0 .. gd.i - 1
        /\ CopiedTo(gd.idx, gd.i - 1) /\ Len(slot) \in Nat /\ Len(slot) <= SampleCap
    BY <1>4, BatchLen DEF GdCopy, Inv, TypeOK, GdState, CopyInv, GdHolds
  <2>2. /\ gd'.pc = "copy" /\ gd'.i = gd.i + 1 /\ gd'.batch = gd.batch
        /\ UNCHANGED <<up, slot, sem_ready, sem_done, num_sample, stat>>
    BY <1>4 DEF GdCopy, Inv, TypeOK, GdState
  <2>3. UpRecord' /\ SemInv'
    BY <2>1, <2>2 DEF Inv, UpRecord, SemInv, GdHolds, UpHolds
  <2>4. sem_ready' = 0 /\ ~UpHolds'
    BY <2>2, <2>3 DEF SemInv, GdHolds
  <2>5. ASSUME TypeOK', CopiedTo(gd.idx, gd.i - 1)', gd'.idx <= gd.i PROVE Inv'
    <3>1. gd'.idx < gd'.i /\ gd'.i <= Len(slot) + 1
      BY <2>1, <2>2, <2>5 DEF TypeOK, GdState
    <3>2. CopyInv'
      BY <2>1, <2>2, <2>4, <2>5, <3>1 DEF CopyInv, GdHolds
    <3> QED
      BY <2>3, <2>5, <3>2 DEF Inv
  <2>6. CASE e.y = -1
    <3>1. gd' = [gd EXCEPT !.i = @ + 1] /\ UNCHANGED <<samples, src>>
      BY <1>4, <2>6 DEF GdCopy
    <3>2. gd' \in GdState /\ gd'.idx = gd.idx
      <4>1. gd.i + 1 \in 1 .. SampleCap + 1
        BY <2>1, LearnerAssumption
      <4> QED
        BY <3>1, <4>1 DEF Inv, TypeOK, GdState
    <3>3. TypeOK'
      BY <2>2, <3>1, <3>2 DEF Inv, TypeOK, GdState
    <3>4. CopiedTo(gd.idx, gd.i - 1)'
      <4>1. gd'.i - 1 = gd.i /\ gd'.idx = gd.idx /\ gd.i \in Nat
        BY <2>1, <2>2, <3>2
      <4>2. \A i \in 1 .. gd.i : slot[i].y # -1 => i \in 1 .. gd.i - 1
        BY <2>1, <2>6
      <4>3. \A s \in 1 .. gd.idx : src[s] \in 1 .. gd.i
        <5>1. \A s \in 1 .. gd.idx : src[s] \in 1 .. gd.i - 1
          BY <2>1 DEF CopiedTo
        <5> QED
          BY <4>1, <5>1
      <4> QED
        BY <2>1, <2>2, <3>1, <4>1, <4>2, <4>3 DEF CopiedTo
    <3> QED
      BY <2>1, <2>5, <3>2, <3>3, <3>4
  <2>7. CASE e.y # -1
    <3> DEFINE n == gd.idx + 1
               x == [label |-> e.y, mem |-> e.mem]
    <3>1. /\ gd' = [gd EXCEPT !.i = @ + 1, !.idx = @ + 1]
          /\ samples' = [samples EXCEPT ![n] = x] /\ src' = [src EXCEPT ![n] = gd.i]
      BY <1>4, <2>7 DEF GdCopy
    <3>2. n \in 1 .. SampleCap /\ n <= gd.i /\ gd.i \in 1 .. SampleCap
      BY <2>1, LearnerAssumption
    <3>3. gd' \in GdState /\ gd'.idx = n
      <4>1. gd.i + 1 \in 1 .. SampleCap + 1 /\ gd.idx + 1 \in 0 .. SampleCap
        BY <2>1, <3>2, LearnerAssumption
      <4> QED
        BY <3>1, <4>1 DEF Inv, TypeOK, GdState
    <3>4. x \in [label : {0, 1}, mem : Seq(Features)]
      BY <2>1, <2>7, EntryType
    <3>5. /\ samples'[n] = x /\ src'[n] = gd.i
          /\ \A s \in 1 .. gd.idx : samples'[s] = samples[s] /\ src'[s] = src[s]
      BY <2>1, <3>1, <3>2 DEF Inv, TypeOK, GdState
    <3>6. TypeOK'
      <4> HIDE DEF x, n
      <4>1. samples' \in [1 .. SampleCap -> [label : {0, 1}, mem : Seq(Features)]]
            /\ src' \in [1 .. SampleCap -> 0 .. SampleCap]
        BY <3>1, <3>2, <3>4 DEF Inv, TypeOK, GdState
      <4> QED
        BY <2>2, <3>3, <4>1 DEF Inv, TypeOK, GdState
    <3>7. CopiedTo(gd.idx, gd.i - 1)'
      <4>1. \A s \in 1 .. n : s = n \/ s \in 1 .. gd.idx
        BY <2>1
      <4>2. ASSUME NEW s \in 1 .. n
            PROVE  /\ src'[s] \in 1 .. gd.i /\ slot[src'[s]].y # -1
                   /\ samples'[s] = [label |-> slot[src'[s]].y,
                                     mem |-> slot[src'[s]].mem]
        <5>1. CASE s = n
          BY <2>1, <2>7, <3>5, <5>1
        <5>2. CASE s \in 1 .. gd.idx
          <6>1. samples'[s] = samples[s] /\ src'[s] = src[s]
            BY <3>5, <5>2
          <6>2. /\ src[s] \in 1 .. gd.i - 1 /\ slot[src[s]].y # -1
                /\ samples[s] = [label |-> slot[src[s]].y, mem |-> slot[src[s]].mem]
            BY <2>1, <5>2 DEF CopiedTo
          <6>3. src[s] \in 1 .. gd.i
            BY <2>1, <6>2
          <6> QED
            BY <6>1, <6>2, <6>3
        <5> QED
          BY <4>1, <5>1, <5>2
      <4>3. ASSUME NEW s \in 1 .. n, NEW t \in 1 .. n, s < t
            PROVE  src'[s] < src'[t]
        <5>1. s \in 1 .. gd.idx
          BY <2>1, <4>3
        <5>2. CASE t = n
          <6>1. src[s] \in 1 .. gd.i - 1 /\ src'[s] = src[s] /\ src'[t] = gd.i
            BY <2>1, <3>5, <5>1, <5>2 DEF CopiedTo
          <6> QED
            BY <2>1, <6>1
        <5>3. CASE t \in 1 .. gd.idx
          BY <2>1, <3>5, <4>3, <5>1, <5>3 DEF CopiedTo
        <5> QED
          BY <4>1, <5>2, <5>3
      <4>4. ASSUME NEW i \in 1 .. gd.i, slot[i].y # -1
            PROVE  \E s \in 1 .. n : src'[s] = i
        <5>1. CASE i = gd.i
          BY <2>1, <3>5, <5>1
        <5>2. CASE i \in 1 .. gd.i - 1
          <6>1. PICK s \in 1 .. gd.idx : src[s] = i
            BY <2>1, <4>4, <5>2 DEF CopiedTo
          <6> QED
            BY <2>1, <3>5, <6>1
        <5> QED
          BY <2>1, <5>1, <5>2
      <4> QED
        <5>1. gd'.idx = n /\ gd'.i - 1 = gd.i
          BY <2>1, <2>2, <3>3
        <5> HIDE DEF n
        <5> QED
          BY <2>2, <4>2, <4>3, <4>4, <5>1 DEF CopiedTo
    <3> QED
      BY <2>5, <3>2, <3>3, <3>6, <3>7
  <2> QED
    BY <2>6, <2>7
<1>5. CASE GdCount
  <2>1. gd.idx \in 0 .. SampleCap /\ gd'.pc = "post" /\ gd'.batch = gd.batch
        /\ gd.pc = "copy" /\ num_sample' = gd.idx
    BY <1>5 DEF GdCount, Inv, TypeOK, GdState
  <2>2. gd.i - 1 = Len(slot) /\ slot = gd.batch /\ slot \in Batches
    BY <1>5, BatchLen DEF GdCount, Inv, TypeOK, GdState, CopyInv, GdHolds
  <2>3. TypeOK'
    BY <1>5, <2>1 DEF GdCount, Inv, TypeOK, GdState
  <2>4. UpRecord' /\ SemInv'
    BY <1>5, <2>1 DEF GdCount, Inv, UpRecord, SemInv, GdHolds, UpHolds
  <2>5. CopiedTo(num_sample, Len(slot))'
    <3>1. CopiedTo(gd.idx, Len(slot))
      BY <2>1, <2>2 DEF Inv, CopyInv
    <3> QED
      BY <1>5, <2>1, <3>1 DEF GdCount, CopiedTo
  <2>6. CopyInv'
    BY <1>5, <2>1, <2>2, <2>5 DEF GdCount, CopyInv, GdHolds, Inv
  <2> QED
    BY <2>3, <2>4, <2>6 DEF Inv
<1>6. CASE GdPost
  <2>1. gd.pc = "post" /\ gd'.pc = "stat"
    BY <1>6 DEF GdPost, Inv, TypeOK, GdState
  <2>2. UpRecord' /\ SemInv'
    BY <1>6, <2>1 DEF GdPost, Inv, UpRecord, SemInv, GdHolds, UpHolds
  <2>3. TypeOK'
    BY <1>6, <2>1, <2>2 DEF GdPost, Inv, TypeOK, GdState, SemInv, GdHolds
  <2>4. CopyInv'
    BY <1>6, <2>1 DEF GdPost, Inv, CopyInv, CopiedTo, GdHolds, UpHolds
  <2> QED
    BY <2>2, <2>3, <2>4 DEF Inv
<1>7. CASE GdStat
  <2>1. gd.pc = "stat" /\ gd'.pc = "idle"
    BY <1>7 DEF GdStat, Inv, TypeOK, GdState
  <2>2. UpRecord' /\ SemInv'
    BY <1>7, <2>1 DEF GdStat, Inv, UpRecord, SemInv, GdHolds, UpHolds
  <2>3. TypeOK'
    <3>1. gd' \in GdState /\ stat' \in 0 .. 5
      BY <1>7 DEF GdStat, Inv, TypeOK, GdState
    <3> QED
      BY <1>7, <3>1 DEF GdStat, Inv, TypeOK
  <2>4. CopyInv'
    BY <1>7, <2>1 DEF GdStat, Inv, CopyInv, CopiedTo, GdHolds, UpHolds
  <2> QED
    BY <2>2, <2>3, <2>4 DEF Inv
<1>8. CASE UpWait
  <2>1. up.pc = "wait" /\ up'.pc = "begin" /\ UpRecord'
    BY <1>8 DEF UpWait, Inv, UpRecord
  <2>2. SemInv'
    BY <1>8, <2>1 DEF UpWait, Inv, TypeOK, GdState, SemInv, GdHolds, UpHolds
  <2>3. TypeOK'
    BY <1>8, <2>1 DEF UpWait, Inv, TypeOK, GdState
  <2>4. CopyInv'
    BY <1>8, <2>1 DEF UpWait, Inv, TypeOK, GdState, CopyInv, CopiedTo, GdHolds, UpHolds
  <2> QED
    BY <2>1, <2>2, <2>3, <2>4 DEF Inv
<1>9. CASE UpPost
  <2>1. up.pc = "done" /\ up'.pc = "stat" /\ UpRecord'
    BY <1>9 DEF UpPost, UpRecord, Idle
  <2>2. SemInv'
    BY <1>9, <2>1 DEF UpPost, Inv, TypeOK, GdState, SemInv, GdHolds, UpHolds
  <2>3. TypeOK'
    BY <1>9, <2>1, <2>2 DEF UpPost, Inv, TypeOK, GdState, SemInv, UpHolds
  <2>4. CopyInv'
    BY <1>9, <2>1, <2>2 DEF UpPost, Inv, SemInv, CopyInv, CopiedTo, GdHolds, UpHolds
  <2> QED
    BY <2>1, <2>2, <2>3, <2>4 DEF Inv
<1>10. CASE UpNothing \/ UpPull \/ UpCompute \/ UpPushed \/ UpStat
  <2>1. UNCHANGED <<sem_done, sem_ready, samples, num_sample, gd, slot, src>>
        /\ stat' \in 0 .. 5
    BY <1>10 DEF UpNothing, UpPull, UpCompute, UpPushed, UpStat, Inv, TypeOK, GdState
  <2> UpRecord
    BY DEF Inv
  <2>2. UpRecord' /\ UpHolds' = UpHolds
        /\ up'.pc \in {"wait", "begin", "pull", "push", "done", "stat"}
    <3>1. CASE UpNothing
      BY <3>1 DEF UpNothing, Inv, UpRecord, UpHolds
    <3>2. CASE UpPull
      <4>1. PICK U : up' = [up EXCEPT !.pc = "pull", !.keys = U, !.w = <<>>,
                                      !.asked = TRUE]
        BY <3>2 DEF UpPull
      <4>2. up'.pc = "pull" /\ UpRecord' /\ up.pc = "begin"
        BY ONLY <3>2, <4>1, UpRecord DEF UpRecord, UpPull, UpAt
      <4> QED
        BY <4>2 DEF UpHolds
    <3>3. CASE UpCompute
      <4>1. PICK g : up' = [up EXCEPT !.pc = "push", !.grad = g]
        BY <3>3 DEF UpCompute
      <4>2. up.pc = "pull"
        BY <3>3 DEF UpCompute
      <4>3. up'.pc = "push" /\ UpRecord'
        BY ONLY <4>1, UpRecord DEF UpRecord
      <4> QED
        BY <4>2, <4>3 DEF UpHolds
    <3>4. CASE UpPushed
      BY <3>4 DEF UpPushed, Inv, UpRecord, UpHolds
    <3>5. CASE UpStat
      BY <3>5 DEF UpStat, Inv, UpRecord, UpHolds
    <3> QED
      BY <1>10, <3>1, <3>2, <3>3, <3>4, <3>5
  <2> QED
    BY <2>1, <2>2, InvFrame
<1>11. CASE ServerPull
  <2>1. UpRecord' /\ UpHolds' = UpHolds /\ up'.pc = up.pc
    BY <1>11 DEF ServerPull, Inv, UpRecord, UpHolds
  <2> QED
    BY <1>11, <2>1, InvFrame DEF ServerPull, Inv, TypeOK, GdState
<1>12. ASSUME NEW grad \in pushq, ServerPush(grad) PROVE Inv'
  <2>1. UpRecord' /\ UpHolds' = UpHolds
    BY <1>12 DEF ServerPush, Inv, UpRecord, UpHolds
  <2> QED
    BY <1>12, <2>1, InvFrame DEF ServerPush, Inv, TypeOK, GdState
<1>13. ASSUME NEW k \in Keys, NEW v \in Weights, OtherPush(k, v) PROVE Inv'
  <2>1. UpRecord' /\ UpHolds' = UpHolds
    BY <1>13 DEF OtherPush, Inv, UpRecord, UpHolds
  <2> QED
    BY <1>13, <2>1, InvFrame DEF OtherPush, Inv, TypeOK, GdState
<1> QED
  BY <1>1, <1>2, <1>3, <1>4, <1>5, <1>6, <1>7, <1>8, <1>9, <1>10, <1>11, <1>12,
     <1>13
  DEF Next, GetData, Start, Server

(* Every variable keeps its type; in particular the semaphores are binary  *)
(* and GetData never writes past samples.                                  *)
THEOREM LearnerTypeCorrect == Spec => []TypeOK
<1>1. Inv => TypeOK
  BY DEF Inv
<1> QED
  BY <1>1, InvInit, InvStep, PTL DEF Spec

(* GetData and update never work on samples at the same time. *)
THEOREM SamplesExclusive == Spec => []MutualExclusion
<1>1. Inv => MutualExclusion
  BY DEF Inv, SemInv, MutualExclusion
<1> QED
  BY <1>1, InvInit, InvStep, PTL DEF Spec

(* update works on exactly the labelled entries of the batch that was      *)
(* handed over, for batches of every length and content.                   *)
THEOREM SamplesExact == Spec => []CopyExact
<1>1. Inv => CopyExact
  BY LearnerAssumption DEF Inv, CopyInv, CopiedTo, CopyExact
<1> QED
  BY <1>1, InvInit, InvStep, PTL DEF Spec

(* A push that is not handled yet is the one update is waiting for. *)
PushInv == pushq # {} => UpAt("push")

(* No step leaves a push behind. *)
LEMMA PushInvStep == Inv /\ PushInv /\ [Next]_vars => PushInv'
<1> SUFFICES ASSUME UpRecord, PushInv, [Next]_vars PROVE PushInv'
  BY DEF Inv
<1> USE DEF PushInv, UpAt
<1>1. CASE UpCompute
  <2>1. PICK g : up' = [up EXCEPT !.pc = "push", !.grad = g]
    BY <1>1 DEF UpCompute
  <2>2. up'.pc = "push"
    BY ONLY <2>1, UpRecord DEF UpRecord
  <2> QED
    BY <2>2
<1>2. CASE UpPushed
  BY <1>2 DEF UpPushed
<1>3. CASE UpWait \/ UpNothing \/ UpPull \/ UpPost \/ UpStat
  BY <1>3 DEF UpWait, UpNothing, UpPull, UpPost, UpStat
<1>4. CASE ServerPull
  BY <1>4 DEF ServerPull
<1>5. ASSUME NEW grad \in pushq, ServerPush(grad) PROVE PushInv'
  BY <1>5 DEF ServerPush
<1>6. ASSUME NEW k \in Keys, NEW v \in Weights, OtherPush(k, v) PROVE PushInv'
  BY <1>6 DEF OtherPush
<1>7. ASSUME NEW b \in Batches, GdCall(b) PROVE PushInv'
  BY <1>7 DEF GdCall
<1>8. CASE GetData
  BY <1>8 DEF GetData, GdWait, GdCopy, GdCount, GdPost, GdStat
<1>9. CASE UNCHANGED vars
  BY <1>9 DEF vars
<1> QED
  BY <1>1, <1>2, <1>3, <1>4, <1>5, <1>6, <1>7, <1>8, <1>9 DEF Next, Start, Server

(* The weights update pulls have all of this worker's earlier pushes in    *)
(* them: none is on the way when it pulls, whatever the server and other   *)
(* workers do in between.                                                  *)
THEOREM PullsAfterOwnPushes == Spec => []ReadsOwnPushes
<1>1. Init => PushInv
  BY DEF Init, PushInv
<1>2. PushInv => ReadsOwnPushes
  BY DEF PushInv, ReadsOwnPushes, UpAt
<1> QED
  BY <1>1, <1>2, InvInit, InvStep, PushInvStep, PTL DEF Spec

-----------------------------------------------------------------------------
(* What CopiedTo says of all entries makes the samples the labelled ones.  *)
LEMMA CopiedIsLabelled ==
  ASSUME Inv, slot \in Batches, CopiedTo(num_sample, Len(slot))
  PROVE  [s \in 1 .. num_sample |-> samples[s]] = Labelled(slot)
<1> DEFINE E == [label : {-1, 0, 1}, mem : Seq(Features)]
           q == [i \in 1 .. Len(slot) |-> [label |-> slot[i].y, mem |-> slot[i].mem]]
           r == [s \in 1 .. num_sample |-> samples[s]]
           h == [s \in 1 .. num_sample |-> src[s]]
<1> DEFINE B == [y : {-1, 0, 1}, mem : Seq(Features)]
<1>1. slot \in Seq(B) /\ Len(slot) \in Nat
  BY LearnerAssumption, BatchLen
<1>2. q \in Seq(E) /\ Len(q) = Len(slot)
  <2>1. \A i \in 1 .. Len(slot) : slot[i] \in B
    <3> HIDE DEF B
    <3> QED
      BY <1>1
  <2>2. q \in [1 .. Len(slot) -> E]
    BY <2>1
  <2> HIDE DEF q, E
  <2> QED
    BY <1>1, <2>2
<1>3. r \in Seq(E) /\ Len(r) = num_sample /\ num_sample \in Nat
  <2>1. num_sample \in Nat /\ \A s \in 1 .. num_sample : samples[s] \in E
    BY LearnerAssumption DEF Inv, TypeOK
  <2>2. r \in [1 .. num_sample -> E]
    BY <2>1
  <2> HIDE DEF r, E
  <2> QED
    BY <2>1, <2>2
<1>4. Kept(slot) \in SUBSET (1 .. Len(q))
  BY <1>2 DEF Kept
<1>5. Lists(h, r, q, Kept(slot))
  <2>1. ASSUME NEW s \in 1 .. num_sample
        PROVE  src[s] \in Kept(slot) /\ r[s] = q[h[s]]
    BY <2>1 DEF CopiedTo, Kept
  <2>2. \A s, t \in 1 .. num_sample : s < t => h[s] < h[t]
    BY DEF CopiedTo
  <2>3. \A x \in Kept(slot) : \E s \in 1 .. num_sample : h[s] = x
    BY DEF CopiedTo, Kept
  <2>4. h \in [1 .. num_sample -> Kept(slot)]
    BY <2>1
  <2> HIDE DEF q, r, h
  <2> QED
    BY <1>3, <2>1, <2>2, <2>3, <2>4 DEF Lists
<1>6. r = Subsequence(q, Kept(slot))
  <2> HIDE DEF q, r, h, E
  <2> QED
    BY <1>2, <1>3, <1>4, <1>5, SubsequenceUnique
<1> QED
  BY <1>6 DEF Labelled

-----------------------------------------------------------------------------
(* Positions in _unique tell its keys apart; the bias is at position 0.    *)
LEMMA RankType ==
  ASSUME NEW keys \in SUBSET Nat, NEW k \in Nat
  PROVE  IsFiniteSet({j \in keys : j < k}) /\ Rank(k, keys) \in Nat
<1> DEFINE S == {j \in keys : j < k}
<1>1. S \in SUBSET Nat /\ \A j \in S : j <= k
  <2>1. ASSUME NEW j \in keys PROVE j \in Nat /\ (j < k => j <= k)
    <3>1. j \in Nat
      OBVIOUS
    <3> QED
      BY <3>1
  <2> QED
    BY <2>1
<1>2. IsFiniteSet(S)
  <2> HIDE DEF S
  <2> QED
    BY <1>1, FS_BoundedSetOfNaturals
<1> QED
  BY <1>2, FS_CardinalityType DEF Rank

(* A greater key has a greater position. *)
LEMMA RankOrder ==
  ASSUME NEW keys \in SUBSET Nat, NEW x \in keys, NEW y \in keys, x < y
  PROVE  Rank(x, keys) < Rank(y, keys)
<1> DEFINE S == {j \in keys : j < x}
           T == {j \in keys : j < y}
<1>1. S \in SUBSET T /\ x \in T /\ x \notin S
  <2>1. ASSUME NEW j \in keys PROVE (j < x => j < y) /\ ~(x < x)
    <3>1. j \in Nat /\ x \in Nat /\ y \in Nat
      OBVIOUS
    <3> QED
      BY <3>1
  <2> QED
    BY <2>1
<1>2. IsFiniteSet(T) /\ Rank(y, keys) \in Nat /\ Rank(x, keys) \in Nat
  BY RankType
<1>3. Rank(x, keys) = Cardinality(S) /\ Rank(y, keys) = Cardinality(T)
  BY DEF Rank
<1> HIDE DEF S, T
<1>4. Cardinality(S) <= Cardinality(T) /\ Cardinality(T) # Cardinality(S)
  BY <1>1, <1>2, FS_Subset
<1> QED
  BY <1>2, <1>3, <1>4

(* So no two keys share a position. *)
LEMMA RankInjective ==
  ASSUME NEW keys \in SUBSET Nat, NEW x \in keys, NEW y \in keys
  PROVE  Rank(x, keys) = Rank(y, keys) <=> x = y
<1>1. Rank(y, keys) \in Nat /\ Rank(x, keys) \in Nat
  BY RankType
<1>2. x < y => Rank(x, keys) < Rank(y, keys)
  BY RankOrder
<1>3. y < x => Rank(y, keys) < Rank(x, keys)
  BY RankOrder
<1> QED
  BY <1>1, <1>2, <1>3

(* Key 0 is at position 0, where caculate_gradient adds the bias. *)
LEMMA RankOfBias ==
  ASSUME NEW keys \in SUBSET Nat PROVE Rank(0, keys) = 0
<1>1. {j \in keys : j < 0} = {}
  <2>1. ASSUME NEW j \in keys PROVE ~(j < 0)
    <3>1. j \in Nat
      OBVIOUS
    <3> QED
      BY <3>1
  <2> QED
    BY <2>1
<1> QED
  BY <1>1, FS_EmptySet DEF Rank

(* Sample x has its features among the keys, and the maps agree on the keys *)
(* with the pulled weights and with the positions.                         *)
Mapped(x, keys, wmap, w, pmap) ==
  /\ keys \in SUBSET Nat /\ 0 \in keys
  /\ x.mem \in Seq(Features)
  /\ \A j \in 1 .. Len(x.mem) : x.mem[j] \in keys
  /\ \A i \in keys : wmap[i] = w[i]
  /\ \A i \in keys : pmap[i] = Rank(i, keys)

(* What update adds for such a sample. *)
LEMMA SampleGradient ==
  ASSUME NEW x, NEW keys, NEW wmap, NEW w, NEW pmap, Mapped(x, keys, wmap, w, pmap), NEW k \in keys
  PROVE  /\ Err(x, wmap) = Err(x, w)
         /\ Hits(x, Rank(k, keys), pmap) = IF k = 0 THEN 1 ELSE Times(x, k)
<1>a. PICK mem : mem = x.mem
  OBVIOUS
<1>b. /\ keys \in SUBSET Nat /\ 0 \in keys
      /\ mem \in Seq(Features) /\ x.mem = mem
      /\ \A j \in 1 .. Len(mem) : mem[j] \in keys
      /\ \A i \in keys : wmap[i] = w[i]
      /\ \A i \in keys : pmap[i] = Rank(i, keys)
  BY <1>a DEF Mapped
<1> USE <1>b
<1>0. Len(mem) \in Nat /\ \A j \in 1 .. Len(mem) : mem[j] \in Nat /\ mem[j] # 0
  <2>1. Len(mem) \in Nat /\ \A j \in 1 .. Len(mem) : mem[j] \in Features
    OBVIOUS
  <2> QED
    BY <2>1, LearnerAssumption
<1>1. Err(x, wmap) = Err(x, w)
  <2>1. [j \in 1 .. Len(mem) |-> wmap[mem[j]]] = [j \in 1 .. Len(mem) |-> w[mem[j]]]
    OBVIOUS
  <2>2. wmap[0] = w[0]
    OBVIOUS
  <2> QED
    BY <2>1, <2>2 DEF Err, Predict
<1> DEFINE T == {j \in 1 .. Len(mem) : mem[j] = k}
<1>2. {j \in 1 .. Len(mem) : pmap[mem[j]] = Rank(k, keys)} = T
  <2>1. ASSUME NEW j \in 1 .. Len(mem) PROVE pmap[mem[j]] = Rank(k, keys) <=> mem[j] = k
    <3>1. mem[j] \in keys
      OBVIOUS
    <3>2. pmap[mem[j]] = Rank(mem[j], keys)
      BY <3>1
    <3>3. Rank(mem[j], keys) = Rank(k, keys) <=> mem[j] = k
      BY <3>1, RankInjective
    <3> QED
      BY <3>2, <3>3
  <2> QED
    BY <2>1
<1>3. Rank(k, keys) = 0 <=> k = 0
  BY RankInjective, RankOfBias
<1>4. Hits(x, Rank(k, keys), pmap) = Cardinality(T) + (IF k = 0 THEN 1 ELSE 0)
  BY <1>2, <1>3 DEF Hits
<1>5. Times(x, k) = Cardinality(T)
  BY DEF Times
<1>6. Cardinality(T) \in Nat
  <2>1. IsFiniteSet(1 .. Len(mem)) /\ T \in SUBSET (1 .. Len(mem))
    <3>1. 1 \in Int /\ Len(mem) \in Int
      BY <1>0
    <3> QED
      BY <3>1, FS_Interval
  <2>2. IsFiniteSet(T)
    <3> HIDE DEF T
    <3> QED
      BY <2>1, FS_Subset
  <2> QED
    BY <2>2, FS_CardinalityType
<1>7. k = 0 => Cardinality(T) = 0
  <2>1. k = 0 => T = {}
    BY <1>0
  <2> QED
    BY <2>1, FS_EmptySet
<1> HIDE DEF T
<1>8. Hits(x, Rank(k, keys), pmap) = IF k = 0 THEN 1 ELSE Times(x, k)
  BY <1>4, <1>5, <1>6, <1>7
<1> QED
  BY <1>1, <1>8

(* The keys pulled are those of the samples, and what is answered are their *)
(* weights.                                                                *)
KeysInv ==
  UpAt("pull") => up.keys = Unique /\ (~up.asked => DOMAIN up.w = up.keys)

(* Every feature of a sample is among the keys pulled. *)
LEMMA UniqueType ==
  ASSUME Inv
  PROVE  /\ Unique \in SUBSET Nat /\ 0 \in Unique
         /\ \A s \in 1 .. num_sample :
              /\ samples[s].mem \in Seq(Features)
              /\ \A j \in 1 .. Len(samples[s].mem) : samples[s].mem[j] \in Unique
<1>1. ASSUME NEW s \in 1 .. num_sample
      PROVE  samples[s].mem \in Seq(Features)
  <2>1. s \in 1 .. SampleCap
    BY LearnerAssumption DEF Inv, TypeOK
  <2> QED
    BY <2>1 DEF Inv, TypeOK
<1>2. ASSUME NEW s \in 1 .. num_sample, NEW j \in 1 .. Len(samples[s].mem)
      PROVE  samples[s].mem[j] \in Nat /\ samples[s].mem[j] \in Unique
  <2>1. samples[s].mem[j] \in Features
    BY <1>1
  <2>2. samples[s].mem[j] \in FeaturesOf(samples[s])
    BY DEF FeaturesOf
  <2> QED
    BY <2>1, <2>2, LearnerAssumption DEF Unique
<1>3. Unique \in SUBSET Nat
  <2>1. ASSUME NEW s \in 1 .. num_sample, NEW k \in FeaturesOf(samples[s]) PROVE k \in Nat
    BY <1>2 DEF FeaturesOf
  <2> QED
    BY <2>1 DEF Unique
<1> QED
  BY <1>1, <1>2, <1>3 DEF Unique

(* The gradient update computes is the reference. *)
LEMMA ComputeStep ==
  ASSUME Inv, KeysInv, UpCompute
  PROVE  PushIsGradient'
<1> DEFINE ks == up.keys
           ranks == [k \in ks |-> Rank(k, ks)]
           W1 == Merge(W, up.w)
           P1 == Merge(P, ranks)
<1>1. ks = Unique /\ DOMAIN up.w = ks /\ slot' = slot /\ UpHolds
  BY DEF KeysInv, UpCompute, UpAt, UpHolds, hist
<1>2. ks \in SUBSET Nat /\ 0 \in ks
  BY <1>1, UniqueType
<1>3. \A k \in ks : W1[k] = up.w[k] /\ P1[k] = Rank(k, ks)
  BY <1>1 DEF Merge
<1>4. [s \in 1 .. num_sample |-> samples[s]] = Labelled(slot)
  <2>1. slot \in Batches /\ CopiedTo(num_sample, Len(slot))
    BY <1>1 DEF Inv, CopyInv
  <2> QED
    BY <2>1, CopiedIsLabelled
<1>5. Len(Labelled(slot)) = num_sample /\ \A s \in 1 .. num_sample : Labelled(slot)[s] = samples[s]
  <2>1. num_sample \in Nat
    BY LearnerAssumption DEF Inv, TypeOK
  <2>2. PICK r : r = Labelled(slot)
    OBVIOUS
  <2>3. r = [s \in 1 .. num_sample |-> samples[s]]
    BY <1>4, <2>2
  <2>4. Len(r) = num_sample /\ \A s \in 1 .. num_sample : r[s] = samples[s]
    BY <2>1, <2>3
  <2> QED
    BY <2>2, <2>4
<1>6. ASSUME NEW k \in ks PROVE Gradient(ranks[k], W1, P1) = ReferenceGradient(slot, up.w, k)
  <2> DEFINE f == [s \in 1 .. num_sample |-> Err(samples[s], W1) * Hits(samples[s], ranks[k], P1)]
             g == [s \in 1 .. num_sample |->
                     Err(samples[s], up.w) * (IF k = 0 THEN 1 ELSE Times(samples[s], k))]
  <2>1. ASSUME NEW s \in 1 .. num_sample
        PROVE  /\ Err(samples[s], W1) = Err(samples[s], up.w)
               /\ Hits(samples[s], Rank(k, ks), P1) = IF k = 0 THEN 1 ELSE Times(samples[s], k)
    <3>1. samples[s].mem \in Seq(Features) /\ \A j \in 1 .. Len(samples[s].mem) : samples[s].mem[j] \in ks
      BY <1>1, UniqueType
    <3>2. Mapped(samples[s], ks, W1, up.w, P1)
      <4> HIDE DEF W1, P1, ks
      <4> QED
        BY <1>2, <1>3, <3>1 DEF Mapped
    <3>3. PICK x, K, wm, w, pm : x = samples[s] /\ K = ks /\ wm = W1 /\ w = up.w /\ pm = P1
      OBVIOUS
    <3> HIDE DEF W1, P1, ks
    <3>4. Mapped(x, K, wm, w, pm) /\ k \in K
      BY <1>6, <3>2, <3>3
    <3>5. /\ Err(x, wm) = Err(x, w)
          /\ Hits(x, Rank(k, K), pm) = IF k = 0 THEN 1 ELSE Times(x, k)
      BY <3>4, SampleGradient
    <3> QED
      BY <3>3, <3>5
  <2>2. f = g
    <3>1. ranks[k] = Rank(k, ks)
      OBVIOUS
    <3> HIDE DEF W1, P1, ks, ranks
    <3> QED
      BY <2>1, <3>1
  <2>3. Gradient(ranks[k], W1, P1) = Total(f)
    <3> HIDE DEF W1, P1, ks, ranks
    <3> QED
      BY DEF Gradient
  <2>4. ReferenceGradient(slot, up.w, k) = Total(g)
    <3>1. g = [s \in 1 .. Len(Labelled(slot)) |->
                 Err(Labelled(slot)[s], up.w) * (IF k = 0 THEN 1 ELSE Times(Labelled(slot)[s], k))]
      BY <1>5
    <3> QED
      BY <3>1 DEF ReferenceGradient
  <2> QED
    BY <2>2, <2>3, <2>4
<1>7. up' = [up EXCEPT !.pc = "push", !.grad = [k \in ks |-> Gradient(ranks[k], W1, P1)]]
  BY DEF UpCompute
<1>8. up'.keys = ks /\ up'.w = up.w /\ up'.grad = [k \in ks |-> Gradient(ranks[k], W1, P1)]
  <2>1. UpRecord
    BY DEF Inv
  <2> HIDE DEF ks, ranks, W1, P1
  <2>2. PICK g : g = [k \in ks |-> Gradient(ranks[k], W1, P1)]
    OBVIOUS
  <2>3. up' = [up EXCEPT !.pc = "push", !.grad = g]
    BY <1>7, <2>2
  <2>4. up'.keys = up.keys /\ up'.w = up.w /\ up'.grad = g
    BY ONLY <2>1, <2>3 DEF UpRecord
  <2> QED
    BY <2>2, <2>4 DEF ks
<1>9. \A k \in ks : up'.grad[k] = ReferenceGradient(slot, up.w, k)
  <2> HIDE DEF ranks, W1, P1
  <2> QED
    BY <1>6, <1>8
<1> QED
  BY <1>1, <1>8, <1>9 DEF PushIsGradient

(* No other step touches what it is computed from. *)
LEMMA GradientStep ==
  Inv /\ KeysInv /\ PushIsGradient /\ [Next]_vars => KeysInv' /\ PushIsGradient'
<1> SUFFICES ASSUME Inv, KeysInv, PushIsGradient, [Next]_vars PROVE KeysInv' /\ PushIsGradient'
  OBVIOUS
<1> USE DEF shared, hist
<1>0. UpRecord
  BY DEF Inv
<1>1. ASSUME UNCHANGED <<samples, num_sample>>, UNCHANGED slot \/ ~UpHolds, UNCHANGED up
      PROVE  KeysInv' /\ PushIsGradient'
  <2>1. KeysInv'
    BY <1>1 DEF KeysInv, UpAt, Unique
  <2>2. PushIsGradient'
    BY <1>1 DEF PushIsGradient, UpAt, UpHolds
  <2> QED
    BY <2>1, <2>2
<1>2. CASE GdWait
  <2>1. ~UpHolds
    BY <1>2 DEF GdWait, Inv, SemInv
  <2> QED
    BY <1>1, <1>2, <2>1 DEF GdWait
<1>3. CASE GdCopy \/ GdCount
  <2>1. ~UpHolds /\ up' = up
    BY <1>3 DEF GdCopy, GdCount, GdAt, GdHolds, Inv, SemInv
  <2> QED
    BY <2>1 DEF KeysInv, PushIsGradient, UpAt, UpHolds
<1>4. CASE GdPost \/ GdStat
  BY <1>1, <1>4 DEF GdPost, GdStat
<1>5. ASSUME NEW b \in Batches, GdCall(b) PROVE KeysInv' /\ PushIsGradient'
  BY <1>1, <1>5 DEF GdCall
<1>6. CASE UpWait \/ UpNothing \/ UpPushed \/ UpPost \/ UpStat
  <2>1. up'.pc \notin {"pull", "push"}
    <3>1. PICK p \in {"begin", "done", "wait", "stat"} :
            up' = [up EXCEPT !.pc = p] \/ up' = [Idle EXCEPT !.pc = p]
      BY <1>6 DEF UpWait, UpNothing, UpPushed, UpPost, UpStat
    <3>2. up'.pc = p
      BY <1>0, <3>1 DEF UpRecord, Idle
    <3> QED
      BY <3>2
  <2> QED
    BY <2>1 DEF KeysInv, PushIsGradient, UpAt
<1>7. CASE UpPull
  <2>1. up' = [up EXCEPT !.pc = "pull", !.keys = Unique, !.w = <<>>, !.asked = TRUE]
    BY <1>7 DEF UpPull
  <2>2. up'.pc = "pull" /\ up'.keys = Unique /\ up'.asked
    BY ONLY <1>0, <2>1 DEF UpRecord
  <2>3. Unique' = Unique
    BY <1>7 DEF UpPull, Unique
  <2> QED
    BY <2>2, <2>3 DEF KeysInv, PushIsGradient, UpAt
<1>8. CASE ServerPull
  <2>1. PICK f : f = [k \in up.keys |-> weight[k]]
    OBVIOUS
  <2>2. up' = [up EXCEPT !.w = f, !.asked = FALSE] /\ up.pc = "pull"
    BY <1>8, <2>1 DEF ServerPull, UpAt
  <2>3. up'.pc = up.pc /\ up'.keys = up.keys /\ up'.w = f
    BY ONLY <1>0, <2>2 DEF UpRecord
  <2>4. DOMAIN f = up.keys
    BY <2>1
  <2>5. Unique' = Unique
    BY <1>8 DEF ServerPull, Unique
  <2> QED
    BY <2>2, <2>3, <2>4, <2>5 DEF KeysInv, PushIsGradient, UpAt
<1>9. CASE UpCompute
  <2>1. PICK g : up' = [up EXCEPT !.pc = "push", !.grad = g]
    BY <1>9 DEF UpCompute
  <2>2. up'.pc = "push"
    BY ONLY <1>0, <2>1 DEF UpRecord
  <2> QED
    BY <1>9, <2>2, ComputeStep DEF KeysInv, UpAt
<1>10. ASSUME NEW grad \in pushq, ServerPush(grad) PROVE KeysInv' /\ PushIsGradient'
  BY <1>1, <1>10 DEF ServerPush
<1>11. ASSUME NEW k \in Keys, NEW v \in Weights, OtherPush(k, v) PROVE KeysInv' /\ PushIsGradient'
  BY <1>1, <1>11 DEF OtherPush
<1>12. CASE UNCHANGED vars
  BY <1>1, <1>12 DEF vars
<1> QED
  BY <1>2, <1>3, <1>4, <1>5, <1>6, <1>7, <1>8, <1>9, <1>10, <1>11, <1>12
  DEF Next, GetData, Start, Server

(* What update pushes (learner.cpp 223-240) is the gradient of the batch   *)
(* it was handed, at the weights it pulled for it: whatever the maps W and *)
(* P have kept of earlier batches, for all batches, features, sigmoids and *)
(* steps of the server.                                                    *)
THEOREM PushesGradient == Spec => []PushIsGradient
<1>1. Init => KeysInv /\ PushIsGradient
  BY DEF Init, Idle, KeysInv, PushIsGradient, UpAt
<1> QED
  BY <1>1, InvInit, InvStep, GradientStep, PTL DEF Spec

-----------------------------------------------------------------------------
(* The hand-over is free exactly when sem_done is up. *)
SlotInv == sem_done = 1 <=> slot = NoBatch

(* Only the take and the end of an update change the place. *)
LEMMA SlotInvStep == Inv /\ SlotInv /\ [Next]_vars => SlotInv'
<1> SUFFICES ASSUME Inv, SlotInv, [Next]_vars PROVE SlotInv'
  OBVIOUS
<1> USE DEF SlotInv, shared, hist
<1>1. CASE UNCHANGED <<sem_done, slot>>
  BY <1>1
<1>2. CASE GdWait
  <2>1. slot' \in Batches /\ sem_done' = 0
    BY <1>2 DEF GdWait, GdAt, Inv, CopyInv, TypeOK
  <2> QED
    BY <2>1, LearnerAssumption
<1>3. CASE UpPost
  <2>1. slot' = NoBatch /\ sem_done' = 1
    BY <1>3 DEF UpPost, UpAt, UpHolds, Inv, SemInv
  <2> QED
    BY <2>1
<1>4. CASE GdCopy \/ GdCount \/ GdPost \/ GdStat
  BY <1>1, <1>4 DEF GdCopy, GdCount, GdPost, GdStat
<1>5. CASE UpWait \/ UpNothing \/ UpPull \/ UpCompute \/ UpPushed \/ UpStat
  BY <1>1, <1>5 DEF UpWait, UpNothing, UpPull, UpCompute, UpPushed, UpStat
<1>6. CASE Server
  BY <1>1, <1>6 DEF Server, ServerPull, ServerPush
<1>7. ASSUME NEW k \in Keys, NEW v \in Weights, OtherPush(k, v) PROVE SlotInv'
  BY <1>1, <1>7 DEF OtherPush
<1>8. ASSUME NEW b \in Batches, GdCall(b) PROVE SlotInv'
  BY <1>1, <1>8 DEF GdCall
<1>9. CASE UNCHANGED vars
  BY <1>1, <1>9 DEF vars
<1> QED
  BY <1>2, <1>3, <1>4, <1>5, <1>6, <1>7, <1>8, <1>9 DEF Next, GetData, Start

(* Every step is a Give, a Train or no step of the hand-over. *)
LEMMA HandoffStep == Inv /\ SlotInv /\ [Next]_vars => [Abstract!Next]_Abstract!vars
<1> SUFFICES ASSUME Inv, SlotInv, [Next]_vars PROVE [Abstract!Next]_Abstract!vars
  OBVIOUS
<1> USE DEF shared, hist
<1>1. ASSUME UNCHANGED <<slot, last>> PROVE UNCHANGED Abstract!vars
  BY <1>1 DEF Abstract!vars
<1>2. CASE GdWait
  <2>1. /\ gd.batch \in Batches /\ slot = NoBatch /\ slot' = gd.batch /\ last' = last
        /\ gd.batch # NoBatch
    BY <1>2, LearnerAssumption DEF GdWait, GdAt, Inv, CopyInv, TypeOK, SlotInv
  <2>2. Abstract!Give(Labelled(gd.batch))
    BY <2>1 DEF Abstract!Give
  <2> QED
    BY <2>1, <2>2 DEF Abstract!Next
<1>3. CASE UpPost
  <2>1. slot \in Batches /\ slot # NoBatch /\ CopiedTo(num_sample, Len(slot))
    BY <1>3, LearnerAssumption DEF UpPost, UpAt, UpHolds, Inv, CopyInv
  <2>2. slot' = NoBatch /\ last' = [s \in 1 .. num_sample |-> samples[s]]
    BY <1>3 DEF UpPost
  <2>3. last' = Labelled(slot)
    BY <2>1, <2>2, CopiedIsLabelled
  <2>4. Labelled(slot) # NoBatch
    BY <2>1, NoBatchAssumption
  <2>5. Abstract!Train
    BY <2>1, <2>2, <2>3, <2>4 DEF Abstract!Train
  <2> QED
    BY <2>5 DEF Abstract!Next
<1>4. CASE GdCopy \/ GdCount \/ GdPost \/ GdStat
  BY <1>1, <1>4 DEF GdCopy, GdCount, GdPost, GdStat
<1>5. CASE UpWait \/ UpNothing \/ UpPull \/ UpCompute \/ UpPushed \/ UpStat
  BY <1>1, <1>5 DEF UpWait, UpNothing, UpPull, UpCompute, UpPushed, UpStat
<1>6. CASE Server
  BY <1>1, <1>6 DEF Server, ServerPull, ServerPush
<1>7. ASSUME NEW k \in Keys, NEW v \in Weights, OtherPush(k, v) PROVE UNCHANGED Abstract!vars
  BY <1>1, <1>7 DEF OtherPush
<1>8. ASSUME NEW b \in Batches, GdCall(b) PROVE UNCHANGED Abstract!vars
  BY <1>1, <1>8 DEF GdCall
<1>9. CASE UNCHANGED vars
  BY <1>1, <1>9 DEF vars
<1> QED
  BY <1>2, <1>3, <1>4, <1>5, <1>6, <1>7, <1>8, <1>9 DEF Next, GetData, Start

(* GetData and update implement the one-place hand-over Parser relies on:  *)
(* a batch is taken only when the one before was trained on, and each is   *)
(* trained on once, on exactly its labelled samples in their order.  (That *)
(* a batch taken is trained on at all is the fairness part of              *)
(* ImplementsHandoff.)                                                     *)
THEOREM HandoffRefined == Spec => Abstract!Safety
<1>1. Init => Inv /\ SlotInv
  BY InvInit DEF Init, SlotInv
<1>2. (Inv /\ SlotInv) /\ [Next]_vars => (Inv /\ SlotInv)'
  BY InvStep, SlotInvStep
<1>3. Init => Abstract!Init
  BY DEF Init, Abstract!Init
<1> QED
  BY <1>1, <1>2, <1>3, HandoffStep, PTL DEF Spec, Abstract!Safety
=============================================================================
