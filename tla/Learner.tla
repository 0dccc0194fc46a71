------------------------------ MODULE Learner -------------------------------
(***************************************************************************)
(* Learner (src/src/core/learner.cpp) of one application: GetData, called  *)
(* by the impression thread, and the update thread that runs Start.  They  *)
(* share samples and num_sample under the two semaphores sem_done and      *)
(* sem_ready.  update pulls the weights of the features of the batch from  *)
(* the server, computes the gradient through the maps W and P, which keep *)
(* entries of earlier batches, and pushes it.  One server answers: keys    *)
(* are below 2^31, in the key range of the first server.                   *)
(*                                                                         *)
(* An entry of a batch has the label y of CheckLabel or CheckImp (-1: not  *)
(* for this learner) and the features mem.  Reals are fixed-point integers *)
(* with One for 1.0.  Features are positive ints (extract_feature keeps    *)
(* atoi(..) >= 1), so the int skey of caculate_gradient loses nothing and  *)
(* key 0 is the bias alone.  The exit flag is never set (main.cpp registers*)
(* no signal handler), so the branch of Start it guards is left out.       *)
(***************************************************************************)
EXTENDS Integers, Sequences, FiniteSets, Functions, TLC, SeqFilter

CONSTANTS
  Features,     \* feature ids
  Batches,      \* arguments (Xs, Y) of GetData: sequences of [y, mem]
  NoBatch,
  SampleCap,    \* 10000: size of samples
  MapCap,       \* 10000000: W and P are emptied above this size
  One,          \* 1.0
  Sigmoid(_),
  Weights,      \* values a weight may take on the server
  Step(_, _)    \* external: weight after the server handled a gradient

Keys == Features \cup {0}

ASSUME LearnerAssumption ==
  /\ Features \subseteq Nat \ {0}
  /\ SampleCap \in Nat
  /\ NoBatch \notin Batches
  /\ \A b \in Batches : /\ b \in Seq([y : {-1, 0, 1}, mem : Seq(Features)])
                        /\ Len(b) <= SampleCap

VARIABLES
  sem_done, sem_ready,
  samples, num_sample,   \* slot -> [label, mem]
  stat,
  W, P,                  \* key -> weight, key -> position
  gd,                    \* GetData: pc, argument, loop index, idx
  up,                    \* update: pc, _unique, w, pull unanswered, grad
  weight,                \* server: key -> weight
  pushq,                 \* pushes the server has not handled
  slot, src, last        \* history: batch taken and not finished; slot ->
                         \* position it was copied from; last update

shared == <<sem_done, sem_ready, samples, num_sample>>
hist == <<slot, src, last>>
vars == <<shared, stat, W, P, gd, up, weight, pushq, hist>>

Empty == [label |-> 0, mem |-> <<>>]
Idle == [pc |-> "wait", keys |-> {}, w |-> <<>>, asked |-> FALSE, grad |-> <<>>]

(* The constructor, once it has set the semaphores up; stat is not set. *)
Init ==
  /\ sem_done = 1 /\ sem_ready = 0
  /\ samples = [s \in 1 .. SampleCap |-> Empty] /\ num_sample = 0
  /\ stat \in 0 .. 5
  /\ W = <<>> /\ P = <<>>
  /\ gd = [pc |-> "idle", batch |-> NoBatch, i |-> 1, idx |-> 0]
  /\ up = Idle
  /\ weight = [k \in Keys |-> 0] /\ pushq = {}
  /\ slot = NoBatch /\ src = [s \in 1 .. SampleCap |-> 0] /\ last = NoBatch

-----------------------------------------------------------------------------
(* GetData *)
GdAt(pc) == gd.pc = pc
UpAt(pc) == up.pc = pc

GdCall(b) ==
  /\ GdAt("idle")
  /\ gd' = [pc |-> "wait", batch |-> b, i |-> 1, idx |-> 0]
  /\ UNCHANGED <<shared, stat, W, P, up, weight, pushq, hist>>

(* Mutant: GetData does not wait for the update. *)
MutWait ==
  /\ GdAt("wait")
  /\ gd' = [gd EXCEPT !.pc = "copy"]
  /\ slot' = gd.batch
  /\ UNCHANGED <<shared, stat, W, P, up, weight, pushq, src, last>>

(* sem_wait(&sem_done) *)
GdWait ==
  /\ GdAt("wait") /\ sem_done > 0
  /\ sem_done' = sem_done - 1
  /\ gd' = [gd EXCEPT !.pc = "copy"]
  /\ slot' = gd.batch
  /\ UNCHANGED <<sem_ready, samples, num_sample, stat, W, P, up, weight, pushq,
                 src, last>>

(* Mutant: the destination advances with the source. *)
MutCopy ==
  /\ GdAt("copy") /\ gd.i <= Len(gd.batch)
  /\ LET e == gd.batch[gd.i]
     IN  IF e.y = -1
         THEN /\ gd' = [gd EXCEPT !.i = @ + 1, !.idx = @ + 1]
              /\ UNCHANGED <<samples, src>>
         ELSE /\ gd' = [gd EXCEPT !.i = @ + 1, !.idx = @ + 1]
              /\ samples' = [samples EXCEPT ![gd.idx + 1] =
                               [label |-> e.y, mem |-> e.mem]]
              /\ src' = [src EXCEPT ![gd.idx + 1] = gd.i]
  /\ UNCHANGED <<sem_done, sem_ready, num_sample, stat, W, P, up, weight, pushq,
                 slot, last>>

(* One iteration of the loop that copies the labelled samples. *)
GdCopy ==
  /\ GdAt("copy") /\ gd.i <= Len(gd.batch)
  /\ LET e == gd.batch[gd.i]
     IN  IF e.y = -1
         THEN /\ gd' = [gd EXCEPT !.i = @ + 1]
              /\ UNCHANGED <<samples, src>>
         ELSE /\ gd' = [gd EXCEPT !.i = @ + 1, !.idx = @ + 1]
              /\ samples' = [samples EXCEPT ![gd.idx + 1] =
                               [label |-> e.y, mem |-> e.mem]]
              /\ src' = [src EXCEPT ![gd.idx + 1] = gd.i]
  /\ UNCHANGED <<sem_done, sem_ready, num_sample, stat, W, P, up, weight, pushq,
                 slot, last>>

GdCount ==
  /\ GdAt("copy") /\ gd.i > Len(gd.batch)
  /\ num_sample' = gd.idx
  /\ gd' = [gd EXCEPT !.pc = "post"]
  /\ UNCHANGED <<sem_done, sem_ready, samples, stat, W, P, up, weight, pushq,
                 hist>>

GdPost ==
  /\ GdAt("post")
  /\ sem_ready' = sem_ready + 1
  /\ gd' = [gd EXCEPT !.pc = "stat"]
  /\ UNCHANGED <<sem_done, samples, num_sample, stat, W, P, up, weight, pushq,
                 hist>>

(* The call returns. *)
GdStat ==
  /\ GdAt("stat")
  /\ stat' = 3
  /\ gd' = [gd EXCEPT !.pc = "idle"]
  /\ UNCHANGED <<shared, W, P, up, weight, pushq, hist>>

-----------------------------------------------------------------------------
(* Start and update *)
UpWait ==
  /\ UpAt("wait") /\ sem_ready > 0
  /\ sem_ready' = sem_ready - 1
  /\ up' = [up EXCEPT !.pc = "begin"]
  /\ UNCHANGED <<sem_done, samples, num_sample, stat, W, P, gd, weight, pushq,
                 hist>>

(* Mutant: a batch without labelled samples skips the sem_post as well. *)
MutNothing ==
  /\ UpAt("begin") /\ num_sample = 0
  /\ up' = [up EXCEPT !.pc = "wait"]
  /\ UNCHANGED <<shared, stat, W, P, gd, weight, pushq, hist>>

(* if (num_sample == 0) return; *)
UpNothing ==
  /\ UpAt("begin") /\ num_sample = 0
  /\ up' = [up EXCEPT !.pc = "done"]
  /\ UNCHANGED <<shared, stat, W, P, gd, weight, pushq, hist>>

FeaturesOf(s) == {s.mem[j] : j \in 1 .. Len(s.mem)}

(* _unique: the bias and the features of the batch, in increasing order;   *)
(* then Pull is sent.                                                      *)
Unique == {0} \cup UNION {FeaturesOf(samples[s]) : s \in 1 .. num_sample}

UpPull ==
  /\ UpAt("begin") /\ num_sample # 0
  /\ up' = [up EXCEPT !.pc = "pull", !.keys = Unique, !.w = <<>>,
                      !.asked = TRUE]
  /\ UNCHANGED <<shared, stat, W, P, gd, weight, pushq, hist>>

(* External: the server answers the pull. *)
ServerPull ==
  /\ UpAt("pull") /\ up.asked
  /\ up' = [up EXCEPT !.w = [k \in up.keys |-> weight[k]], !.asked = FALSE]
  /\ UNCHANGED <<shared, stat, W, P, gd, weight, pushq, hist>>

(* The position of k in _unique. *)
Rank(k, keys) == Cardinality({j \in keys : j < k})

MutMerge(m, new) == m @@ new    \* mutant: insert, which keeps old entries

(* W[_unique[k]] = w[k]; P[_unique[k]] = k *)
Merge(m, new) ==
  [k \in DOMAIN new \cup DOMAIN m |-> IF k \in DOMAIN new THEN new[k] ELSE m[k]]

Total(f) == FoldFunction(+, 0, f)

(* predict: the sigmoid of the weights of the features and of the bias.    *)
Predict(s, wmap) ==
  Sigmoid(Total([j \in 1 .. Len(s.mem) |-> wmap[s.mem[j]]]) + wmap[0])

Err(s, wmap) == Predict(s, wmap) - One * s.label

(* caculate_gradient: how often a sample adds to position p of grad, and   *)
(* what ends there.                                                        *)
Hits(s, p, pmap) ==
  Cardinality({j \in 1 .. Len(s.mem) : pmap[s.mem[j]] = p}) + (IF p = 0 THEN 1 ELSE 0)

Gradient(p, wmap, pmap) ==
  Total([s \in 1 .. num_sample |-> Err(samples[s], wmap) * Hits(samples[s], p, pmap)])

(* Wait(Pull) returns; the maps are filled, the gradient computed, Push    *)
(* sent.                                                                   *)
UpCompute ==
  /\ UpAt("pull") /\ ~up.asked
  /\ LET ranks == [k \in up.keys |-> Rank(k, up.keys)]
         W1 == Merge(W, up.w)
         P1 == Merge(P, ranks)
         grad == [k \in up.keys |-> Gradient(ranks[k], W1, P1)]
     IN  /\ W' = W1 /\ P' = P1
         /\ up' = [up EXCEPT !.pc = "push", !.grad = grad]
         /\ pushq' = pushq \cup {grad}
  /\ UNCHANGED <<shared, stat, gd, weight, hist>>

(* External: the server handles a push. *)
ServerPush(grad) ==
  /\ weight' = [k \in DOMAIN grad |-> Step(weight[k], grad[k])] @@ weight
  /\ pushq' = pushq \ {grad}
  /\ UNCHANGED <<shared, stat, W, P, gd, up, hist>>

(* External: so does it for a push of another worker. *)
OtherPush(k, v) ==
  /\ weight' = [weight EXCEPT ![k] = v]
  /\ UNCHANGED <<shared, stat, W, P, gd, up, pushq, hist>>

Emptied(m) == IF Cardinality(DOMAIN m) > MapCap THEN <<>> ELSE m

(* Mutant: the timestamp of Push is not waited for. *)
MutPushed ==
  /\ UpAt("push")
  /\ W' = Emptied(W) /\ P' = Emptied(P)
  /\ up' = [up EXCEPT !.pc = "done"]
  /\ UNCHANGED <<shared, stat, gd, weight, pushq, hist>>

(* Wait(Push) returns; maps that have grown too large are dropped. *)
UpPushed ==
  /\ UpAt("push") /\ pushq = {}
  /\ W' = Emptied(W) /\ P' = Emptied(P)
  /\ up' = [up EXCEPT !.pc = "done"]
  /\ UNCHANGED <<shared, stat, gd, weight, pushq, hist>>

(* sem_post(&sem_done) *)
UpPost ==
  /\ UpAt("done")
  /\ sem_done' = sem_done + 1
  /\ up' = [Idle EXCEPT !.pc = "stat"]
  /\ slot' = NoBatch
  /\ last' = [s \in 1 .. num_sample |-> samples[s]]
  /\ UNCHANGED <<sem_ready, samples, num_sample, stat, W, P, gd, weight, pushq,
                 src>>

UpStat ==
  /\ UpAt("stat")
  /\ stat' = 2
  /\ up' = [up EXCEPT !.pc = "wait"]
  /\ UNCHANGED <<shared, W, P, gd, weight, pushq, hist>>

-----------------------------------------------------------------------------
GetData == GdWait \/ GdCopy \/ GdCount \/ GdPost \/ GdStat
Start == UpWait \/ UpNothing \/ UpPull \/ UpCompute \/ UpPushed \/ UpPost \/ UpStat
Server == ServerPull \/ \E grad \in pushq : ServerPush(grad)

Next ==
  \/ \E b \in Batches : GdCall(b)
  \/ GetData
  \/ Start
  \/ Server
  \/ \E k \in Keys, v \in Weights : OtherPush(k, v)

Spec == Init /\ [][Next]_vars

(* Threads that can run do, and the server answers what it was sent. *)
FairSpec == Spec /\ WF_vars(GetData) /\ WF_vars(Start) /\ WF_vars(Server)

-----------------------------------------------------------------------------
(* Properties. *)
GdHolds == gd.pc \in {"copy", "post"}
UpHolds == up.pc \in {"begin", "pull", "push", "done"}

GdState == [pc : {"idle", "wait", "copy", "post", "stat"},
            batch : Batches \cup {NoBatch}, i : 1 .. SampleCap + 1,
            idx : 0 .. SampleCap]

(* The semaphores stay binary and every variable keeps its type.           *)
TypeOK ==
  /\ sem_done \in 0 .. 1 /\ sem_ready \in 0 .. 1
  /\ samples \in [1 .. SampleCap -> [label : {0, 1}, mem : Seq(Features)]]
  /\ num_sample \in 0 .. SampleCap
  /\ stat \in 0 .. 5
  /\ gd \in GdState
  /\ up.pc \in {"wait", "begin", "pull", "push", "done", "stat"}
  /\ src \in [1 .. SampleCap -> 0 .. SampleCap]
  /\ slot \in Batches \cup {NoBatch}

(* samples and num_sample are never written by GetData while update reads  *)
(* them (learner.cpp 169-181 against 186-188).                             *)
MutualExclusion == ~(GdHolds /\ UpHolds)

(* While update runs, samples holds the labelled entries of the batch that *)
(* was handed over, all of them, each once and in order (168-183), though  *)
(* a longer batch was there before.                                        *)
CopyExact ==
  UpHolds =>
    /\ slot # NoBatch
    /\ \A s \in 1 .. num_sample :
         /\ src[s] \in 1 .. Len(slot) /\ slot[src[s]].y # -1
         /\ samples[s] = [label |-> slot[src[s]].y, mem |-> slot[src[s]].mem]
    /\ \A s, t \in 1 .. num_sample : s < t => src[s] < src[t]
    /\ \A i \in 1 .. Len(slot) : slot[i].y # -1 =>
         \E s \in 1 .. num_sample : src[s] = i

(* The labelled entries of a batch, and their gradient at given weights.   *)
Kept(b) == {i \in 1 .. Len(b) : b[i].y # -1}
Labelled(b) ==
  Subsequence([i \in 1 .. Len(b) |-> [label |-> b[i].y, mem |-> b[i].mem]], Kept(b))
Times(s, k) == Cardinality({j \in 1 .. Len(s.mem) : s.mem[j] = k})
ReferenceGradient(b, w, k) ==
  LET x == Labelled(b)
  IN  Total([s \in 1 .. Len(x) |-> Err(x[s], w) * (IF k = 0 THEN 1 ELSE Times(x[s], k))])

(* What is pushed for a key is the gradient of the handed-over batch at    *)
(* the weights this update pulled: entries W and P keep from earlier       *)
(* batches (224-227) never reach it (predict, caculate_gradient 255-278).  *)
PushIsGradient ==
  UpAt("push") =>
    \A k \in up.keys : up.grad[k] = ReferenceGradient(slot, up.w, k)

(* While an update pulls, its worker has no push of an earlier update on   *)
(* the way, so it reads its own writes (Wait at 240 before 223).           *)
ReadsOwnPushes == UpAt("pull") => pushq = {}

ASSUME NoBatchAssumption == \A b \in Batches : Labelled(b) # NoBatch

(* The hand-over Parser relies on: each batch is trained on once, on its   *)
(* labelled samples, before the next is taken; a batch taken is trained on.*)
Abstract ==
  INSTANCE Handoff WITH
    Inputs <- {Labelled(b) : b \in Batches}, None <- NoBatch,
    slot <- IF slot = NoBatch THEN NoBatch ELSE Labelled(slot), last <- last
ImplementsHandoff == Abstract!Spec
=============================================================================
