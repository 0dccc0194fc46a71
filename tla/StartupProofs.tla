---------------------------- MODULE StartupProofs ---------------------------
(***************************************************************************)
(* Proofs about what main does: about module Startup, for every number of  *)
(* workers and all options, and about module Config, which reads the file  *)
(* that main opens, for all files.  The two have no name in common.        *)
(***************************************************************************)
EXTENDS Startup, Config, SeqFilterProofs, TLAPS

(* The partitions a worker reads are those of its index. *)
PartInv ==
  \A w \in Workers : \/ partitions[w] = [s \in Streams |-> {}]
                     \/ partitions[w] = [s \in Streams |-> Parts(w, s)]

(* The positions of the loop a worker has passed, and those with a name. *)
Passed(w) == {i \in 1 .. k[w] : i - 1 \in known}

(* A constructor is one of the loop, and its requests are answered only by *)
(* an application that has its handler.                                    *)
AskInv ==
  \A w \in Workers : pc[w] = "asked" =>
    /\ k[w] < app_num[w] /\ k[w] \in known
    /\ due[w] = 0 => k[w] \in handled

(* The learners made so far are those of the names passed; the server has  *)
(* their applications.  A consumer is made behind the loop.                *)
LoopInv ==
  /\ \A w \in Workers : app_num[w] \in Nat /\ k[w] \in 0 .. app_num[w]
  /\ \A w \in Workers : learners[w] \in Seq(Int)
  /\ \A w \in Workers : \E h : Lists(h, learners[w], Loop(w), Passed(w))
  /\ \A w \in Workers : \A i \in Passed(w) : i - 1 \in handled
  /\ \A w \in Workers : \A s \in Streams : consumer[w][s] # "none" => k[w] = app_num[w]

Types ==
  /\ DOMAIN k = Procs /\ DOMAIN pc = Procs /\ DOMAIN due = Workers
  /\ worker_idx \in [Workers -> Int] /\ known \subseteq Nat
  /\ DOMAIN learners = Workers /\ DOMAIN partitions = Workers /\ DOMAIN consumer = Workers
  /\ \A w \in Workers : DOMAIN consumer[w] = Streams

IInv == Types /\ PartInv /\ AskInv /\ LoopInv

-----------------------------------------------------------------------------
(* The start. *)
LEMMA StartupInit == Init => IInv
<1> SUFFICES ASSUME Init PROVE IInv
  OBVIOUS
<1> USE StartupAssumption
<1>1. Types
  <2>1. worker_idx \in [Workers -> Int]
    BY DEF Init
  <2>2. known \subseteq Nat
    <3>1. known \subseteq UNION {0 .. n - 1 : n \in AppNums}
      BY DEF Init
    <3>2. ASSUME NEW a \in UNION {0 .. n - 1 : n \in AppNums} PROVE a \in Nat
      OBVIOUS
    <3> QED
      BY <3>1, <3>2
  <2>3. /\ DOMAIN k = Procs /\ DOMAIN pc = Procs /\ DOMAIN due = Workers /\ DOMAIN learners = Workers /\ DOMAIN partitions = Workers
        /\ DOMAIN consumer = Workers /\ \A w \in Workers : DOMAIN consumer[w] = Streams
    BY DEF Init
  <2> QED
    BY <2>1, <2>2, <2>3 DEF Types
<1>2. PartInv
  BY DEF Init, PartInv
<1>3. \A w \in Workers : app_num[w] \in Nat /\ k[w] = 0
  BY DEF Init, Procs
<1>4. \A w \in Workers : learners[w] = <<>> /\ Passed(w) = {}
  <2>1. ASSUME NEW w \in Workers PROVE Passed(w) = {}
    BY <1>3 DEF Passed
  <2>2. \A w \in Workers : learners[w] = <<>>
    BY DEF Init
  <2> QED
    BY <2>1, <2>2
<1>5. ASSUME NEW w \in Workers PROVE \E h : Lists(h, learners[w], Loop(w), Passed(w))
  <2>1. Lists([i \in {} |-> i], <<>>, Loop(w), {})
    BY DEF Lists
  <2> QED
    BY <1>4, <2>1
<1>6. \A w \in Workers : \A s \in Streams : consumer[w][s] = "none"
  BY DEF Init
<1>7. \A w \in Workers : learners[w] \in Seq(Int)
  <2>1. <<>> \in Seq(Int)
    OBVIOUS
  <2> QED
    BY <1>4, <2>1
<1>8. \A w \in Workers : app_num[w] \in Nat /\ k[w] \in 0 .. app_num[w]
  BY <1>3
<1>9. LoopInv
  BY <1>4, <1>5, <1>6, <1>7, <1>8 DEF LoopInv
<1>10. AskInv
  BY DEF Init, AskInv, Procs
<1> QED
  BY <1>1, <1>2, <1>9, <1>10 DEF IInv

(* Steps that leave the partitions alone. *)
LEMMA PartKept ==
  ASSUME PartInv, UNCHANGED <<worker_idx, partitions>>
  PROVE  PartInv'
<1>1. \A w \in Workers, s \in Streams : Parts(w, s)' = Parts(w, s)
  BY DEF Parts, Workid
<1> QED
  BY <1>1 DEF PartInv

(* Steps that leave the loop of the workers alone. *)
LEMMA LoopKept ==
  ASSUME LoopInv, UNCHANGED <<app_num, known, learners>>, handled \subseteq handled',
         \A w \in Workers : k'[w] = k[w],
         \A w \in Workers : \A s \in Streams : consumer'[w][s] # "none" => consumer[w][s] # "none"
  PROVE  LoopInv'
<1>1. \A w \in Workers : Passed(w)' = Passed(w) /\ Loop(w)' = Loop(w)
  BY DEF Passed, Loop
<1> QED
  BY <1>1 DEF LoopInv

(* Steps that start no constructor and answer none. *)
LEMMA AskKept ==
  ASSUME AskInv, UNCHANGED <<app_num, known>>, handled \subseteq handled',
         \A w \in Workers : pc'[w] = "asked" =>
           pc[w] = "asked" /\ k'[w] = k[w] /\ due'[w] = due[w]
  PROVE  AskInv'
  BY DEF AskInv

(* One step of the loop of worker w. *)
LEMMA LoopStep ==
  ASSUME IInv, NEW w \in Workers, k[w] < app_num[w],
         UNCHANGED <<app_num, known, handled, consumer>>, k' = [k EXCEPT ![w] = @ + 1],
         \/ k[w] \notin known /\ learners' = learners
         \/ k[w] \in known /\ k[w] \in handled /\ learners' = [learners EXCEPT ![w] = Append(@, k[w])]
  PROVE  LoopInv'
<1> DEFINE n == k[w] + 1
           q == Loop(w)
<1>1. /\ app_num[w] \in Nat /\ k[w] \in Nat /\ n \in 1 .. app_num[w]
      /\ k'[w] = n /\ \A v \in Workers \ {w} : k'[v] = k[v]
  BY DEF IInv, LoopInv, Types, Procs
<1>2. q \in Seq(Int) /\ Len(q) = app_num[w] /\ q[n] = k[w]
  BY <1>1 DEF Loop
<1>3. \A v \in Workers : Loop(v)' = Loop(v)
  BY DEF Loop
<1>4. \A v \in Workers \ {w} : Passed(v)' = Passed(v) /\ learners'[v] = learners[v]
  BY <1>1 DEF Passed, IInv, Types
<1>5. Passed(w) \in SUBSET (1 .. n - 1)
  BY <1>1 DEF Passed
<1>6. Passed(w)' = IF k[w] \in known THEN Passed(w) \cup {n} ELSE Passed(w)
  BY <1>1 DEF Passed
<1>7. learners[w] \in Seq(Int) /\ \E h : Lists(h, learners[w], q, Passed(w))
  BY DEF IInv, LoopInv
<1>8. learners'[w] \in Seq(Int) /\ \E h : Lists(h, learners'[w], q, Passed(w)')
  <2>1. CASE k[w] \notin known
    BY <2>1, <1>6, <1>7
  <2>2. CASE k[w] \in known
    <3>1. learners'[w] = Append(learners[w], q[n])
      BY <2>2, <1>2 DEF IInv, Types
    <3>2. PICK h : Lists(h, learners[w], q, Passed(w))
      BY <1>7
    <3>3. PICK r, J : r = learners[w] /\ J = Passed(w)
      OBVIOUS
    <3>4. /\ r \in Seq(Int) /\ q \in Seq(Int) /\ n \in 1 .. Len(q)
          /\ J \in SUBSET (1 .. n - 1) /\ Lists(h, r, q, J)
      BY <1>1, <1>2, <1>5, <1>7, <3>2, <3>3
    <3> HIDE DEF n, q
    <3>5. Append(r, q[n]) \in Seq(Int) /\ \E f : Lists(f, Append(r, q[n]), q, J \cup {n})
      BY <3>4, ListsAppend
    <3> QED
      BY <2>2, <1>6, <3>1, <3>3, <3>5
  <2> QED
    BY <2>1, <2>2
<1>9. \A v \in Workers : learners'[v] \in Seq(Int) /\ \E h : Lists(h, learners'[v], Loop(v)', Passed(v)')
  <2> HIDE DEF n
  <2>1. ASSUME NEW v \in Workers \ {w}
        PROVE  learners'[v] \in Seq(Int) /\ \E h : Lists(h, learners'[v], Loop(v)', Passed(v)')
    BY <1>3, <1>4 DEF IInv, LoopInv
  <2> QED
    BY <1>3, <1>8, <2>1
<1>10. \A v \in Workers : \A i \in Passed(v)' : i - 1 \in handled'
  <2>1. ASSUME NEW v \in Workers \ {w}, NEW i \in Passed(v)' PROVE i - 1 \in handled'
    BY <2>1, <1>4 DEF IInv, LoopInv
  <2>2. ASSUME NEW i \in Passed(w)' PROVE i - 1 \in handled'
    <3>1. CASE i \in Passed(w)
      BY <3>1 DEF IInv, LoopInv
    <3>2. CASE i = n /\ k[w] \in known
      BY <3>2, <1>1
    <3> QED
      BY <1>6, <3>1, <3>2
  <2> QED
    BY <2>1, <2>2
<1>11. \A v \in Workers : app_num'[v] \in Nat /\ k'[v] \in 0 .. app_num'[v]
  <2>1. ASSUME NEW v \in Workers \ {w} PROVE app_num'[v] \in Nat /\ k'[v] \in 0 .. app_num'[v]
    BY <2>1, <1>1 DEF IInv, LoopInv
  <2> QED
    BY <1>1, <2>1
<1>12. ASSUME NEW v \in Workers, NEW s \in Streams, consumer'[v][s] # "none" PROVE k'[v] = app_num'[v]
  <2>1. k[v] = app_num[v]
    BY <1>12 DEF IInv, LoopInv
  <2>2. v # w
    BY <1>1, <2>1
  <2> QED
    BY <1>1, <2>1, <2>2
<1> QED
  BY <1>9, <1>10, <1>11, <1>12 DEF LoopInv

(* Every step. *)
LEMMA StartupStep == IInv /\ [Next]_vars => IInv'
<1> SUFFICES ASSUME IInv, [Next]_vars PROVE IInv'
  OBVIOUS
<1> USE StartupAssumption DEF options, network
<1>1. CASE UNCHANGED vars
  <2>0. Types'
    BY <1>1 DEF vars, IInv, Types
  <2>1. PartInv'
    BY <1>1, PartKept DEF vars, IInv
  <2>2. LoopInv'
    BY <1>1, LoopKept DEF vars, IInv
  <2>3. AskInv'
    BY <1>1, AskKept DEF vars, IInv
  <2> QED
    BY <2>0, <2>1, <2>2, <2>3 DEF IInv
<1>2. ASSUME NEW p \in Procs, Open(p) PROVE IInv'
  <2>0. Types'
    BY <1>2 DEF Open, Goto, IInv, Types
  <2>1. PartInv'
    BY <1>2, PartKept DEF Open, IInv
  <2>2. LoopInv'
    BY <1>2, LoopKept DEF Open, IInv
  <2>3. ASSUME NEW w \in Workers, pc'[w] = "asked" PROVE pc[w] = "asked"
    BY <1>2, <2>3 DEF Open, Goto, IInv, Types, Procs
  <2>4. AskInv'
    BY <1>2, <2>3, AskKept DEF Open, IInv
  <2> QED
    BY <2>0, <2>1, <2>2, <2>4 DEF IInv
<1>3. CASE NewServer \/ NoServer \/ SetHandle \/ Serve
  <2>0. Types'
    BY <1>3 DEF NewServer, NoServer, SetHandle, Serve, Goto, IInv, Types, Procs
  <2>1. PartInv'
    BY <1>3, PartKept DEF NewServer, NoServer, SetHandle, Serve, IInv
  <2>2. /\ UNCHANGED <<app_num, known, learners, consumer, due>> /\ handled \subseteq handled'
        /\ \A w \in Workers : k'[w] = k[w] /\ pc'[w] = pc[w]
    BY <1>3 DEF NewServer, NoServer, SetHandle, Serve, Goto, IInv, Types, Procs
  <2>3. LoopInv'
    BY <2>2, LoopKept DEF IInv
  <2>4. AskInv'
    BY <2>2, AskKept DEF IInv
  <2> QED
    BY <2>0, <2>1, <2>3, <2>4 DEF IInv
<1>4. ASSUME NEW w \in Workers, NewLearner(w) PROVE IInv'
  <2>0. Types'
    BY <1>4 DEF NewLearner, Goto, IInv, Types, Procs
  <2>1. PartInv'
    BY <1>4, PartKept DEF NewLearner, IInv
  <2>2. LoopInv'
    BY <1>4, LoopKept DEF NewLearner, IInv
  <2>3. AskInv'
    <3>1. PICK n \in 1 .. MaxRequests : due' = [due EXCEPT ![w] = n]
      BY <1>4 DEF NewLearner
    <3>2. due'[w] # 0 /\ \A v \in Workers \ {w} : due'[v] = due[v] /\ pc'[v] = pc[v]
      BY <1>4, <3>1 DEF NewLearner, Goto, IInv, Types, Procs
    <3> QED
      BY <1>4, <3>2 DEF NewLearner, IInv, AskInv
  <2> QED
    BY <2>0, <2>1, <2>2, <2>3 DEF IInv
<1>5. ASSUME NEW w \in Workers, SkipApp(w) \/ Constructed(w) PROVE IInv'
  <2>1. Types'
    BY <1>5 DEF SkipApp, Constructed, Goto, IInv, Types, Procs
  <2>2. PartInv'
    BY <1>5, PartKept DEF SkipApp, Constructed, IInv
  <2>3. LoopInv'
    <3>1. CASE SkipApp(w)
      BY <3>1, LoopStep DEF SkipApp, network
    <3>2. CASE Constructed(w)
      <4>1. k[w] < app_num[w] /\ k[w] \in known /\ k[w] \in handled
        BY <3>2 DEF Constructed, At, IInv, AskInv
      <4> QED
        BY <3>2, <4>1, LoopStep DEF Constructed, network
    <3> QED
      BY <1>5, <3>1, <3>2
  <2>4. AskInv'
    <3>1. ASSUME NEW v \in Workers, pc'[v] = "asked"
          PROVE  pc[v] = "asked" /\ k'[v] = k[v] /\ due'[v] = due[v]
      BY <1>5, <3>1 DEF SkipApp, Constructed, At, Goto, network, IInv, Types, Procs
    <3> QED
      BY <1>5, <3>1, AskKept DEF SkipApp, Constructed, network, IInv
  <2> QED
    BY <2>1, <2>2, <2>3, <2>4 DEF IInv
<1>8. ASSUME NEW w \in Workers, Answer(w) PROVE IInv'
  <2>1. Types'
    BY <1>8 DEF Answer, IInv, Types
  <2>2. PartInv'
    BY <1>8, PartKept DEF Answer, IInv
  <2>3. LoopInv'
    BY <1>8, LoopKept DEF Answer, IInv
  <2>4. AskInv'
    <3>1. \A v \in Workers \ {w} : due'[v] = due[v]
      BY <1>8 DEF Answer, IInv, Types
    <3> QED
      BY <1>8, <3>1 DEF Answer, IInv, AskInv
  <2> QED
    BY <2>1, <2>2, <2>3, <2>4 DEF IInv
<1>9. ASSUME NEW w \in Workers, Abort(w) \/ Timeout(w) PROVE IInv'
  <2>1. Types'
    BY <1>9 DEF Abort, Timeout, Goto, network, IInv, Types
  <2>2. PartInv'
    BY <1>9, PartKept DEF Abort, Timeout, IInv
  <2>3. LoopInv'
    BY <1>9, LoopKept DEF Abort, Timeout, network, IInv
  <2>4. AskInv'
    <3>1. ASSUME NEW v \in Workers, pc'[v] = "asked" PROVE pc[v] = "asked"
      BY <1>9, <3>1 DEF Abort, Timeout, Goto, IInv, Types, Procs
    <3> QED
      BY <1>9, <3>1, AskKept DEF Abort, Timeout, network, IInv
  <2> QED
    BY <2>1, <2>2, <2>3, <2>4 DEF IInv
<1>6. ASSUME NEW w \in Workers, NewSampleKafka(w) PROVE IInv'
  <2>1. Types'
    BY <1>6 DEF NewSampleKafka, Goto, IInv, Types
  <2>2. PartInv'
    <3>1. \A v \in Workers, s \in Streams : Parts(v, s)' = Parts(v, s)
      BY <1>6 DEF NewSampleKafka, Parts, Workid
    <3>2. partitions'[w] = [s \in Streams |-> Parts(w, s)]
      BY <1>6 DEF NewSampleKafka, IInv, Types
    <3>3. \A v \in Workers \ {w} : partitions'[v] = partitions[v]
      BY <1>6 DEF NewSampleKafka, IInv, Types
    <3>4. ASSUME NEW v \in Workers
          PROVE  \/ partitions'[v] = [s \in Streams |-> {}]
                 \/ partitions'[v] = [s \in Streams |-> Parts(v, s)']
      <4>1. [s \in Streams |-> Parts(v, s)'] = [s \in Streams |-> Parts(v, s)]
        BY <3>1
      <4>2. CASE v = w
        BY <3>2, <4>1, <4>2
      <4>3. CASE v # w
        <5>1. partitions'[v] = partitions[v]
          BY <3>3, <4>3
        <5>2. \/ partitions[v] = [s \in Streams |-> {}]
              \/ partitions[v] = [s \in Streams |-> Parts(v, s)]
          BY DEF IInv, PartInv
        <5> QED
          BY <4>1, <5>1, <5>2
      <4> QED
        BY <4>2, <4>3
    <3> QED
      BY <3>4 DEF PartInv
  <2>3. LoopInv'
    <3>1. \A v \in Workers : Passed(v)' = Passed(v) /\ Loop(v)' = Loop(v)
      BY <1>6 DEF NewSampleKafka, Passed, Loop
    <3>2. \A v \in Workers \ {w} : consumer'[v] = consumer[v]
      BY <1>6 DEF NewSampleKafka, IInv, Types
    <3>3. k[w] = app_num[w]
      BY <1>6 DEF NewSampleKafka
    <3> QED
      BY <1>6, <3>1, <3>2, <3>3 DEF NewSampleKafka, network, IInv, LoopInv
  <2>4. AskInv'
    <3>1. ASSUME NEW v \in Workers, pc'[v] = "asked" PROVE pc[v] = "asked"
      BY <1>6, <3>1 DEF NewSampleKafka, Goto, IInv, Types, Procs
    <3> QED
      BY <1>6, <3>1, AskKept DEF NewSampleKafka, network, IInv
  <2> QED
    BY <2>1, <2>2, <2>3, <2>4 DEF IInv
<1>7. ASSUME NEW w \in Workers, NEW s \in Streams, StartThread(w, s) PROVE IInv'
  <2>1. Types'
    BY <1>7 DEF StartThread, Goto, IInv, Types
  <2>2. PartInv'
    BY <1>7, PartKept DEF StartThread, IInv
  <2>3. ASSUME NEW v \in Workers, NEW t \in Streams, consumer'[v][t] # "none"
        PROVE  consumer[v][t] # "none"
    BY <1>7, <2>3 DEF StartThread, IInv, Types
  <2>4. LoopInv'
    BY <1>7, <2>3, LoopKept DEF StartThread, network, IInv
  <2>5. AskInv'
    <3>1. ASSUME NEW v \in Workers, pc'[v] = "asked" PROVE pc[v] = "asked"
      BY <1>7, <3>1 DEF StartThread, Goto, IInv, Types, Procs
    <3> QED
      BY <1>7, <3>1, AskKept DEF StartThread, network, IInv
  <2> QED
    BY <2>1, <2>2, <2>4, <2>5 DEF IInv
<1> QED
  BY <1>1, <1>2, <1>3, <1>4, <1>5, <1>6, <1>7, <1>8, <1>9 DEF Next, Main, Receive, Quiet

-----------------------------------------------------------------------------
(* Whatever the order in which the processes start and the options they    *)
(* were given, no thread of a worker reads before main has made the        *)
(* learners of all named applications, in order, and the server has them   *)
(* with their handlers (main.cpp 97-131).                                  *)
THEOREM ReadsAfterLearners == Spec => []ReadsWithLearners
<1>1. IInv => ReadsWithLearners
  <2> SUFFICES ASSUME IInv, NEW w \in Workers, NEW t \in Streams, consumer[w][t] = "running"
               PROVE  /\ learners[w] = Subsequence(Loop(w), {i \in 1 .. app_num[w] : i - 1 \in known})
                      /\ Wanted(w) \subseteq handled
    BY DEF ReadsWithLearners
  <2>1. k[w] = app_num[w] /\ app_num[w] \in Nat
    BY DEF IInv, LoopInv
  <2>2. Passed(w) = {i \in 1 .. app_num[w] : i - 1 \in known}
    BY <2>1 DEF Passed
  <2>3. Loop(w) \in Seq(Int) /\ Len(Loop(w)) = app_num[w]
    BY <2>1 DEF Loop
  <2>4. learners[w] = Subsequence(Loop(w), Passed(w))
    <3>1. PICK h : Lists(h, learners[w], Loop(w), Passed(w))
      BY DEF IInv, LoopInv
    <3>2. PICK r, q, I : r = learners[w] /\ q = Loop(w) /\ I = Passed(w)
      OBVIOUS
    <3>3. r \in Seq(Int) /\ q \in Seq(Int) /\ I \in SUBSET (1 .. Len(q)) /\ Lists(h, r, q, I)
      BY <2>2, <2>3, <3>1, <3>2 DEF IInv, LoopInv
    <3>4. r = Subsequence(q, I)
      BY <3>3, SubsequenceUnique
    <3> QED
      BY <3>2, <3>4
  <2>5. ASSUME NEW a \in Wanted(w) PROVE a \in handled
    <3>1. a \in known /\ a \in Nat /\ a < app_num[w]
      BY DEF Wanted, IInv, Types
    <3>2. a + 1 \in Passed(w) /\ (a + 1) - 1 = a
      BY <2>1, <2>2, <3>1
    <3> QED
      BY <3>2 DEF IInv, LoopInv
  <2> QED
    BY <2>2, <2>4, <2>5
<1> QED
  BY <1>1, StartupInit, StartupStep, PTL DEF Spec

(* For every set of workers and indexes, partitions are shared only by     *)
(* workers of one index, and indexes 0 .. n - 1 cover 4 n partitions       *)
(* (sample_kafka.cpp 40-52).                                               *)
THEOREM PartitionsOfIndex == Spec => []PartitionsByIndex
<1> DEFINE Started == {w \in Workers : partitions[w]["imp"] # {}}
           Covered == UNION {partitions[w]["imp"] : w \in Started}
<1>1. IInv => PartitionsByIndex
  <2> SUFFICES ASSUME IInv PROVE PartitionsByIndex
    OBVIOUS
  <2>1. \A w \in Workers : Workid(w) \in Nat
    BY DEF IInv, Types, Workid
  <2>2. ASSUME NEW w \in Started
        PROVE  /\ partitions[w]["bhv"] = {Workid(w)}
               /\ partitions[w]["imp"] = {Workid(w) * 4 + j : j \in 0 .. 3}
    BY DEF IInv, PartInv, Parts, Streams
  <2>3. ASSUME NEW v \in Started, NEW w \in Started, NEW s \in Streams,
               partitions[v][s] \cap partitions[w][s] # {}
        PROVE  Workid(v) = Workid(w)
    <3>1. Workid(v) \in Nat /\ Workid(w) \in Nat
      BY <2>1
    <3>2. CASE s = "bhv"
      BY <2>2, <2>3, <3>2
    <3>3. CASE s = "imp"
      <4>1. PICK x : x \in partitions[v]["imp"] /\ x \in partitions[w]["imp"]
        BY <2>3, <3>3
      <4>2. PICK i \in 0 .. 3 : x = Workid(v) * 4 + i
        BY <2>2, <4>1
      <4>3. PICK j \in 0 .. 3 : x = Workid(w) * 4 + j
        BY <2>2, <4>1
      <4>4. ASSUME NEW a \in Nat, NEW b \in Nat, a * 4 + i = b * 4 + j PROVE a = b
        BY <4>4
      <4> QED
        BY <3>1, <4>2, <4>3, <4>4
    <3> QED
      BY <3>2, <3>3 DEF Streams
  <2>4. ASSUME NEW n \in Int, {Workid(w) : w \in Started} = 0 .. n - 1
        PROVE  Covered = 0 .. 4 * n - 1
    <3>1. ASSUME NEW x \in Covered PROVE x \in 0 .. 4 * n - 1
      <4>1. PICK w \in Started : x \in partitions[w]["imp"]
        OBVIOUS
      <4>2. PICK j \in 0 .. 3 : x = Workid(w) * 4 + j
        BY <2>2, <4>1
      <4>3. Workid(w) \in 0 .. n - 1
        BY <2>4
      <4> QED
        BY <4>2, <4>3
    <3>2. ASSUME NEW x \in 0 .. 4 * n - 1 PROVE x \in Covered
      <4>1. PICK a \in 0 .. n - 1, j \in 0 .. 3 : x = a * 4 + j
        <5>1. x \div 4 \in 0 .. n - 1 /\ x % 4 \in 0 .. 3 /\ x = (x \div 4) * 4 + (x % 4)
          OBVIOUS
        <5> QED
          BY <5>1
      <4>2. PICK w \in Started : Workid(w) = a
        BY <2>4
      <4>3. x \in partitions[w]["imp"]
        BY <2>2, <4>1, <4>2
      <4> QED
        BY <4>3
    <3> QED
      BY <3>1, <3>2
  <2>5. \A n \in 1 .. Cardinality(Started) : n \in Int
    OBVIOUS
  <2> QED
    BY <2>3, <2>4, <2>5 DEF PartitionsByIndex
<1> QED
  BY <1>1, StartupInit, StartupStep, PTL DEF Spec

-----------------------------------------------------------------------------
(* The configuration reader.                                               *)
RoleRecs == [line : Lines, role : {"none", "more", "head", "pair", "bad"}]
Texts == {l.value : l \in Lines} \cup {l.text : l \in Lines}
Givens == [i \in DOMAIN roles |-> GivenAt(i)]

(* What the values of a key are. *)
Val(key) == IF Told(key) = {} THEN <<"">> ELSE Subsequence(Givens, Told(key))
ValInv ==
  \A key : /\ key \in DOMAIN values <=> Own(key) # {}
           /\ key \in DOMAIN values => values[key] = Val(key)

(* The parser's section and previous name are those of the lines read. *)
PlaceInv ==
  LET n == Len(roles)
      p == LastWith("pair", n + 1)
  IN /\ section = SectionAt(n + 1)
     /\ prev_name = IF p > LastWith("head", n + 1) THEN strncpy0(roles[p].line.name) ELSE NoName

ReaderInv ==
  /\ roles \in Seq(RoleRecs)
  /\ PlaceInv /\ ContinuationRule /\ ValInv

-----------------------------------------------------------------------------
(* The last line with a role, among the lines before line i. *)
LEMMA LastType ==
  ASSUME roles \in Seq(RoleRecs), NEW role, NEW i \in 1 .. Len(roles) + 1
  PROVE  LastWith(role, i) \in 0 .. i - 1
<1> DEFINE js == {j \in 1 .. i - 1 : roles[j].role = role}
<1>1. i \in Nat /\ i >= 1
  OBVIOUS
<1>2. CASE js = {}
  BY <1>1, <1>2 DEF LastWith
<1>3. CASE js # {}
  <2>1. i - 1 \in Nat /\ js \in SUBSET (0 .. i - 1)
    BY <1>1
  <2>2. PICK x \in js : \A y \in js : y <= x
    <3> HIDE DEF js
    <3> QED
      BY <1>3, <2>1, GreatestNat
  <2>3. \E m \in js : \A y \in js : m >= y
    <3>1. \A y \in js : y \in Int
      BY <2>1
    <3> HIDE DEF js
    <3> QED
      BY <2>2, <3>1
  <2>4. Max(js) \in js
    <3> HIDE DEF js
    <3> QED
      BY <2>3 DEF Max
  <2>5. LastWith(role, i) = Max(js)
    BY <1>3 DEF LastWith
  <2> QED
    BY <2>1, <2>4, <2>5
<1> QED
  BY <1>2, <1>3

(* One more line. *)
LEMMA RolesAppend ==
  ASSUME roles \in Seq(RoleRecs), NEW r \in RoleRecs, roles' = Append(roles, r)
  PROVE  /\ Len(roles) \in Nat /\ DOMAIN roles = 1 .. Len(roles)
         /\ roles' \in Seq(RoleRecs) /\ Len(roles') = Len(roles) + 1
         /\ DOMAIN roles' = 1 .. Len(roles) + 1 /\ roles'[Len(roles) + 1] = r
         /\ \A i \in 1 .. Len(roles) : roles'[i] = roles[i] /\ roles[i] \in RoleRecs
<1>1. PICK n, q, p : n = Len(roles) /\ q = roles /\ p = roles'
  OBVIOUS
<1>2. q \in Seq(RoleRecs) /\ p = Append(q, r) /\ n = Len(q)
  BY <1>1
<1>3. /\ n \in Nat /\ DOMAIN q = 1 .. n
      /\ p \in Seq(RoleRecs) /\ Len(p) = n + 1 /\ p[n + 1] = r
      /\ \A i \in 1 .. n : p[i] = q[i] /\ q[i] \in RoleRecs
  BY <1>2
<1>4. DOMAIN p = 1 .. n + 1
  BY <1>3
<1> QED
  BY <1>1, <1>3, <1>4

(* It is the last of its role, and changes nothing for the lines before. *)
LEMMA LastAppend ==
  ASSUME roles \in Seq(RoleRecs), NEW r \in RoleRecs, roles' = Append(roles, r), NEW role
  PROVE  /\ \A i \in 1 .. Len(roles) + 1 : LastWith(role, i)' = LastWith(role, i)
         /\ LastWith(role, Len(roles) + 1)' =
              IF r.role = role THEN Len(roles) + 1 ELSE LastWith(role, Len(roles) + 1)
<1>1. PICK n, q, p : n = Len(roles) /\ q = roles /\ p = roles'
  OBVIOUS
<1>2. /\ n \in Nat /\ Len(p) = n + 1 /\ p[n + 1] = r
      /\ \A i \in 1 .. n : p[i] = q[i]
  BY <1>1, RolesAppend
<1> DEFINE js(s, i) == {j \in 1 .. i - 1 : s[j].role = role}
           last(s, i) == IF js(s, i) = {} THEN 0 ELSE Max(js(s, i))
<1>3. \A i \in 1 .. n + 1 : js(p, i) = js(q, i)
  BY <1>2
<1>4. js(p, n + 2) = IF r.role = role THEN js(q, n + 1) \cup {n + 1} ELSE js(q, n + 1)
  BY <1>2
<1>5. r.role = role => Max(js(p, n + 2)) = n + 1
  <2> SUFFICES ASSUME r.role = role PROVE Max(js(p, n + 2)) = n + 1
    OBVIOUS
  <2>1. n + 1 \in js(p, n + 2) /\ \A j \in js(p, n + 2) : j \in Int /\ j <= n + 1
    BY <1>2, <1>4
  <2>2. PICK S : S = js(p, n + 2)
    OBVIOUS
  <2>3. n + 1 \in S /\ \A j \in S : j \in Int /\ j <= n + 1
    BY <2>1, <2>2
  <2> HIDE DEF js
  <2>4. Max(S) = n + 1
    BY <1>2, <2>3 DEF Max
  <2> QED
    BY <2>2, <2>4
<1>6. r.role = role => js(p, n + 2) # {}
  BY <1>2, <1>4
<1>7. \A i : LastWith(role, i) = last(q, i)
  BY <1>1 DEF LastWith
<1>8. \A i : LastWith(role, i)' = last(p, i)
  BY <1>1 DEF LastWith
<1>9. LastWith(role, Len(roles) + 1)' = last(p, n + 2)
  <2>1. PICK m : m = Len(roles') + 1
    OBVIOUS
  <2>2. LastWith(role, Len(roles) + 1)' = LastWith(role, m)'
    BY <2>1 DEF LastWith
  <2>3. m = n + 2
    BY <1>1, <1>2, <2>1
  <2> QED
    BY <1>8, <2>2, <2>3
<1>10. \A i \in 1 .. Len(roles) + 1 : LastWith(role, i)' = LastWith(role, i)
  <2> HIDE DEF js
  <2> QED
    BY <1>1, <1>3, <1>7, <1>8
<1>11. last(p, n + 2) = IF r.role = role THEN n + 1 ELSE last(q, n + 1)
  <2> HIDE DEF js
  <2> QED
    BY <1>4, <1>5, <1>6
<1> QED
  BY <1>1, <1>7, <1>9, <1>10, <1>11

(* The lines before keep their section, their text and, if they give a     *)
(* value, their key.                                                       *)
LEMMA AtSame ==
  ASSUME roles \in Seq(RoleRecs), ContinuationRule, NEW r \in RoleRecs, roles' = Append(roles, r)
  PROVE  /\ \A i \in 1 .. Len(roles) + 1 : SectionAt(i)' = SectionAt(i)
         /\ \A i \in 1 .. Len(roles) : GivenAt(i)' = GivenAt(i)
         /\ \A i \in 1 .. Len(roles) : roles[i].role \in {"pair", "more"} => KeyAt(i)' = KeyAt(i)
<1>1. PICK n : n = Len(roles)
  OBVIOUS
<1>2. /\ n \in Nat /\ DOMAIN roles = 1 .. n
      /\ \A i \in 1 .. n : roles'[i] = roles[i]
  BY <1>1, RolesAppend
<1>3. \A i \in 1 .. n + 1 : /\ LastWith("head", i)' = LastWith("head", i)
                           /\ LastWith("pair", i)' = LastWith("pair", i)
  BY <1>1, LastAppend
<1>4. \A i \in 1 .. n + 1 : LastWith("head", i) \in 0 .. i - 1 /\ LastWith("pair", i) \in 0 .. i - 1
  BY <1>1, LastType
<1>5. ASSUME NEW i \in 1 .. n + 1 PROVE SectionAt(i)' = SectionAt(i)
  <2>1. PICK h : h = LastWith("head", i) /\ h \in 0 .. i - 1 /\ LastWith("head", i)' = h
    BY <1>3, <1>4
  <2>2. h # 0 => roles'[h] = roles[h]
    BY <1>2, <2>1
  <2> QED
    BY <2>1, <2>2 DEF SectionAt
<1>6. ASSUME NEW i \in 1 .. n PROVE GivenAt(i)' = GivenAt(i)
  BY <1>2 DEF GivenAt
<1>7. ASSUME NEW i \in 1 .. n, roles[i].role \in {"pair", "more"} PROVE NameAt(i)' = NameAt(i)
  <2>1. roles'[i] = roles[i]
    BY <1>2
  <2>2. CASE roles[i].role = "pair"
    BY <2>1, <2>2 DEF NameAt
  <2>3. CASE roles[i].role = "more"
    <3>1. PICK p, h : p = LastWith("pair", i) /\ h = LastWith("head", i)
      OBVIOUS
    <3>2. p \in 0 .. i - 1 /\ h \in 0 .. i - 1 /\ LastWith("pair", i)' = p /\ i \in Nat
      BY <1>2, <1>3, <1>4, <3>1
    <3>3. p > h
      BY <1>2, <2>3, <3>1 DEF ContinuationRule
    <3>4. p \in 1 .. n
      BY <1>2, <3>2, <3>3
    <3>5. roles'[p] = roles[p]
      BY <1>2, <3>4
    <3> QED
      BY <2>1, <2>3, <3>1, <3>2, <3>5 DEF NameAt
  <2> QED
    BY <1>7, <2>2, <2>3
<1>8. ASSUME NEW i \in 1 .. n, roles[i].role \in {"pair", "more"} PROVE KeyAt(i)' = KeyAt(i)
  <2>1. NameAt(i)' = NameAt(i)
    BY <1>7, <1>8
  <2>2. SectionAt(i)' = SectionAt(i)
    BY <1>2, <1>5
  <2> QED
    BY <2>1, <2>2 DEF KeyAt
<1> QED
  BY <1>1, <1>5, <1>6, <1>8

(* The lines of a key after one more line, those told, and the texts. *)
LEMMA OwnAppend ==
  ASSUME roles \in Seq(RoleRecs), ContinuationRule, NEW r \in RoleRecs, roles' = Append(roles, r),
         NEW n, n = Len(roles), NEW key
  PROVE  Own(key)' = IF r.role \in {"pair", "more"} /\ KeyAt(n + 1)' = key
                     THEN Own(key) \cup {n + 1} ELSE Own(key)
<1>1. /\ n \in Nat /\ DOMAIN roles = 1 .. n /\ DOMAIN roles' = 1 .. n + 1
      /\ roles'[n + 1] = r /\ \A i \in 1 .. n : roles'[i] = roles[i]
  BY RolesAppend
<1>2. \A i \in 1 .. n : roles[i].role \in {"pair", "more"} => KeyAt(i)' = KeyAt(i)
  BY AtSame
<1>3. Own(key) = {i \in 1 .. n : roles[i].role \in {"pair", "more"} /\ KeyAt(i) = key}
  BY <1>1 DEF Own
<1>4. Own(key)' = {i \in 1 .. n + 1 : roles'[i].role \in {"pair", "more"} /\ KeyAt(i)' = key}
  BY <1>1 DEF Own
<1>5. ASSUME NEW i
      PROVE  i \in Own(key)' <=> i \in Own(key) \/ (i = n + 1 /\ r.role \in {"pair", "more"} /\ KeyAt(n + 1)' = key)
  <2>1. i \in 1 .. n + 1 <=> i \in 1 .. n \/ i = n + 1
    BY <1>1
  <2>2. n + 1 \notin 1 .. n
    BY <1>1
  <2>3. CASE i \in 1 .. n
    <3>1. i # n + 1
      BY <2>2, <2>3
    <3> QED
      BY <1>1, <1>2, <1>3, <1>4, <2>1, <2>3, <3>1
  <2>4. CASE i = n + 1
    BY <1>1, <1>3, <1>4, <2>1, <2>2, <2>4
  <2>5. CASE i \notin 1 .. n + 1
    BY <1>3, <1>4, <2>1, <2>5
  <2> QED
    BY <2>1, <2>3, <2>4, <2>5
<1> QED
  BY <1>5

LEMMA ToldAppend ==
  ASSUME roles \in Seq(RoleRecs), ContinuationRule, NEW r \in RoleRecs, roles' = Append(roles, r),
         NEW n, n = Len(roles), NEW key
  PROVE  /\ Own(key) \in SUBSET (1 .. n) /\ Told(key) \in SUBSET (1 .. n)
         /\ Own(key)' = Own(key) => Told(key)' = Told(key)
         /\ Own(key)' = Own(key) \cup {n + 1} =>
              Told(key)' = IF Told(key) # {} \/ GivenAt(n + 1)' # ""
                           THEN Told(key) \cup {n + 1} ELSE {}
<1>1. n \in Nat /\ DOMAIN roles = 1 .. n
  BY RolesAppend
<1>2. \A i \in 1 .. n : GivenAt(i)' = GivenAt(i)
  BY AtSame
<1>3. Own(key) \in SUBSET (1 .. n) /\ Told(key) \in SUBSET (1 .. n)
  BY <1>1 DEF Own, Told
<1>4. PICK O, T, v : O = Own(key) /\ T = Told(key) /\ v = GivenAt(n + 1)'
  OBVIOUS
<1>5. O \in SUBSET (1 .. n) /\ T = {i \in O : \E j \in O : j <= i /\ GivenAt(j) # ""}
  BY <1>3, <1>4 DEF Told
<1>6. ASSUME Own(key)' = Own(key) PROVE Told(key)' = Told(key)
  <2>1. Told(key)' = {i \in O : \E j \in O : j <= i /\ GivenAt(j)' # ""}
    BY <1>4, <1>6 DEF Told
  <2> QED
    BY <1>2, <1>4, <1>5, <2>1
<1>7. ASSUME Own(key)' = Own(key) \cup {n + 1}
      PROVE  Told(key)' = IF T # {} \/ v # "" THEN T \cup {n + 1} ELSE {}
  <2> DEFINE P == O \cup {n + 1}
  <2>1. Told(key)' = {i \in P : \E j \in P : j <= i /\ GivenAt(j)' # ""}
    BY <1>4, <1>7 DEF Told
  <2>2. \A i \in O : i \in Nat /\ i <= n + 1 /\ ~(n + 1 <= i)
    <3>1. \A i \in O : i \in 1 .. n
      BY <1>5
    <3> QED
      BY <1>1, <3>1
  <2>3. ASSUME NEW i \in O PROVE i \in Told(key)' <=> i \in T
    <3>1. i \in Told(key)' <=> \E j \in P : j <= i /\ GivenAt(j)' # ""
      BY <2>1
    <3>2. (\E j \in P : j <= i /\ GivenAt(j)' # "") <=> \E j \in O : j <= i /\ GivenAt(j)' # ""
      BY <2>2
    <3>3. (\E j \in O : j <= i /\ GivenAt(j)' # "") <=> \E j \in O : j <= i /\ GivenAt(j) # ""
      BY <1>2, <1>5
    <3> QED
      BY <1>5, <3>1, <3>2, <3>3
  <2>4. n + 1 \in Told(key)' <=> T # {} \/ v # ""
    <3>1. n + 1 \in Told(key)' <=> \E j \in P : j <= n + 1 /\ GivenAt(j)' # ""
      BY <2>1
    <3>2. (\E j \in P : j <= n + 1 /\ GivenAt(j)' # "") <=> (v # "" \/ \E j \in O : GivenAt(j) # "")
      <4>1. n + 1 <= n + 1
        BY <1>1
      <4> QED
        BY <1>2, <1>4, <1>5, <2>2, <4>1
    <3>3. (\E j \in O : GivenAt(j) # "") <=> T # {}
      <4>1. \A j \in O : j <= j
        BY <2>2
      <4> QED
        BY <1>5, <4>1
    <3> QED
      BY <3>1, <3>2, <3>3
  <2>5. Told(key)' \subseteq P /\ T \subseteq O
    BY <1>5, <2>1
  <2> QED
    BY <2>3, <2>4, <2>5
<1> QED
  BY <1>3, <1>4, <1>6, <1>7

LEMMA GivensAppend ==
  ASSUME roles \in Seq(RoleRecs), ContinuationRule, NEW r \in RoleRecs, roles' = Append(roles, r),
         NEW n, n = Len(roles)
  PROVE  /\ Givens \in Seq(Texts) /\ Len(Givens) = n /\ GivenAt(n + 1)' \in Texts
         /\ Givens' = Append(Givens, GivenAt(n + 1)')
<1>1. /\ n \in Nat /\ DOMAIN roles = 1 .. n /\ DOMAIN roles' = 1 .. n + 1
      /\ roles'[n + 1] = r /\ \A i \in 1 .. n : roles'[i] = roles[i] /\ roles[i] \in RoleRecs
  BY RolesAppend
<1>2. \A i \in 1 .. n : GivenAt(i)' = GivenAt(i)
  BY AtSame
<1>3. \A i \in 1 .. n : GivenAt(i) \in Texts
  BY <1>1 DEF GivenAt, Texts, RoleRecs
<1>4. GivenAt(n + 1)' \in Texts
  BY <1>1 DEF GivenAt, Texts, RoleRecs
<1>5. Givens = [i \in 1 .. n |-> GivenAt(i)]
  BY <1>1 DEF Givens
<1>6. Givens' = [i \in 1 .. n + 1 |-> GivenAt(i)']
  BY <1>1 DEF Givens
<1>7. PICK g, f, v : g = Givens /\ f = Givens' /\ v = GivenAt(n + 1)'
  OBVIOUS
<1>8. g \in Seq(Texts) /\ Len(g) = n
  <2>1. g \in [1 .. n -> Texts]
    BY <1>3, <1>5, <1>7
  <2> QED
    BY <1>1, <2>1
<1>9. f = Append(g, v)
  <2>1. \A i \in 1 .. n : f[i] = g[i]
    BY <1>2, <1>5, <1>6, <1>7, <1>1
  <2>2. f[n + 1] = v /\ DOMAIN f = 1 .. n + 1
    BY <1>1, <1>6, <1>7
  <2>3. f = [i \in 1 .. n + 1 |-> IF i <= n THEN g[i] ELSE v]
    <3>1. f = [i \in 1 .. n + 1 |-> f[i]]
      BY <1>6, <1>7
    <3>2. \A i \in 1 .. n + 1 : f[i] = IF i <= n THEN g[i] ELSE v
      BY <1>1, <2>1, <2>2
    <3> QED
      BY <3>1, <3>2
  <2> QED
    BY <1>1, <1>8, <2>3
<1> QED
  BY <1>4, <1>7, <1>8, <1>9

(* What was told begins with a text that is not empty. *)
LEMMA ToldStarts ==
  ASSUME Givens \in Seq(Texts), DOMAIN roles = 1 .. Len(Givens), NEW key, Told(key) # {}
  PROVE  Subsequence(Givens, Told(key)) # <<"">>
<1>1. PICK g, T, O, r : g = Givens /\ T = Told(key) /\ O = Own(key) /\ r = Subsequence(g, T)
  OBVIOUS
<1>2. O \in SUBSET (1 .. Len(g)) /\ T = {i \in O : \E j \in O : j <= i /\ GivenAt(j) # ""}
  BY <1>1 DEF Own, Told
<1>3. \A i \in O : g[i] = GivenAt(i)
  BY <1>1, <1>2 DEF Givens
<1>4. \A i : i \in 1 .. 1 <=> i = 1
  OBVIOUS
<1>5. \A i \in O : i <= i
  <2>1. \A i \in 1 .. Len(g) : i <= i
    OBVIOUS
  <2> QED
    BY <1>2, <2>1
<1>6. PICK h : Lists(h, r, g, T)
  <2>1. g \in Seq(Texts) /\ T \in SUBSET (1 .. Len(g))
    BY <1>1, <1>2
  <2> QED
    BY <1>1, <2>1, SubsequenceLists
<1>7. ASSUME Len(r) = 1, r[1] = "" PROVE FALSE
  <2>1. h[1] \in T /\ g[h[1]] = "" /\ \A x \in T : x = h[1]
    BY <1>4, <1>6, <1>7 DEF Lists
  <2>2. PICK j \in O : j <= h[1] /\ GivenAt(j) # ""
    BY <1>2, <2>1
  <2>3. j \in T
    BY <1>2, <1>5, <2>2
  <2> QED
    BY <1>3, <2>1, <2>2, <2>3
<1>8. Len(<<"">>) = 1 /\ <<"">>[1] = ""
  OBVIOUS
<1> QED
  BY <1>1, <1>7, <1>8

(* A line that gives no value leaves the values as they are. *)
LEMMA ValSame ==
  ASSUME roles \in Seq(RoleRecs), ContinuationRule, NEW r \in RoleRecs, roles' = Append(roles, r),
         NEW key, Own(key)' = Own(key)
  PROVE  Val(key)' = Val(key)
<1>1. PICK n, g, T, v : n = Len(roles) /\ g = Givens /\ T = Told(key) /\ v = GivenAt(n + 1)'
  OBVIOUS
<1>2. T \in SUBSET (1 .. n) /\ Told(key)' = T
  BY <1>1, ToldAppend
<1>3. g \in Seq(Texts) /\ Len(g) = n /\ v \in Texts /\ Givens' = Append(g, v)
  BY <1>1, GivensAppend
<1>4. Subsequence(Append(g, v), T) = Subsequence(g, T)
  <2>1. T \in SUBSET (1 .. Len(g))
    BY <1>2, <1>3
  <2> QED
    BY <1>3, <2>1, SubsequenceAppend
<1>5. Val(key)' = IF T = {} THEN <<"">> ELSE Subsequence(Append(g, v), T)
  BY <1>2, <1>3 DEF Val
<1> QED
  BY <1>1, <1>4, <1>5 DEF Val

(* Nothing is chosen from no position. *)
LEMMA SubsequenceNone ==
  ASSUME NEW E, NEW q \in Seq(E)
  PROVE  Subsequence(q, {}) = <<>>
<1>1. PICK r : r = Subsequence(q, {})
  OBVIOUS
<1>2. {} \in SUBSET (1 .. Len(q))
  OBVIOUS
<1>3. r \in Seq(E) /\ \E h : Lists(h, r, q, {})
  BY <1>1, <1>2, SubsequenceLists
<1>4. ~ \E i : i \in 1 .. Len(r)
  BY <1>3 DEF Lists
<1>5. Len(r) \in Nat
  BY <1>3
<1>6. Len(r) = 0
  <2>1. Len(r) # 0 => 1 \in 1 .. Len(r)
    BY <1>5
  <2> QED
    BY <1>4, <2>1
<1>7. r = <<>>
  BY <1>3, <1>6
<1> QED
  BY <1>1, <1>7

(* A line that gives a value is put behind what is there. *)
LEMMA ValMore ==
  ASSUME roles \in Seq(RoleRecs), ContinuationRule, NEW r \in RoleRecs, roles' = Append(roles, r),
         NEW n, n = Len(roles), NEW key, Own(key)' = Own(key) \cup {n + 1}
  PROVE  Val(key)' = IF Own(key) = {} \/ Val(key) = <<"">> THEN <<GivenAt(n + 1)'>>
                     ELSE Append(Val(key), GivenAt(n + 1)')
<1>1. PICK g, T, v : g = Givens /\ T = Told(key) /\ v = GivenAt(n + 1)'
  OBVIOUS
<1>2. T \in SUBSET (1 .. n) /\ Told(key)' = IF T # {} \/ v # "" THEN T \cup {n + 1} ELSE {}
  BY <1>1, ToldAppend
<1>3. g \in Seq(Texts) /\ Len(g) = n /\ v \in Texts /\ Givens' = Append(g, v)
  BY <1>1, GivensAppend
<1>4. Val(key)' = IF Told(key)' = {} THEN <<"">> ELSE Subsequence(Append(g, v), Told(key)')
  BY <1>3 DEF Val
<1>5. Val(key) = IF T = {} THEN <<"">> ELSE Subsequence(g, T)
  BY <1>1 DEF Val
<1>6. Own(key) = {} => T = {}
  BY <1>1 DEF Told
<1>7. Subsequence(Append(g, v), T \cup {n + 1}) = Append(Subsequence(g, T), v)
  <2>1. T \in SUBSET (1 .. Len(g))
    BY <1>2, <1>3
  <2>2. Subsequence(Append(g, v), T \cup {Len(g) + 1}) = Append(Subsequence(g, T), v)
    BY <1>3, <2>1, SubsequenceAppend
  <2> QED
    BY <1>3, <2>2
<1>8. CASE T = {}
  <2>1. Subsequence(g, T) = <<>> /\ Append(<<>>, v) = <<v>>
    BY <1>3, <1>8, SubsequenceNone
  <2>2. Val(key) = <<"">>
    BY <1>5, <1>8
  <2>3. CASE v # ""
    <3>1. Told(key)' = T \cup {n + 1} /\ Told(key)' # {}
      BY <1>2, <2>3
    <3> QED
      BY <1>1, <1>4, <1>7, <2>1, <2>2, <3>1
  <2>4. CASE v = ""
    <3>1. Told(key)' = {}
      BY <1>2, <1>8, <2>4
    <3> QED
      BY <1>1, <1>4, <2>2, <2>4, <3>1
  <2> QED
    BY <2>3, <2>4
<1>9. CASE T # {}
  <2>1. Subsequence(g, T) # <<"">>
    <3>1. DOMAIN roles = 1 .. Len(g)
      BY <1>3, RolesAppend
    <3> QED
      BY <1>1, <1>3, <1>9, <3>1, ToldStarts
  <2>2. Told(key)' = T \cup {n + 1} /\ Told(key)' # {}
    BY <1>2, <1>9
  <2> QED
    BY <1>1, <1>4, <1>5, <1>6, <1>7, <1>9, <2>1, <2>2
<1> QED
  BY <1>8, <1>9

-----------------------------------------------------------------------------
(* The rule for the new line, and with it for all. *)
LEMMA RuleAppend ==
  ASSUME ReaderInv, NEW r \in RoleRecs, roles' = Append(roles, r),
         r.role = "more" <=> r.line.kind # "comment" /\ Continues(r.line)
  PROVE  ContinuationRule'
<1>1. PICK n : n = Len(roles)
  OBVIOUS
<1>2. /\ n \in Nat /\ DOMAIN roles = 1 .. n /\ DOMAIN roles' = 1 .. n + 1
      /\ roles'[n + 1] = r /\ \A i \in 1 .. n : roles'[i] = roles[i] /\ roles[i] \in RoleRecs
  BY <1>1, RolesAppend DEF ReaderInv
<1>3. \A i \in 1 .. n + 1 : /\ LastWith("head", i)' = LastWith("head", i)
                           /\ LastWith("pair", i)' = LastWith("pair", i)
  BY <1>1, LastAppend DEF ReaderInv
<1>4. \A i \in 1 .. n + 1 : LastWith("head", i) \in 0 .. i - 1 /\ LastWith("pair", i) \in 0 .. i - 1
  BY <1>1, LastType DEF ReaderInv
<1> DEFINE Rule(q, i, p, h) ==
             q[i].role = "more" <=>
               /\ q[i].line.indent /\ q[i].line.kind \notin {"blank", "comment"}
               /\ p > h /\ q[p].line.name # NoName
<1>5. ContinuationRule' = \A i \in DOMAIN roles' : Rule(roles', i, LastWith("pair", i)', LastWith("head", i)')
  BY DEF ContinuationRule
<1>6. ASSUME NEW i \in 1 .. n PROVE Rule(roles', i, LastWith("pair", i)', LastWith("head", i)')
  <2>1. PICK p, h : p = LastWith("pair", i) /\ h = LastWith("head", i)
    OBVIOUS
  <2>2. p \in 0 .. i - 1 /\ h \in 0 .. i - 1 /\ LastWith("pair", i)' = p /\ LastWith("head", i)' = h
    BY <1>2, <1>3, <1>4, <2>1
  <2>3. Rule(roles, i, p, h)
    BY <1>2, <2>1 DEF ReaderInv, ContinuationRule
  <2>4. p > h => p \in 1 .. n
    BY <1>2, <2>2
  <2>5. roles'[i] = roles[i] /\ (p > h => roles'[p] = roles[p])
    BY <1>2, <2>4
  <2>6. Rule(roles', i, p, h)
    BY <2>3, <2>5
  <2> QED
    BY <2>2, <2>6
<1>7. Rule(roles', n + 1, LastWith("pair", n + 1)', LastWith("head", n + 1)')
  <2>1. PICK p, h : p = LastWith("pair", n + 1) /\ h = LastWith("head", n + 1)
    OBVIOUS
  <2>2. n + 1 \in 1 .. n + 1
    BY <1>2
  <2>3. /\ p \in 0 .. n /\ h \in 0 .. n
        /\ LastWith("pair", n + 1)' = p /\ LastWith("head", n + 1)' = h
    <3>1. p \in 0 .. (n + 1) - 1 /\ h \in 0 .. (n + 1) - 1
      BY <1>4, <2>1, <2>2
    <3>2. (n + 1) - 1 = n
      BY <1>2
    <3> QED
      BY <1>3, <2>1, <2>2, <3>1, <3>2
  <2>4. prev_name = IF p > h THEN strncpy0(roles[p].line.name) ELSE NoName
    BY <1>1, <2>1 DEF ReaderInv, PlaceInv
  <2>5. p > h => p \in 1 .. n
    BY <1>2, <2>3
  <2>6. p > h => roles'[p] = roles[p] /\ roles[p].line \in Lines
    BY <1>2, <2>5 DEF RoleRecs
  <2>7. p > h => (strncpy0(roles[p].line.name) = NoName <=> roles[p].line.name = NoName)
    BY <2>6, ConfigAssumption
  <2>8. prev_name # NoName <=> p > h /\ roles'[p].line.name # NoName
    BY <2>4, <2>6, <2>7
  <2>9. r.role = "more" <=> /\ r.line.indent /\ r.line.kind \notin {"blank", "comment"}
                            /\ p > h /\ roles'[p].line.name # NoName
    BY <2>8 DEF Continues
  <2>10. Rule(roles', n + 1, p, h)
    BY <1>2, <2>9
  <2> QED
    BY <2>3, <2>10
<1> HIDE DEF Rule
<1>8. \A i \in 1 .. n + 1 : i \in 1 .. n \/ i = n + 1
  BY <1>2
<1> QED
  BY <1>2, <1>5, <1>6, <1>7, <1>8

(* The section and the previous name after one more line. *)
LEMMA PlaceAppend ==
  ASSUME ReaderInv, NEW r \in RoleRecs, roles' = Append(roles, r),
         section' = IF r.role = "head" THEN strncpy0(r.line.name) ELSE section,
         prev_name' = IF r.role = "head" THEN NoName
                      ELSE IF r.role = "pair" THEN strncpy0(r.line.name) ELSE prev_name
  PROVE  PlaceInv'
<1>1. PICK n, p, h : n = Len(roles) /\ p = LastWith("pair", n + 1) /\ h = LastWith("head", n + 1)
  OBVIOUS
<1>2. /\ n \in Nat /\ Len(roles') = n + 1
      /\ roles'[n + 1] = r /\ \A i \in 1 .. n : roles'[i] = roles[i]
  BY <1>1, RolesAppend DEF ReaderInv
<1>3. p \in 0 .. n /\ h \in 0 .. n
  <2>1. n + 1 \in 1 .. Len(roles) + 1 /\ (n + 1) - 1 = n
    BY <1>1, <1>2
  <2>2. p \in 0 .. (n + 1) - 1 /\ h \in 0 .. (n + 1) - 1
    BY <1>1, <2>1, LastType DEF ReaderInv
  <2> QED
    BY <2>1, <2>2
<1>4. PICK p1, h1 : p1 = LastWith("pair", Len(roles) + 1)' /\ h1 = LastWith("head", Len(roles) + 1)'
  OBVIOUS
<1>5. /\ p1 = IF r.role = "pair" THEN n + 1 ELSE p
      /\ h1 = IF r.role = "head" THEN n + 1 ELSE h
  BY <1>1, <1>4, LastAppend DEF ReaderInv
<1>6. section = IF h = 0 THEN NoName ELSE strncpy0(roles[h].line.name)
  BY <1>1 DEF ReaderInv, PlaceInv, SectionAt
<1>7. prev_name = IF p > h THEN strncpy0(roles[p].line.name) ELSE NoName
  BY <1>1 DEF ReaderInv, PlaceInv
<1>8. /\ h # 0 => roles'[h] = roles[h]
      /\ p > h => roles'[p] = roles[p]
  BY <1>2, <1>3
<1>9. section' = IF h1 = 0 THEN NoName ELSE strncpy0(roles'[h1].line.name)
  <2>1. CASE r.role = "head"
    <3>1. h1 = n + 1 /\ h1 # 0
      BY <1>2, <1>5, <2>1
    <3> QED
      BY <1>2, <2>1, <3>1
  <2>2. CASE r.role # "head"
    BY <1>5, <1>6, <1>8, <2>2
  <2> QED
    BY <2>1, <2>2
<1>10. prev_name' = IF p1 > h1 THEN strncpy0(roles'[p1].line.name) ELSE NoName
  <2>1. CASE r.role = "head"
    <3>1. ~(p1 > h1)
      BY <1>2, <1>3, <1>5, <2>1
    <3> QED
      BY <2>1, <3>1
  <2>2. CASE r.role = "pair"
    <3>1. p1 > h1 /\ p1 = n + 1
      BY <1>2, <1>3, <1>5, <2>2
    <3> QED
      BY <1>2, <2>2, <3>1
  <2>3. CASE r.role \notin {"head", "pair"}
    BY <1>5, <1>7, <1>8, <2>3
  <2> QED
    BY <2>1, <2>2, <2>3
<1>11. SectionAt(Len(roles) + 1)' = IF h1 = 0 THEN NoName ELSE strncpy0(roles'[h1].line.name)
  BY <1>4 DEF SectionAt
<1> QED
  BY <1>4, <1>9, <1>10, <1>11 DEF PlaceInv

(* The values after a line that gives none. *)
LEMMA ValuesSame ==
  ASSUME ReaderInv, NEW r \in RoleRecs, roles' = Append(roles, r),
         r.role \notin {"pair", "more"}, values' = values
  PROVE  ValInv'
<1>1. PICK n : n = Len(roles)
  OBVIOUS
<1>2. ASSUME NEW key PROVE Own(key)' = Own(key)
  BY <1>1, OwnAppend DEF ReaderInv
<1>3. ASSUME NEW key PROVE Val(key)' = Val(key)
  BY <1>2, ValSame DEF ReaderInv
<1> QED
  BY <1>2, <1>3 DEF ReaderInv, ValInv

(* The values after a line that gives one. *)
LEMMA ValuesMore ==
  ASSUME ReaderInv, NEW r \in RoleRecs, roles' = Append(roles, r), r.role \in {"pair", "more"},
         NEW n, n = Len(roles), ValueHandler(KeyAt(n + 1)', GivenAt(n + 1)')
  PROVE  ValInv'
<1>1. PICK at, v : at = KeyAt(n + 1)' /\ v = GivenAt(n + 1)'
  OBVIOUS
<1>2. ASSUME NEW key PROVE Own(key)' = IF key = at THEN Own(key) \cup {n + 1} ELSE Own(key)
  BY <1>1, OwnAppend DEF ReaderInv
<1>3. ASSUME NEW key, key # at PROVE Val(key)' = Val(key)
  BY <1>2, <1>3, ValSame DEF ReaderInv
<1>4. Val(at)' = IF Own(at) = {} \/ Val(at) = <<"">> THEN <<v>> ELSE Append(Val(at), v)
  <2>1. Own(at)' = Own(at) \cup {n + 1}
    BY <1>2
  <2> QED
    BY <1>1, <2>1, ValMore DEF ReaderInv
<1>5. values' = [x \in DOMAIN values \cup {at} |->
                  IF x # at THEN values[x]
                  ELSE IF x \notin DOMAIN values \/ values[x] = <<"">> THEN <<v>>
                  ELSE Append(values[x], v)]
  BY <1>1 DEF ValueHandler
<1>6. /\ DOMAIN values' = DOMAIN values \cup {at}
      /\ \A key \in DOMAIN values \ {at} : values'[key] = values[key]
      /\ values'[at] = IF at \notin DOMAIN values \/ values[at] = <<"">> THEN <<v>>
                       ELSE Append(values[at], v)
  BY <1>5
<1>7. ASSUME NEW key
      PROVE  (key \in DOMAIN values <=> Own(key) # {}) /\ (key \in DOMAIN values => values[key] = Val(key))
  BY DEF ReaderInv, ValInv
<1>8. ASSUME NEW key
      PROVE  (key \in DOMAIN values' <=> Own(key)' # {}) /\ (key \in DOMAIN values' => values'[key] = Val(key)')
  <2>1. CASE key = at
    <3>1. Own(key)' # {} /\ key \in DOMAIN values'
      BY <1>2, <1>6, <2>1
    <3>2. values'[at] = Val(at)'
      BY <1>4, <1>6, <1>7
    <3> QED
      BY <2>1, <3>1, <3>2
  <2>2. CASE key # at
    BY <1>2, <1>3, <1>6, <1>7, <2>2
  <2> QED
    BY <2>1, <2>2
<1> QED
  BY <1>8 DEF ValInv

-----------------------------------------------------------------------------
LEMMA ReaderStart == ReaderInit => ReaderInv
<1> SUFFICES ASSUME ReaderInit PROVE ReaderInv
  OBVIOUS
<1>1. roles = <<>> /\ values = <<>> /\ section = NoName /\ prev_name = NoName
  BY DEF ReaderInit
<1>2. <<>> \in Seq(RoleRecs) /\ Len(<<>>) = 0 /\ DOMAIN <<>> = {}
  OBVIOUS
<1>3. roles \in Seq(RoleRecs) /\ Len(roles) = 0 /\ DOMAIN roles = {} /\ DOMAIN values = {}
  BY <1>1, <1>2
<1>4. LastWith("pair", 1) = 0 /\ LastWith("head", 1) = 0
  <2>1. 1 .. 1 - 1 = {}
    OBVIOUS
  <2> QED
    BY <2>1 DEF LastWith
<1>5. PlaceInv
  <2>1. Len(roles) + 1 = 1 /\ ~(0 > 0)
    BY <1>3
  <2> QED
    BY <1>1, <1>4, <2>1 DEF PlaceInv, SectionAt
<1>6. ContinuationRule
  BY <1>3 DEF ContinuationRule
<1>7. ValInv
  BY <1>3 DEF ValInv, Own
<1> QED
  BY <1>3, <1>5, <1>6, <1>7 DEF ReaderInv

LEMMA ReaderStep == ReaderInv /\ [ReaderNext]_readerVars => ReaderInv'
<1> SUFFICES ASSUME ReaderInv, [ReaderNext]_readerVars PROVE ReaderInv'
  OBVIOUS
<1>1. CASE UNCHANGED readerVars
  <2>1. roles' = roles /\ values' = values /\ section' = section /\ prev_name' = prev_name
    BY <1>1 DEF readerVars
  <2>2. \A role, i : LastWith(role, i)' = LastWith(role, i)
    BY <2>1 DEF LastWith
  <2>3. \A i : SectionAt(i)' = SectionAt(i) /\ GivenAt(i)' = GivenAt(i)
    BY <2>1, <2>2 DEF SectionAt, GivenAt
  <2>4. \A i : KeyAt(i)' = KeyAt(i)
    BY <2>1, <2>2, <2>3 DEF KeyAt, NameAt
  <2>5. \A key : Own(key)' = Own(key)
    BY <2>1, <2>4 DEF Own
  <2>6. \A key : Told(key)' = Told(key)
    BY <2>3, <2>5 DEF Told
  <2>7. Givens' = Givens
    BY <2>1, <2>3 DEF Givens
  <2>8. ValInv'
    BY <2>1, <2>5, <2>6, <2>7 DEF ReaderInv, ValInv, Val
  <2>9. PlaceInv'
    BY <2>1 DEF ReaderInv, PlaceInv, SectionAt, LastWith
  <2>10. ContinuationRule'
    BY <2>1, <2>2 DEF ReaderInv, ContinuationRule
  <2> QED
    BY <2>1, <2>8, <2>9, <2>10 DEF ReaderInv
<1>2. ASSUME NEW l \in Lines, NEW role \in {"none", "more", "head", "pair", "bad"}, Read(l, role)
      PROVE  /\ [line |-> l, role |-> role] \in RoleRecs
             /\ roles' = Append(roles, [line |-> l, role |-> role]) /\ roles' \in Seq(RoleRecs)
  <2>1. [line |-> l, role |-> role] \in RoleRecs
    BY DEF RoleRecs
  <2>2. roles' = Append(roles, [line |-> l, role |-> role])
    BY <1>2 DEF Read
  <2>3. roles' \in Seq(RoleRecs)
    BY <2>1, <2>2, RolesAppend DEF ReaderInv
  <2> QED
    BY <2>1, <2>2, <2>3
<1>3. ASSUME NEW l \in Lines, Skip(l) \/ Bad(l) PROVE ReaderInv'
  <2>1. PICK role \in {"none", "bad"} : Read(l, role)
    BY <1>3 DEF Skip, Bad
  <2>2. PICK r \in RoleRecs : r.line = l /\ r.role = role /\ roles' = Append(roles, r) /\ roles' \in Seq(RoleRecs)
    BY <1>2, <2>1
  <2>3. ContinuationRule'
    <3>1. ~(l.kind # "comment" /\ Continues(l)) /\ r.role # "more"
      BY <1>3, <2>2 DEF Skip, Bad, Continues
    <3> QED
      BY <2>2, <3>1, RuleAppend
  <2>4. PlaceInv'
    <3>1. section' = section /\ prev_name' = prev_name /\ r.role \notin {"head", "pair"}
      BY <1>3, <2>2 DEF Skip, Bad
    <3> QED
      BY <2>2, <3>1, PlaceAppend
  <2>5. ValInv'
    <3>1. values' = values /\ r.role \notin {"pair", "more"}
      BY <1>3, <2>2 DEF Skip, Bad
    <3> QED
      BY <2>2, <3>1, ValuesSame
  <2> QED
    BY <2>2, <2>3, <2>4, <2>5 DEF ReaderInv
<1>4. ASSUME NEW l \in Lines, Section(l) PROVE ReaderInv'
  <2>1. Read(l, "head")
    BY <1>4 DEF Section
  <2>2. PICK r \in RoleRecs : r.line = l /\ r.role = "head" /\ roles' = Append(roles, r) /\ roles' \in Seq(RoleRecs)
    BY <1>2, <2>1
  <2>3. ContinuationRule'
    <3>1. ~(l.kind # "comment" /\ Continues(l))
      BY <1>4 DEF Section
    <3> QED
      BY <2>2, <3>1, RuleAppend
  <2>4. PlaceInv'
    <3>1. section' = strncpy0(l.name) /\ prev_name' = NoName
      BY <1>4 DEF Section
    <3> QED
      BY <2>2, <3>1, PlaceAppend
  <2>5. ValInv'
    <3>1. values' = values
      BY <1>4 DEF Section
    <3> QED
      BY <2>2, <3>1, ValuesSame
  <2> QED
    BY <2>2, <2>3, <2>4, <2>5 DEF ReaderInv
<1>5. ASSUME NEW l \in Lines, Pair(l) PROVE ReaderInv'
  <2>1. Read(l, "pair")
    BY <1>5 DEF Pair
  <2>2. PICK r \in RoleRecs : r.line = l /\ r.role = "pair" /\ roles' = Append(roles, r) /\ roles' \in Seq(RoleRecs)
    BY <1>2, <2>1
  <2>3. ContinuationRule'
    <3>1. ~(l.kind # "comment" /\ Continues(l))
      BY <1>5 DEF Pair
    <3> QED
      BY <2>2, <3>1, RuleAppend
  <2>4. PlaceInv'
    <3>1. section' = section /\ prev_name' = strncpy0(l.name)
      BY <1>5 DEF Pair
    <3> QED
      BY <2>2, <3>1, PlaceAppend
  <2>5. PICK n : n = Len(roles)
    OBVIOUS
  <2>6. n \in Nat /\ roles'[n + 1] = r
    BY <2>2, <2>5, RolesAppend DEF ReaderInv
  <2>7. SectionAt(n + 1)' = section
    <3>1. n + 1 \in 1 .. Len(roles) + 1
      BY <2>5, <2>6
    <3>2. SectionAt(n + 1)' = SectionAt(n + 1)
      BY <2>2, <3>1, AtSame DEF ReaderInv
    <3> QED
      BY <2>5, <3>2 DEF ReaderInv, PlaceInv
  <2>8. GivenAt(n + 1)' = l.value /\ KeyAt(n + 1)' = MakeKey(section, l.name)
    BY <2>2, <2>6, <2>7 DEF GivenAt, KeyAt, NameAt
  <2>9. ValInv'
    <3>1. ValueHandler(KeyAt(n + 1)', GivenAt(n + 1)')
      BY <1>5, <2>8 DEF Pair, ValueHandler
    <3> QED
      BY <2>2, <2>5, <3>1, ValuesMore
  <2> QED
    BY <2>2, <2>3, <2>4, <2>9 DEF ReaderInv
<1>6. ASSUME NEW l \in Lines, Continuation(l) PROVE ReaderInv'
  <2>1. Read(l, "more")
    BY <1>6 DEF Continuation
  <2>2. PICK r \in RoleRecs : r.line = l /\ r.role = "more" /\ roles' = Append(roles, r) /\ roles' \in Seq(RoleRecs)
    BY <1>2, <2>1
  <2>3. ContinuationRule'
    <3>1. l.kind # "comment" /\ Continues(l)
      BY <1>6 DEF Continuation
    <3> QED
      BY <2>2, <3>1, RuleAppend
  <2>4. PlaceInv'
    <3>1. section' = section /\ prev_name' = prev_name
      BY <1>6 DEF Continuation
    <3> QED
      BY <2>2, <3>1, PlaceAppend
  <2>5. PICK n, p, h : n = Len(roles) /\ p = LastWith("pair", n + 1) /\ h = LastWith("head", n + 1)
    OBVIOUS
  <2>6. n \in Nat /\ n + 1 \in 1 .. Len(roles) + 1 /\ roles'[n + 1] = r /\ \A i \in 1 .. n : roles'[i] = roles[i]
    <3>1. n \in Nat /\ roles'[n + 1] = r /\ \A i \in 1 .. n : roles'[i] = roles[i]
      BY <2>2, <2>5, RolesAppend DEF ReaderInv
    <3> QED
      BY <2>5, <3>1
  <2>7. SectionAt(n + 1)' = section
    <3>1. SectionAt(n + 1)' = SectionAt(n + 1)
      BY <2>2, <2>6, AtSame DEF ReaderInv
    <3> QED
      BY <2>5, <3>1 DEF ReaderInv, PlaceInv
  <2>8. NameAt(n + 1)' = prev_name
    <3>1. LastWith("pair", n + 1)' = p
      BY <2>2, <2>5, <2>6, LastAppend DEF ReaderInv
    <3>2. p \in 0 .. (n + 1) - 1 /\ h \in 0 .. (n + 1) - 1
      BY <2>5, <2>6, LastType DEF ReaderInv
    <3>3. prev_name = IF p > h THEN strncpy0(roles[p].line.name) ELSE NoName
      BY <2>5 DEF ReaderInv, PlaceInv
    <3>4. p > h
      BY <1>6, <3>3 DEF Continuation, Continues
    <3>5. p \in 1 .. n
      BY <2>6, <3>2, <3>4
    <3>6. roles'[p] = roles[p]
      BY <2>6, <3>5
    <3>7. NameAt(n + 1)' = strncpy0(roles'[p].line.name)
      BY <2>2, <2>6, <3>1 DEF NameAt
    <3> QED
      BY <3>3, <3>4, <3>6, <3>7
  <2>9. GivenAt(n + 1)' = l.text /\ KeyAt(n + 1)' = MakeKey(section, prev_name)
    BY <2>2, <2>6, <2>7, <2>8 DEF GivenAt, KeyAt
  <2>10. ValInv'
    <3>1. ValueHandler(KeyAt(n + 1)', GivenAt(n + 1)')
      BY <1>6, <2>9 DEF Continuation, ValueHandler
    <3> QED
      BY <2>2, <2>5, <3>1, ValuesMore
  <2> QED
    BY <2>2, <2>3, <2>4, <2>10 DEF ReaderInv
<1> QED
  BY <1>1, <1>3, <1>4, <1>5, <1>6 DEF ReaderNext, EndOfFile

-----------------------------------------------------------------------------
(* For every file, of any length: the parser takes a line for a            *)
(* continuation exactly by its indentation and by what precedes it         *)
(* (ini.cc 107-114).                                                       *)
THEOREM ContinuesByRule == ReaderSpec => []ContinuationRule
<1>1. ReaderInv => ContinuationRule
  BY DEF ReaderInv
<1> QED
  BY <1>1, ReaderStart, ReaderStep, PTL DEF ReaderSpec

(* For every file, of any length: what Get returns for a setting are its   *)
(* own lines, in their order, and nothing else (INIReader.cpp 22-26,       *)
(* 68-77).                                                                 *)
THEOREM GetsOwnLines == ReaderSpec => []ValuesByReference
<1>1. ReaderInv => ValuesByReference
  BY DEF ReaderInv, ValInv, Val, Givens, Get, ValuesByReference
<1> QED
  BY <1>1, ReaderStart, ReaderStep, PTL DEF ReaderSpec
=============================================================================
