------------------------------ MODULE Startup -------------------------------
(***************************************************************************)
(* The start of a cluster: main (src/src/main.cpp) in the server and in    *)
(* every worker process, and SampleKafka (src/src/io/sample_kafka.cpp) in  *)
(* the workers, with MessageKafka::Init (src/src/io/message_kafka.cpp).    *)
(* Processes start in any order and with their own options.                *)
(*                                                                         *)
(* The constructor of a learner sends one to three requests to its         *)
(* application and waits for each (ParamServer has what they do).  The     *)
(* server's process aborts on a request that comes between the making of   *)
(* an application's KVServer and its handler.  The consumers run for ever, *)
(* since nobody sets the exit flag, so pthread_join of a worker does not   *)
(* return.                                                                 *)
(***************************************************************************)
EXTENDS Integers, FiniteSets, SeqFilter

CONSTANTS
  Workers,
  Server,        \* one server process
  Indexes,       \* the ways the option -i may be given to the workers
  AppNums,       \* values of option -n
  MaxRequests    \* bound: requests of a constructor, 3 in the code

ASSUME StartupAssumption == Server \notin Workers /\ Indexes \subseteq [Workers -> Int]
                            /\ AppNums \subseteq Nat /\ MaxRequests \in Nat

Procs == Workers \cup {Server}
Streams == {"bhv", "imp"}

VARIABLES
  app_num, config,  \* process -> option -n, whether option -m names a readable file
  worker_idx,       \* worker -> option -i
  known,            \* applications whose name in the file is one of the four
  brokers,          \* streams whose brokers in the file are valid
  threads,          \* applications whose saving thread the server can make
  pc, k,            \* process -> where main is, index of its loop
  apps, handled,    \* applications with a KVServer, with its handler too
  due,              \* worker -> requests of its constructor to be answered
  learners,         \* worker -> the learners made, each with its appid
  consumer,         \* worker -> stream -> "none", "ready", "broken", "running"
  partitions        \* worker -> stream -> partitions

options == <<app_num, config, worker_idx, known, brokers, threads>>
network == <<handled, due>>
vars == <<options, network, pc, k, apps, learners, consumer, partitions>>

Init ==
  /\ app_num \in [Procs -> AppNums] /\ config \in [Procs -> BOOLEAN]
  /\ worker_idx \in Indexes
  /\ known \in SUBSET UNION {0 .. n - 1 : n \in AppNums} /\ brokers \in SUBSET Streams
  /\ threads \in SUBSET (0 .. app_num[Server] - 1)
  /\ handled = {} /\ due = [w \in Workers |-> 0]
  /\ pc = [p \in Procs |-> "main"] /\ k = [p \in Procs |-> 0] /\ apps = {}
  /\ learners = [w \in Workers |-> <<>>]
  /\ consumer = [w \in Workers |-> [s \in Streams |-> "none"]]
  /\ partitions = [w \in Workers |-> [s \in Streams |-> {}]]

At(p, l) == pc[p] = l
Goto(p, l) == pc' = [pc EXCEPT ![p] = l]

-----------------------------------------------------------------------------
(* The file of -m is opened; without it the process ends. *)
Open(p) ==
  /\ At(p, "main")
  /\ Goto(p, IF config[p] THEN "apps" ELSE "ended")
  /\ UNCHANGED <<options, network, k, apps, learners, consumer, partitions>>

(* The server: new PSS(i, server_conf) and StartFtrl, whose KVServer takes  *)
(* requests as soon as it is made.                                         *)
NewServer ==
  /\ At(Server, "apps") /\ k[Server] < app_num[Server] /\ k[Server] \in threads
  /\ apps' = apps \cup {k[Server]}
  /\ Goto(Server, "handle")
  /\ UNCHANGED <<options, network, k, learners, consumer, partitions>>

(* The thread that saves the model cannot be made: StartFtrl returns.      *)
NoServer ==
  /\ At(Server, "apps") /\ k[Server] < app_num[Server] /\ k[Server] \notin threads
  /\ k' = [k EXCEPT ![Server] = @ + 1]
  /\ UNCHANGED <<options, network, pc, apps, learners, consumer, partitions>>

(* Mutant: main leaves its loop behind the first application.              *)
MutSetHandle ==
  /\ At(Server, "handle")
  /\ handled' = handled \cup {k[Server]}
  /\ k' = [k EXCEPT ![Server] = @ + 1]
  /\ Goto(Server, "serving")
  /\ UNCHANGED <<options, due, apps, learners, consumer, partitions>>

(* set_request_handle *)
SetHandle ==
  /\ At(Server, "handle")
  /\ handled' = handled \cup {k[Server]}
  /\ k' = [k EXCEPT ![Server] = @ + 1]
  /\ Goto(Server, "apps")
  /\ UNCHANGED <<options, due, apps, learners, consumer, partitions>>

(* while(true) {} *)
Serve ==
  /\ At(Server, "apps") /\ k[Server] = app_num[Server]
  /\ Goto(Server, "serving")
  /\ UNCHANGED <<options, network, k, apps, learners, consumer, partitions>>

-----------------------------------------------------------------------------
(* Mutant: the learner of a name that is not known is made as well.        *)
MutSkipApp(w) ==
  /\ At(w, "apps") /\ k[w] < app_num[w] /\ k[w] \notin known
  /\ learners' = [learners EXCEPT ![w] = Append(@, k[w])]
  /\ k' = [k EXCEPT ![w] = @ + 1]
  /\ UNCHANGED <<options, network, pc, apps, consumer, partitions>>

(* A name that is none of the four. *)
SkipApp(w) ==
  /\ At(w, "apps") /\ k[w] < app_num[w] /\ k[w] \notin known
  /\ k' = [k EXCEPT ![w] = @ + 1]
  /\ UNCHANGED <<options, network, pc, apps, learners, consumer, partitions>>

(* new igLearner and so on: the constructor asks the server whether it has *)
(* to load; the weights and the parameters are two more requests.          *)
NewLearner(w) ==
  /\ At(w, "apps") /\ k[w] < app_num[w] /\ k[w] \in known
  /\ \E n \in 1 .. MaxRequests : due' = [due EXCEPT ![w] = n]
  /\ Goto(w, "asked")
  /\ UNCHANGED <<options, handled, k, apps, learners, consumer, partitions>>

(* The constructor returns when Wait has returned from each. *)
Constructed(w) ==
  /\ At(w, "asked") /\ due[w] = 0
  /\ learners' = [learners EXCEPT ![w] = Append(@, k[w])]
  /\ k' = [k EXCEPT ![w] = @ + 1]
  /\ Goto(w, "apps")
  /\ UNCHANGED <<options, network, apps, consumer, partitions>>

(* A request of worker w is with a server process that still runs. *)
Arrived(w) == At(w, "asked") /\ due[w] > 0 /\ pc[Server] \notin {"ended", "aborted"}

(* KVServer::Process: a request is answered by the handler of its          *)
(* application.  CHECK(request_handle_) aborts the process without it.     *)
Answer(w) ==
  /\ Arrived(w) /\ k[w] \in handled
  /\ due' = [due EXCEPT ![w] = @ - 1]
  /\ UNCHANGED <<options, handled, pc, k, apps, learners, consumer, partitions>>

Abort(w) ==
  /\ Arrived(w) /\ k[w] \in apps \ handled
  /\ Goto(Server, "aborted")
  /\ UNCHANGED <<options, network, k, apps, learners, consumer, partitions>>

(* External: GetCustomer returns nullptr when the application is not there *)
(* in time; the request is lost, or the process of the server ends.        *)
Timeout(w) ==
  /\ Arrived(w) /\ k[w] \notin apps
  /\ Goto(w, "lost") \/ Goto(Server, "aborted")
  /\ UNCHANGED <<options, network, k, apps, learners, consumer, partitions>>

-----------------------------------------------------------------------------
(* main leaves the setting out for a negative index, and atoi of nothing   *)
(* is 0.                                                                   *)
Workid(w) == IF worker_idx[w] >= 0 THEN worker_idx[w] ELSE 0

MutParts(w, s) == IF s = "bhv" THEN {Workid(w)} ELSE {Workid(w) + j : j \in 0 .. 3}
Parts(w, s) == IF s = "bhv" THEN {Workid(w)} ELSE {Workid(w) * 4 + j : j \in 0 .. 3}

(* SampleKafka: the parser has its learners, and both consumers are        *)
(* initialised.  Init of a consumer without a valid broker returns before  *)
(* its topic and queue are set, which nobody looks at.                     *)
NewSampleKafka(w) ==
  /\ At(w, "apps") /\ k[w] = app_num[w]
  /\ consumer' = [consumer EXCEPT ![w] =
                    [s \in Streams |-> IF s \in brokers THEN "ready" ELSE "broken"]]
  /\ partitions' = [partitions EXCEPT ![w] = [s \in Streams |-> Parts(w, s)]]
  /\ Goto(w, "start_bhv")
  /\ UNCHANGED <<options, network, k, apps, learners>>

(* Start: pthread_create for the behaviours, then for the impressions.     *)
(* A consumer that was not initialised takes the process down, or polls    *)
(* what happens to be in its memory.                                       *)
StartThread(w, s) ==
  /\ At(w, IF s = "bhv" THEN "start_bhv" ELSE "start_imp")
  /\ \/ /\ consumer[w][s] = "ready"
        /\ consumer' = [consumer EXCEPT ![w][s] = "running"]
        /\ Goto(w, IF s = "bhv" THEN "start_imp" ELSE "join")
     \/ /\ consumer[w][s] = "broken"
        /\ UNCHANGED consumer
        /\ \/ Goto(w, "ended")
           \/ Goto(w, IF s = "bhv" THEN "start_imp" ELSE "join")
     \/ /\ UNCHANGED consumer
        /\ Goto(w, "ended")
  /\ UNCHANGED <<options, network, k, apps, learners, partitions>>

(* Every process waits for ever or has ended. *)
Stuck(w) == At(w, "lost") \/ (At(w, "asked") /\ due[w] > 0 /\ pc[Server] \in {"ended", "aborted"})
Quiet ==
  /\ pc[Server] \in {"serving", "ended", "aborted"}
  /\ \A w \in Workers : At(w, "join") \/ At(w, "ended") \/ Stuck(w)
  /\ UNCHANGED vars

-----------------------------------------------------------------------------
Main(p) ==
  \/ Open(p)
  \/ p = Server /\ (NewServer \/ NoServer \/ SetHandle \/ Serve)
  \/ p \in Workers /\ \/ SkipApp(p) \/ NewLearner(p) \/ Constructed(p) \/ NewSampleKafka(p)
                       \/ \E s \in Streams : StartThread(p, s)

Receive(w) == Answer(w) \/ Abort(w)

Next ==
  \/ Quiet
  \/ \E p \in Procs : Main(p)
  \/ \E w \in Workers : Receive(w) \/ Timeout(w)

Spec == Init /\ [][Next]_vars
(* Every main thread runs, and the server's thread takes what has come. *)
FairSpec ==
  /\ Spec /\ \A p \in Procs : WF_vars(Main(p))
  /\ \A w \in Workers : WF_vars(Receive(w))

-----------------------------------------------------------------------------
(* The applications a worker trains. *)
Wanted(w) == {a \in known : a < app_num[w]}

(* The applications of -n, in the order of the loop. *)
Loop(w) == [i \in 1 .. app_num[w] |-> i - 1]

(* When the first thread of a worker reads, its parser has one learner for *)
(* each named application, in order, and the server has them all with      *)
(* their handlers, however the two were started and even if their -n       *)
(* differ (main.cpp 97-131).                                               *)
ReadsWithLearners ==
  \A w \in Workers : (\E s \in Streams : consumer[w][s] = "running") =>
    /\ learners[w] = Subsequence(Loop(w), {i \in 1 .. app_num[w] : i - 1 \in known})
    /\ Wanted(w) \subseteq handled

(* Each partition of the impressions belongs to one worker index: two      *)
(* workers that read a partition twice were given the same index, where a  *)
(* negative one counts as 0, and workers 0 .. n - 1 leave no partition out *)
(* below 4 n (sample_kafka.cpp 40-52, main.cpp 93).                        *)
PartitionsByIndex ==
  LET Started == {w \in Workers : partitions[w]["imp"] # {}}
      Read == UNION {partitions[w]["imp"] : w \in Started}
  IN /\ \A v, w \in Started, s \in Streams :
          partitions[v][s] \cap partitions[w][s] # {} => Workid(v) = Workid(w)
     /\ \A n \in 1 .. Cardinality(Started) :
          {Workid(w) : w \in Started} = 0 .. n - 1 => Read = 0 .. 4 * n - 1

(* If the worker and the server have their files and the server can make   *)
(* the applications the worker wants, the worker comes to run both         *)
(* streams, or its process ends, unless a request, of this or of another   *)
(* worker, comes too early: before the handler, when the server aborts, or *)
(* so long before the KVServer that it times out.  Once the server has     *)
(* left its loop with all that any worker wants there is no such exception *)
(* (main.cpp 67-75, 97-135, ps_server.cpp 21-41, kv_app.h 386).            *)
WorkersStart ==
  \A w \in Workers :
    /\ (/\ config[w] /\ config[Server]
        /\ \A a \in Wanted(w) : a < app_num[Server] /\ a \in threads)
         ~> (At(w, "join") \/ At(w, "ended") \/ At(w, "lost") \/ At(Server, "aborted"))
    /\ (/\ config[w] /\ At(Server, "serving") /\ ~At(w, "lost")
        /\ \A v \in Workers : Wanted(v) \subseteq apps)
         ~> (At(w, "join") \/ At(w, "ended"))
=============================================================================
