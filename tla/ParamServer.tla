---------------------------- MODULE ParamServer -----------------------------
(***************************************************************************)
(* The start of one application across processes: PSS::StartFtrl on the    *)
(* server (src/src/core/ps_server.cpp), Ftrl::handle_request (src/src/     *)
(* optimizer/ftrl.cpp) and, in every worker process, the constructor of    *)
(* Learner (src/src/core/learner.cpp), which loads the initial model into  *)
(* the server unless somebody has, sets the hyper-parameters, and then     *)
(* trains.                                                                 *)
(*                                                                         *)
(* A weight is abstracted to where it comes from: from the model or not,   *)
(* and how many gradients were applied since.  Requests of a worker are    *)
(* one at a time (every Push and Pull is followed by Wait) but those of    *)
(* different workers, and of a worker and its restarted self, are handled  *)
(* in any order.  The transport of ps-lite is external: it neither loses   *)
(* nor duplicates, and keeps a request until the server listens.           *)
(***************************************************************************)
EXTENDS Integers, FiniteSets

CONSTANTS
  Workers,
  Keys,          \* keys pulled and pushed in training
  ModelKeys,     \* keys in the model file
  HasModel,      \* worker -> its LoadModel finds the file
  SetParam,      \* worker -> setparam_flag == 1 in its configuration
  MaxGrads,      \* bound: gradients applied to a key
  MaxRestarts    \* bound: restarts of a worker process

ASSUME ParamServerAssumption ==
  /\ Workers \cap {"none", "default"} = {}
  /\ HasModel \in [Workers -> BOOLEAN] /\ SetParam \in [Workers -> BOOLEAN]
  /\ ModelKeys \subseteq Keys /\ ModelKeys # {}
  /\ MaxGrads \in Nat /\ MaxRestarts \in Nat

VARIABLES
  server,        \* progress of StartFtrl, or "aborted"
  set_flag,
  params,        \* "none", "default", or the worker that set alpha..l2
  weight,        \* key -> [model, grads]
  pc, reply,     \* worker -> program counter, value its last Pull cmd 1 got
  life,          \* worker -> number of restarts
  net            \* requests on the way or unanswered

vars == <<server, set_flag, params, weight, pc, reply, life, net>>

NoReply == -1

Init ==
  /\ server = "start" /\ set_flag = FALSE /\ params = "none"
  /\ weight = [k \in Keys |-> [model |-> FALSE, grads |-> 0]]
  /\ pc = [w \in Workers |-> "ask"] /\ reply = [w \in Workers |-> NoReply]
  /\ life = [w \in Workers |-> 0] /\ net = {}

-----------------------------------------------------------------------------
(* StartFtrl.  new Ftrl() and set_param(0.02, ...) *)
NewFtrl ==
  /\ server = "start"
  /\ server' = "ftrl" /\ params' = "default"
  /\ UNCHANGED <<set_flag, weight, pc, reply, life, net>>

(* new KVServer: its receiving thread starts, request_handle_ is empty.    *)
NewServer ==
  /\ server = "ftrl"
  /\ server' = "listening"
  /\ UNCHANGED <<set_flag, params, weight, pc, reply, life, net>>

SetHandle ==
  /\ server = "listening"
  /\ server' = "ready"
  /\ UNCHANGED <<set_flag, params, weight, pc, reply, life, net>>

(* KVServer::Process, CHECK(request_handle_) *)
Abort ==
  /\ server = "listening" /\ net # {}
  /\ server' = "aborted"
  /\ UNCHANGED <<set_flag, params, weight, pc, reply, life, net>>

-----------------------------------------------------------------------------
(* handle_request.  Answering a request takes it out of net; a worker that *)
(* was restarted meanwhile does not see the answer.                        *)
Request(w, op) == [from |-> w, life |-> life[w], op |-> op]
Current(m) == life[m.from] = m.life
Handling(m, op) == server = "ready" /\ m.op = op /\ net' = net \ {m}

(* Mutants: every Pull cmd 1 is told to load; the flag is set when it is   *)
(* asked for instead of when the weights arrive; a set flag returns before *)
(* Response.                                                               *)
MutAlwaysLoad(m) ==
  /\ Handling(m, "flag")
  /\ reply' = IF Current(m) THEN [reply EXCEPT ![m.from] = 1] ELSE reply
  /\ UNCHANGED <<server, set_flag, params, weight, pc, life>>

MutTestAndSet(m) ==
  /\ Handling(m, "flag")
  /\ reply' = IF Current(m)
              THEN [reply EXCEPT ![m.from] = IF set_flag THEN 0 ELSE 1] ELSE reply
  /\ set_flag' = TRUE
  /\ UNCHANGED <<server, params, weight, pc, life>>

MutSilent(m) ==
  /\ ~set_flag
  /\ Handling(m, "flag")
  /\ reply' = IF Current(m) THEN [reply EXCEPT ![m.from] = 1] ELSE reply
  /\ UNCHANGED <<server, set_flag, params, weight, pc, life>>

(* Pull, cmd 1 *)
HandleFlag(m) ==
  /\ Handling(m, "flag")
  /\ reply' = IF Current(m)
              THEN [reply EXCEPT ![m.from] = IF set_flag THEN 0 ELSE 1] ELSE reply
  /\ UNCHANGED <<server, set_flag, params, weight, pc, life>>

(* Push, cmd 1: set_weight *)
HandleSetWeight(m) ==
  /\ Handling(m, "set_weight")
  /\ weight' = [k \in Keys |-> IF k \in ModelKeys
                               THEN [model |-> TRUE, grads |-> 0] ELSE weight[k]]
  /\ set_flag' = TRUE
  /\ UNCHANGED <<server, params, pc, reply, life>>

(* Push, cmd 2: set_paramfromkv *)
HandleParam(m) ==
  /\ Handling(m, "param")
  /\ params' = m.from
  /\ UNCHANGED <<server, set_flag, weight, pc, reply, life>>

(* Pull, cmd 0 *)
HandlePull(m) ==
  /\ Handling(m, "pull")
  /\ UNCHANGED <<server, set_flag, params, weight, pc, reply, life>>

(* Push, cmd 0: update *)
HandleUpdate(m) ==
  /\ Handling(m, "update")
  /\ \A k \in Keys : weight[k].grads < MaxGrads
  /\ weight' = [k \in Keys |-> [weight[k] EXCEPT !.grads = @ + 1]]
  /\ UNCHANGED <<server, set_flag, params, pc, reply, life>>

-----------------------------------------------------------------------------
(* A worker process.  Wait returns when the request of this life is gone.  *)
At(w, p) == pc[w] = p
Goto(w, p) == pc' = [pc EXCEPT ![w] = p]
Answered(w) == \A m \in net : ~(m.from = w /\ m.life = life[w])

(* kw->Wait(kw->Pull(keys, &vals, len, 1)) *)
Ask(w) ==
  /\ At(w, "ask")
  /\ net' = net \cup {Request(w, "flag")}
  /\ Goto(w, "asked")
  /\ UNCHANGED <<server, set_flag, params, weight, reply, life>>

(* LoadModel, Push cmd 1.  Without the file W is empty, and a Push without *)
(* keys is sent to nobody.                                                 *)
Load(w) ==
  /\ At(w, "asked") /\ Answered(w) /\ reply[w] = 1
  /\ net' = IF HasModel[w] THEN net \cup {Request(w, "set_weight")} ELSE net
  /\ reply' = [reply EXCEPT ![w] = NoReply]
  /\ Goto(w, "loaded")
  /\ UNCHANGED <<server, set_flag, params, weight, life>>

NoLoad(w) ==
  /\ At(w, "asked") /\ Answered(w) /\ reply[w] = 0
  /\ reply' = [reply EXCEPT ![w] = NoReply]
  /\ Goto(w, "loaded")
  /\ UNCHANGED <<server, set_flag, params, weight, life, net>>

(* Mutants: the worker goes on without sending the parameters; it sends    *)
(* them without waiting for the weights.                                   *)
MutParams(w) ==
  /\ At(w, "loaded") /\ Answered(w)
  /\ Goto(w, "set")
  /\ UNCHANGED <<server, set_flag, params, weight, reply, life, net>>

MutNoWait(w) ==
  /\ At(w, "loaded")
  /\ net' = IF SetParam[w] THEN net \cup {Request(w, "param")} ELSE net
  /\ Goto(w, "set")
  /\ UNCHANGED <<server, set_flag, params, weight, reply, life>>

(* if (setparam_flag == 1) Push cmd 2 *)
Params(w) ==
  /\ At(w, "loaded") /\ Answered(w)
  /\ net' = IF SetParam[w] THEN net \cup {Request(w, "param")} ELSE net
  /\ Goto(w, "set")
  /\ UNCHANGED <<server, set_flag, params, weight, reply, life>>

(* The constructor returns; batches are trained on from now on. *)
Constructed(w) ==
  /\ At(w, "set") /\ Answered(w)
  /\ Goto(w, "train")
  /\ UNCHANGED <<server, set_flag, params, weight, reply, life, net>>

(* Learner::update: Pull, Wait, Push, Wait *)
Pull(w) ==
  /\ At(w, "train")
  /\ net' = net \cup {Request(w, "pull")}
  /\ Goto(w, "pulling")
  /\ UNCHANGED <<server, set_flag, params, weight, reply, life>>

Push(w) ==
  /\ At(w, "pulling") /\ Answered(w)
  /\ net' = net \cup {Request(w, "update")}
  /\ Goto(w, "pushing")
  /\ UNCHANGED <<server, set_flag, params, weight, reply, life>>

Pushed(w) ==
  /\ At(w, "pushing") /\ Answered(w)
  /\ Goto(w, "train")
  /\ UNCHANGED <<server, set_flag, params, weight, reply, life, net>>

(* External: the process dies and is started again; its requests stay.     *)
Restart(w) ==
  /\ life[w] < MaxRestarts
  /\ life' = [life EXCEPT ![w] = @ + 1]
  /\ reply' = [reply EXCEPT ![w] = NoReply]
  /\ Goto(w, "ask")
  /\ UNCHANGED <<server, set_flag, params, weight, net>>

-----------------------------------------------------------------------------
StartFtrl == NewFtrl \/ NewServer \/ SetHandle
Handle == \E m \in net : \/ HandleFlag(m) \/ HandleSetWeight(m) \/ HandleParam(m)
                         \/ HandlePull(m) \/ HandleUpdate(m)
Construct(w) == Ask(w) \/ Load(w) \/ NoLoad(w) \/ Params(w) \/ Constructed(w)

Next ==
  \/ StartFtrl
  \/ Abort
  \/ Handle
  \/ \E w \in Workers : \/ Construct(w) \/ Pull(w) \/ Push(w) \/ Pushed(w)
                        \/ Restart(w)

Spec == Init /\ [][Next]_vars

(* The server's main thread finishes StartFtrl unless the process aborts,  *)
(* it handles every request it holds, and constructors keep running.       *)
FairSpec ==
  /\ Spec /\ WF_vars(StartFtrl)
  /\ \A w \in Workers : WF_vars(Construct(w))
  /\ \A w \in Workers, l \in 0 .. MaxRestarts, op \in {"flag", "set_weight", "param"} :
       LET m == [from |-> w, life |-> l, op |-> op]
       IN  WF_vars(m \in net /\ (HandleFlag(m) \/ HandleSetWeight(m) \/ HandleParam(m)))

-----------------------------------------------------------------------------
(* Properties. *)
Training(w) == pc[w] \in {"train", "pulling", "pushing"}

(* Types, and a worker process has at most one request under way, since    *)
(* every Push and Pull is waited for.                                      *)
Ops == {"flag", "set_weight", "param", "pull", "update"}
Pcs == {"ask", "asked", "loaded", "set", "train", "pulling", "pushing"}
Requests == [from : Workers, life : 0 .. MaxRestarts, op : Ops]
TypeOK ==
  /\ server \in {"start", "ftrl", "listening", "ready", "aborted"}
  /\ set_flag \in BOOLEAN
  /\ params \in {"none", "default"} \cup Workers
  /\ weight \in [Keys -> [model : BOOLEAN, grads : 0 .. MaxGrads]]
  /\ pc \in [Workers -> Pcs] /\ reply \in [Workers -> {NoReply, 0, 1}]
  /\ life \in [Workers -> 0 .. MaxRestarts]
  /\ net \subseteq Requests
  /\ \A m, n \in net : m.from = n.from /\ m.life = n.life => m = n

(* A worker that has the file does not train before the weights of the     *)
(* model are on the server: told not to load (ftrl.cpp 99-104), it finds   *)
(* them there, and told to load, it waits for its push (learner.cpp 80-    *)
(* 92), whatever workers without the file or their restarts do meanwhile.  *)
ModelBeforeTraining ==
  \A w \in Workers : Training(w) /\ HasModel[w] =>
    set_flag /\ \A k \in ModelKeys : weight[k].model

(* Workers that were told to load and whose weights have yet to overwrite  *)
(* the server's.  Once the flag is set their number never grows, whatever  *)
(* restarts: a worker that joins later never undoes training.              *)
Loaders == Cardinality({w \in Workers : reply[w] = 1})
           + Cardinality({m \in net : m.op = "set_weight"})
NoNewLoader == [][set_flag => Loaders' <= Loaders]_vars

(* A worker configured to set the hyper-parameters trains only on a server *)
(* some worker has configured (learner.cpp 94-99).                         *)
ParamsBeforeTraining ==
  \A w \in Workers : Training(w) /\ SetParam[w] => params \in Workers

(* Constructors do not wait for one another: every worker that is not      *)
(* restarted for ever comes to train, unless the server aborts.            *)
ConstructorsReturn ==
  \A w \in Workers : (pc[w] = "ask") ~> (Training(w) \/ server = "aborted")

(* kv_app.h:386 asserts that a request finds a handler. *)
RequestFindsHandle == server # "aborted"
=============================================================================
