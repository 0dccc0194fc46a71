------------------------- MODULE ParamServerProofs --------------------------
(***************************************************************************)
(* The start of an application is safe for every number of workers, keys   *)
(* and restarts: before a worker trains, the hyper-parameters it sets and, *)
(* if it has the model file, the model are on the server.                  *)
(*                                                                         *)
(* The second half is about ModelFile: whatever requests and crashes do, a *)
(* file of finished saves reads back, and a cut save harms one key.        *)
(***************************************************************************)
EXTENDS ParamServer, ModelFile, SeqFilterProofs, FiniteSetTheorems, TLAPS

(* TypeOK without the one-request clause, whose own induction is below.    *)
Types ==
  /\ server \in {"start", "ftrl", "listening", "ready", "aborted"}
  /\ set_flag \in BOOLEAN
  /\ params \in {"none", "default"} \cup Workers
  /\ weight \in [Keys -> [model : BOOLEAN, grads : 0 .. MaxGrads]]
  /\ pc \in [Workers -> Pcs] /\ reply \in [Workers -> {NoReply, 0, 1}]
  /\ life \in [Workers -> 0 .. MaxRestarts]
  /\ net \subseteq Requests

(* The types, at the start and over every step. *)
LEMMA TypesInit == Init => Types
<1> SUFFICES ASSUME Init PROVE Types
  OBVIOUS
<1>1. 0 \in 0 .. MaxGrads /\ 0 \in 0 .. MaxRestarts
  BY ParamServerAssumption
<1>2. weight \in [Keys -> [model : BOOLEAN, grads : 0 .. MaxGrads]]
  BY <1>1 DEF Init
<1> QED
  BY <1>1, <1>2 DEF Init, Types, Pcs, NoReply

LEMMA TypesStep == Types /\ [Next]_vars => Types'
<1> SUFFICES ASSUME Types, [Next]_vars PROVE Types'
  OBVIOUS
<1> USE DEF Types, Pcs, NoReply
<1>1. CASE StartFtrl
  BY <1>1 DEF StartFtrl, NewFtrl, NewServer, SetHandle
<1>2. CASE Abort
  BY <1>2 DEF Abort
<1>3. CASE Handle
  <2>1. PICK m \in net : \/ HandleFlag(m) \/ HandleSetWeight(m) \/ HandleParam(m)
                         \/ HandlePull(m) \/ HandleUpdate(m)
    BY <1>3 DEF Handle
  <2>2. m.from \in Workers
    BY DEF Requests
  <2>3. CASE HandleFlag(m)
    BY <2>2, <2>3 DEF HandleFlag, Handling
  <2>4. CASE HandleSetWeight(m)
    BY <2>4, ParamServerAssumption DEF HandleSetWeight, Handling
  <2>5. CASE HandleParam(m)
    BY <2>2, <2>5 DEF HandleParam, Handling
  <2>6. CASE HandlePull(m)
    BY <2>6 DEF HandlePull, Handling
  <2>7. CASE HandleUpdate(m)
    BY <2>7, ParamServerAssumption DEF HandleUpdate, Handling
  <2> QED
    BY <2>1, <2>3, <2>4, <2>5, <2>6, <2>7
<1>4. ASSUME NEW w \in Workers, NEW op \in Ops PROVE Request(w, op) \in Requests
  BY DEF Request, Requests
<1>5. ASSUME NEW w \in Workers, Construct(w) PROVE Types'
  BY <1>4, <1>5 DEF Construct, Ask, Load, NoLoad, Params, Constructed, Goto, At, Ops
<1>6. ASSUME NEW w \in Workers, Pull(w) \/ Push(w) \/ Pushed(w) PROVE Types'
  BY <1>4, <1>6 DEF Pull, Push, Pushed, Goto, At, Ops
<1>7. ASSUME NEW w \in Workers, Restart(w) PROVE Types'
  BY <1>7, ParamServerAssumption DEF Restart, Goto
<1>8. CASE UNCHANGED vars
  BY <1>8 DEF vars
<1> QED
  BY <1>1, <1>2, <1>3, <1>5, <1>6, <1>7, <1>8 DEF Next

-----------------------------------------------------------------------------
(* One request per process.  It is not inductive by itself: that a new     *)
(* request is the only one of its life needs the old one answered, which   *)
(* the code waits for except where it cannot have one.                     *)
OneRequest ==
  /\ \A m, n \in net : m.from = n.from /\ m.life = n.life => m = n
  /\ \A m \in net : m.life <= life[m.from]
  /\ \A m \in net : m.op = "flag" /\ Current(m) => pc[m.from] = "asked"
  /\ \A w \in Workers : pc[w] \in {"ask", "train"} => Answered(w)
  /\ \A w \in Workers : reply[w] # NoReply => pc[w] = "asked" /\ Answered(w)

(* One request per life, at the start and over every step. *)
LEMMA OneRequestInit == Init => OneRequest
  BY DEF Init, OneRequest, Answered, NoReply

(* Only w moves. *)
Alone(w) ==
  \A v \in Workers : v # w => pc'[v] = pc[v] /\ reply'[v] = reply[v]

(* A worker without a request sends one. *)
LEMMA SendKeepsOne ==
  ASSUME Types, OneRequest, NEW w \in Workers, NEW op, Answered(w), Alone(w),
         net' = net \cup {Request(w, op)}, UNCHANGED life,
         pc'[w] \notin {"ask", "train"}, reply'[w] = NoReply,
         op = "flag" => pc'[w] = "asked"
  PROVE  OneRequest'
<1>1. Request(w, op).from = w /\ Request(w, op).life = life[w]
  BY DEF Request
<1>2. \A v \in Workers : v # w /\ Answered(v) => Answered(v)'
  BY <1>1 DEF Answered
<1>3. \A m, n \in net' : m.from = n.from /\ m.life = n.life => m = n
  BY <1>1 DEF OneRequest, Answered
<1>4. \A m \in net' : m.life <= life'[m.from]
  BY <1>1, ParamServerAssumption DEF OneRequest, Types
<1>5. \A m \in net' : m.op = "flag" /\ Current(m)' => pc'[m.from] = "asked"
  <2>1. \A m \in net : m.from \in Workers
    BY DEF Types, Requests
  <2>2. Request(w, op).op = op
    BY DEF Request
  <2> QED
    BY <1>1, <2>1, <2>2 DEF OneRequest, Alone, Answered, Current
<1> QED
  BY <1>2, <1>3, <1>4, <1>5 DEF OneRequest, Alone

(* A worker that was answered goes on. *)
LEMMA MoveKeepsOne ==
  ASSUME Types, OneRequest, NEW w \in Workers, Alone(w), UNCHANGED <<net, life>>,
         Answered(w), reply'[w] = NoReply
  PROVE  OneRequest'
<1>1. \A v \in Workers : Answered(v)' <=> Answered(v)
  BY DEF Answered
<1>2. \A m \in net' : m.op = "flag" /\ Current(m)' => pc'[m.from] = "asked"
  <2>1. \A m \in net : m.from \in Workers
    BY DEF Types, Requests
  <2> QED
    BY <2>1 DEF OneRequest, Alone, Answered, Current
<1> QED
  BY <1>1, <1>2 DEF OneRequest, Alone

(* Goto changes one worker only. *)
LEMMA GotoAlone ==
  ASSUME Types, NEW w \in Workers, NEW p, Goto(w, p),
         reply' = reply \/ reply' = [reply EXCEPT ![w] = NoReply]
  PROVE  pc'[w] = p /\ Alone(w)
  BY DEF Types, Goto, Alone

LEMMA OneRequestStep == Types /\ OneRequest /\ [Next]_vars => OneRequest'
<1> SUFFICES ASSUME Types, OneRequest, [Next]_vars PROVE OneRequest'
  OBVIOUS
<1>1. CASE StartFtrl \/ Abort \/ UNCHANGED vars
  BY <1>1 DEF StartFtrl, NewFtrl, NewServer, SetHandle, Abort, vars, OneRequest, Answered,
                Current
<1>2. CASE Handle
  <2>1. PICK m \in net : \/ HandleFlag(m) \/ HandleSetWeight(m) \/ HandleParam(m)
                         \/ HandlePull(m) \/ HandleUpdate(m)
    BY <1>2 DEF Handle
  <2>2. net' = net \ {m} /\ UNCHANGED <<pc, life>>
    BY <2>1 DEF HandleFlag, HandleSetWeight, HandleParam, HandlePull, HandleUpdate,
                Handling
  <2>3. \A w \in Workers : Answered(w) => Answered(w)'
    BY <2>2 DEF Answered
  <2>4. \A w \in Workers : reply'[w] # reply[w] =>
          HandleFlag(m) /\ Current(m) /\ w = m.from
    BY <2>1 DEF HandleFlag, HandleSetWeight, HandleParam, HandlePull, HandleUpdate, Types
  <2>5. Current(m) => Answered(m.from)'
    BY <2>2 DEF OneRequest, Answered, Current
  <2>6. HandleFlag(m) /\ Current(m) => pc[m.from] = "asked"
    BY DEF HandleFlag, Handling, OneRequest
  <2> QED
    BY <2>2, <2>3, <2>4, <2>5, <2>6 DEF OneRequest, Current
<1>3. ASSUME NEW w \in Workers, Construct(w) PROVE OneRequest'
  <2>1. CASE Ask(w)
    BY <2>1, GotoAlone, SendKeepsOne DEF Ask, At, OneRequest
  <2>2. CASE Load(w) /\ HasModel[w]
    <3>1. reply'[w] = NoReply
      BY <2>2 DEF Load, Types
    <3>2. pc'[w] = "loaded" /\ Alone(w)
      BY <2>2, GotoAlone DEF Load
    <3> QED
      BY <2>2, <3>1, <3>2, SendKeepsOne DEF Load
  <2>3. CASE Load(w) /\ ~HasModel[w]
    BY <2>3, GotoAlone, MoveKeepsOne DEF Load, At, Types
  <2>4. CASE NoLoad(w)
    BY <2>4, GotoAlone, MoveKeepsOne DEF NoLoad, At, Types
  <2>5. CASE Params(w) /\ SetParam[w]
    BY <2>5, GotoAlone, SendKeepsOne DEF Params, At, OneRequest
  <2>6. CASE Params(w) /\ ~SetParam[w]
    BY <2>6, GotoAlone, MoveKeepsOne DEF Params, At, OneRequest
  <2>7. CASE Constructed(w)
    BY <2>7, GotoAlone, MoveKeepsOne DEF Constructed, At, OneRequest
  <2> QED
    BY <1>3, <2>1, <2>2, <2>3, <2>4, <2>5, <2>6, <2>7 DEF Construct
<1>4. ASSUME NEW w \in Workers, Pull(w) \/ Push(w) \/ Pushed(w) PROVE OneRequest'
  <2>1. CASE Pull(w)
    BY <2>1, GotoAlone, SendKeepsOne DEF Pull, At, OneRequest
  <2>2. CASE Push(w)
    BY <2>2, GotoAlone, SendKeepsOne DEF Push, At, OneRequest
  <2>3. CASE Pushed(w)
    BY <2>3, GotoAlone, MoveKeepsOne DEF Pushed, At, OneRequest
  <2> QED
    BY <1>4, <2>1, <2>2, <2>3
<1>5. ASSUME NEW w \in Workers, Restart(w) PROVE OneRequest'
  <2>1. life[w] \in Int /\ life'[w] = life[w] + 1
        /\ \A v \in Workers : v # w => life'[v] = life[v]
    BY <1>5, ParamServerAssumption DEF Restart, Types
  <2>2. pc'[w] = "ask" /\ reply'[w] = NoReply /\ Alone(w) /\ UNCHANGED net
    BY <1>5, GotoAlone DEF Restart, Types
  <2>3. \A m \in net : m.from \in Workers /\ m.life \in Int
    BY DEF Types, Requests
  <2>4. Answered(w)'
    BY <2>1, <2>2, <2>3 DEF Answered, OneRequest
  <2>5. \A v \in Workers : v # w /\ Answered(v) => Answered(v)'
    BY <2>1, <2>2 DEF Answered
  <2>6. \A m \in net' : m.life <= life'[m.from]
    BY <2>1, <2>2, <2>3 DEF OneRequest
  <2>7. \A m \in net' : m.op = "flag" /\ Current(m)' => pc'[m.from] = "asked"
    BY <2>1, <2>2, <2>3 DEF OneRequest, Alone, Current
  <2> QED
    BY <2>2, <2>4, <2>5, <2>6, <2>7 DEF OneRequest, Alone
<1> QED
  BY <1>1, <1>2, <1>3, <1>4, <1>5 DEF Next

(* Every variable keeps its type and a worker process never has two        *)
(* requests under way (every Pull and Push of learner.cpp 80-98 and 220-   *)
(* 251 is waited for), for any number of workers, keys and restarts.       *)
THEOREM ServerTypeCorrect == Spec => []TypeOK
<1>1. Init => Types /\ OneRequest
  BY TypesInit, OneRequestInit
<1>2. Types /\ OneRequest /\ [Next]_vars => (Types /\ OneRequest)'
  BY TypesStep, OneRequestStep
<1>3. Types /\ OneRequest => TypeOK
  BY DEF Types, OneRequest, TypeOK
<1> QED
  BY <1>1, <1>2, <1>3, PTL DEF Spec

-----------------------------------------------------------------------------
(* The model.  What a worker knows when it goes on: told not to load, the  *)
(* flag is set; having the file and loaded it, its push is on the way or   *)
(* the flag is set; and a set flag means that the weights are in.          *)
ModelInv ==
  /\ set_flag => \A k \in ModelKeys : weight[k].model
  /\ \A w \in Workers :
       /\ reply[w] = 0 => set_flag
       /\ HasModel[w] /\ pc[w] = "loaded" =>
            set_flag \/ Request(w, "set_weight") \in net
       /\ HasModel[w] /\ pc[w] \in {"set", "train", "pulling", "pushing"} => set_flag

(* Every step keeps what the workers know of the model ... *)
LEMMA ModelStep == Types /\ ModelInv /\ [Next]_vars => ModelInv'
<1> SUFFICES ASSUME Types, ModelInv, [Next]_vars PROVE ModelInv'
  OBVIOUS
<1>1. CASE StartFtrl \/ Abort \/ UNCHANGED vars
  BY <1>1 DEF StartFtrl, NewFtrl, NewServer, SetHandle, Abort, vars, ModelInv, Request
<1>2. CASE Handle
  <2>1. PICK m \in net : \/ HandleFlag(m) \/ HandleSetWeight(m) \/ HandleParam(m)
                         \/ HandlePull(m) \/ HandleUpdate(m)
    BY <1>2 DEF Handle
  <2>2. \A w \in Workers : Request(w, "set_weight")' = Request(w, "set_weight")
    BY <2>1 DEF HandleFlag, HandleSetWeight, HandleParam, HandlePull, HandleUpdate, Request
  <2>3. \A w \in Workers : Request(w, "set_weight").op = "set_weight"
    BY DEF Request
  <2>4. CASE HandleSetWeight(m)
    BY <2>4, ParamServerAssumption DEF HandleSetWeight, ModelInv
  <2>5. CASE HandleFlag(m)
    <3>1. \A w \in Workers : reply'[w] = 0 => reply[w] = 0 \/ set_flag
      BY <2>5 DEF HandleFlag, Types
    <3> QED
      BY <2>2, <2>3, <2>5, <3>1 DEF HandleFlag, Handling, ModelInv
  <2>6. CASE HandleParam(m) \/ HandlePull(m)
    BY <2>2, <2>3, <2>6 DEF HandleParam, HandlePull, Handling, ModelInv
  <2>7. CASE HandleUpdate(m)
    <3>1. \A k \in ModelKeys : weight'[k].model = weight[k].model
      BY <2>7, ParamServerAssumption DEF HandleUpdate, Types
    <3> QED
      BY <2>2, <2>3, <2>7, <3>1 DEF HandleUpdate, Handling, ModelInv
  <2> QED
    BY <2>1, <2>4, <2>5, <2>6, <2>7
<1>3. ASSUME NEW w \in Workers, Alone(w), UNCHANGED <<set_flag, weight>>,
             \A v \in Workers : v # w => life'[v] = life[v], net \subseteq net',
             reply'[w] = 0 => reply[w] = 0,
             HasModel[w] /\ pc'[w] = "loaded" =>
               set_flag \/ Request(w, "set_weight")' \in net',
             HasModel[w] /\ pc'[w] \in {"set", "train", "pulling", "pushing"} => set_flag
      PROVE  ModelInv'
  BY <1>3 DEF ModelInv, Alone, Request
<1>4. ASSUME NEW w \in Workers, Construct(w) PROVE ModelInv'
  <2>1. CASE Ask(w)
    BY <1>3, <2>1, GotoAlone DEF Ask
  <2>2. CASE Load(w)
    <3>1. HasModel[w] => Request(w, "set_weight")' \in net'
      BY <2>2 DEF Load, Request
    <3>2. reply'[w] = NoReply /\ pc'[w] = "loaded" /\ Alone(w)
      BY <2>2, GotoAlone DEF Load, Types
    <3> QED
      BY <1>3, <2>2, <3>1, <3>2 DEF Load, NoReply
  <2>3. CASE NoLoad(w)
    <3>1. reply'[w] = NoReply /\ pc'[w] = "loaded" /\ Alone(w)
      BY <2>3, GotoAlone DEF NoLoad, Types
    <3> QED
      BY <1>3, <2>3, <3>1 DEF NoLoad, NoReply, ModelInv
  <2>4. CASE Params(w)
    <3>1. HasModel[w] => set_flag
      BY <2>4 DEF Params, At, Answered, ModelInv, Request
    <3> QED
      BY <1>3, <2>4, <3>1, GotoAlone DEF Params
  <2>5. CASE Constructed(w)
    BY <1>3, <2>5, GotoAlone DEF Constructed, At, ModelInv
  <2> QED
    BY <1>4, <2>1, <2>2, <2>3, <2>4, <2>5 DEF Construct
<1>5. ASSUME NEW w \in Workers, Pull(w) \/ Push(w) \/ Pushed(w) PROVE ModelInv'
  BY <1>3, <1>5, GotoAlone DEF Pull, Push, Pushed, At, ModelInv
<1>6. ASSUME NEW w \in Workers, Restart(w) PROVE ModelInv'
  <2>1. reply'[w] = NoReply /\ pc'[w] = "ask" /\ Alone(w)
    BY <1>6, GotoAlone DEF Restart, Types
  <2>2. \A v \in Workers : v # w => life'[v] = life[v]
    BY <1>6 DEF Restart, Types
  <2> QED
    BY <1>3, <1>6, <2>1, <2>2 DEF Restart, NoReply
<1> QED
  BY <1>1, <1>2, <1>4, <1>5, <1>6 DEF Next

(* A worker that has the file does not train before the weights of the     *)
(* model are on the server, for any number of workers and restarts.        *)
THEOREM ModelFirst == Spec => []ModelBeforeTraining
<1>1. Init => Types /\ ModelInv
  BY TypesInit DEF Init, ModelInv, NoReply
<1>2. Types /\ ModelInv /\ [Next]_vars => (Types /\ ModelInv)'
  BY TypesStep, ModelStep
<1>3. ModelInv => ModelBeforeTraining
  BY DEF ModelInv, ModelBeforeTraining, Training
<1> QED
  BY <1>1, <1>2, <1>3, PTL DEF Spec

-----------------------------------------------------------------------------
(* The hyper-parameters.  StartFtrl sets its defaults before it can hear   *)
(* of a worker, so what a worker has set is never undone.                  *)
ParamInv ==
  /\ params \in Workers => server # "start"
  /\ \A w \in Workers : SetParam[w] =>
       /\ pc[w] = "set" => params \in Workers \/ Request(w, "param") \in net
       /\ Training(w) => params \in Workers

(* ... and of the parameters. *)
LEMMA ParamStep == Types /\ ParamInv /\ [Next]_vars => ParamInv'
<1> SUFFICES ASSUME Types, ParamInv, [Next]_vars PROVE ParamInv'
  OBVIOUS
<1> USE DEF Training
<1>1. CASE NewFtrl
  BY <1>1 DEF NewFtrl, ParamInv, Request
<1>2. CASE NewServer \/ SetHandle \/ Abort \/ UNCHANGED vars
  BY <1>2 DEF NewServer, SetHandle, Abort, vars, ParamInv, Request
<1>3. CASE Handle
  <2>1. PICK m \in net : \/ HandleFlag(m) \/ HandleSetWeight(m) \/ HandleParam(m)
                         \/ HandlePull(m) \/ HandleUpdate(m)
    BY <1>3 DEF Handle
  <2>2. \A w \in Workers : Request(w, "param")' = Request(w, "param")
    BY <2>1 DEF HandleFlag, HandleSetWeight, HandleParam, HandlePull, HandleUpdate, Request
  <2>3. \A w \in Workers : Request(w, "param").op = "param"
    BY DEF Request
  <2>4. m.from \in Workers
    BY DEF Types, Requests
  <2>5. CASE HandleParam(m)
    BY <2>4, <2>5 DEF HandleParam, Handling, ParamInv
  <2>6. CASE HandleFlag(m) \/ HandleSetWeight(m) \/ HandlePull(m) \/ HandleUpdate(m)
    BY <2>2, <2>3, <2>6 DEF HandleFlag, HandleSetWeight, HandlePull, HandleUpdate,
                            Handling, ParamInv
  <2> QED
    BY <2>1, <2>5, <2>6
<1>4. ASSUME NEW w \in Workers, Alone(w), UNCHANGED <<server, params>>,
             \A v \in Workers : v # w => life'[v] = life[v], net \subseteq net',
             SetParam[w] /\ pc'[w] = "set" =>
               params \in Workers \/ Request(w, "param")' \in net',
             SetParam[w] /\ Training(w)' => params \in Workers
      PROVE  ParamInv'
  BY <1>4 DEF ParamInv, Alone, Request
<1>5. ASSUME NEW w \in Workers, Ask(w) \/ Load(w) \/ NoLoad(w) PROVE ParamInv'
  <2>1. pc'[w] \in {"asked", "loaded"} /\ Alone(w)
    BY <1>5, GotoAlone DEF Ask, Load, NoLoad
  <2> QED
    BY <1>4, <1>5, <2>1 DEF Ask, Load, NoLoad
<1>6. ASSUME NEW w \in Workers, Params(w) PROVE ParamInv'
  <2>1. SetParam[w] => Request(w, "param")' \in net'
    BY <1>6 DEF Params, Request
  <2> QED
    BY <1>4, <1>6, <2>1, GotoAlone DEF Params
<1>7. ASSUME NEW w \in Workers, Constructed(w) PROVE ParamInv'
  <2>1. SetParam[w] => params \in Workers
    BY <1>7 DEF Constructed, At, Answered, ParamInv, Request
  <2> QED
    BY <1>4, <1>7, <2>1, GotoAlone DEF Constructed
<1>8. ASSUME NEW w \in Workers, Pull(w) \/ Push(w) \/ Pushed(w) PROVE ParamInv'
  BY <1>4, <1>8, GotoAlone DEF Pull, Push, Pushed, At, ParamInv
<1>9. ASSUME NEW w \in Workers, Restart(w) PROVE ParamInv'
  <2>1. pc'[w] = "ask" /\ Alone(w)
    BY <1>9, GotoAlone DEF Restart
  <2>2. \A v \in Workers : v # w => life'[v] = life[v]
    BY <1>9 DEF Restart, Types
  <2> QED
    BY <1>4, <1>9, <2>1, <2>2 DEF Restart
<1> QED
  BY <1>1, <1>2, <1>3, <1>5, <1>6, <1>7, <1>8, <1>9 DEF Next, StartFtrl, Construct

(* A worker configured to set the hyper-parameters never trains on the     *)
(* defaults of ps_server.cpp 31, for any number of workers and restarts.   *)
THEOREM ParamsFirst == Spec => []ParamsBeforeTraining
<1>1. Init => Types /\ ParamInv
  <2>1. Init => ParamInv
    BY ParamServerAssumption DEF Init, ParamInv, Training
  <2> QED
    BY <2>1, TypesInit
<1>2. Types /\ ParamInv /\ [Next]_vars => (Types /\ ParamInv)'
  BY TypesStep, ParamStep
<1>3. ParamInv => ParamsBeforeTraining
  BY DEF ParamInv, ParamsBeforeTraining
<1> QED
  BY <1>1, <1>2, <1>3, PTL DEF Spec

-----------------------------------------------------------------------------
(* Loaders.  Told and Sent are the two sets Loaders counts.  They stay     *)
(* finite because a step adds at most one element, so nothing is assumed   *)
(* about the number of workers.                                            *)
Told == {w \in Workers : reply[w] = 1}
Sent == {m \in net : m.op = "set_weight"}
FiniteLoaders == IsFiniteSet(Told) /\ IsFiniteSet(Sent)
LoadersShrink == FiniteLoaders' /\ Loaders' <= Loaders

(* A step that adds no loader. *)
LEMMA FewerLoaders ==
  ASSUME FiniteLoaders, Told' \subseteq Told, Sent' \subseteq Sent
  PROVE  LoadersShrink
<1>1. /\ IsFiniteSet(Told') /\ Cardinality(Told') <= Cardinality(Told)
      /\ IsFiniteSet(Sent') /\ Cardinality(Sent') <= Cardinality(Sent)
  BY FS_Subset DEF FiniteLoaders
<1>2. /\ Cardinality(Told) \in Nat /\ Cardinality(Told') \in Nat
      /\ Cardinality(Sent) \in Nat /\ Cardinality(Sent') \in Nat
  BY <1>1, FS_CardinalityType DEF FiniteLoaders
<1>3. Loaders = Cardinality(Told) + Cardinality(Sent)
      /\ Loaders' = Cardinality(Told') + Cardinality(Sent')
  BY DEF Loaders, Told, Sent
<1>4. FiniteLoaders'
  BY <1>1 DEF FiniteLoaders
<1> QED
  BY <1>1, <1>2, <1>3, <1>4 DEF LoadersShrink

(* The worker that was told to load turns into its request. *)
LEMMA LoaderSends ==
  ASSUME FiniteLoaders, NEW w \in Told, Told' = Told \ {w}, NEW m,
         Sent' = Sent \cup {m}
  PROVE  LoadersShrink
<1>1. /\ IsFiniteSet(Told') /\ Cardinality(Told') = Cardinality(Told) - 1
      /\ IsFiniteSet(Sent')
      /\ Cardinality(Sent') = IF m \in Sent THEN Cardinality(Sent) ELSE Cardinality(Sent) + 1
  BY FS_RemoveElement, FS_AddElement DEF FiniteLoaders
<1>2. /\ Cardinality(Told) \in Nat /\ Cardinality(Told') \in Nat
      /\ Cardinality(Sent) \in Nat /\ Cardinality(Sent') \in Nat
  BY <1>1, FS_CardinalityType DEF FiniteLoaders
<1>3. Loaders = Cardinality(Told) + Cardinality(Sent)
      /\ Loaders' = Cardinality(Told') + Cardinality(Sent')
  BY DEF Loaders, Told, Sent
<1>4. FiniteLoaders'
  BY <1>1 DEF FiniteLoaders
<1> QED
  BY <1>1, <1>2, <1>3, <1>4 DEF LoadersShrink

(* Once the flag is set no step adds one. *)
LEMMA LoadersStep ==
  ASSUME Types, FiniteLoaders, [Next]_vars
  PROVE  FiniteLoaders' /\ (set_flag => Loaders' <= Loaders)
<1> SUFFICES LoadersShrink \/ (FiniteLoaders' /\ ~set_flag)
  BY DEF LoadersShrink
<1> USE DEF Told, Sent
<1>1. CASE StartFtrl \/ Abort \/ UNCHANGED vars
  BY <1>1, FewerLoaders
  DEF StartFtrl, NewFtrl, NewServer, SetHandle, Abort, vars
<1>2. ASSUME NEW m \in net, HandleFlag(m)
      PROVE  LoadersShrink \/ (FiniteLoaders' /\ ~set_flag)
  <2>1. m.from \in Workers /\ Sent' \subseteq Sent
    BY <1>2 DEF HandleFlag, Handling, Types, Requests
  <2>2. CASE set_flag \/ ~Current(m)
    <3>1. Told' \subseteq Told
      BY <1>2, <2>1, <2>2 DEF HandleFlag, Types
    <3> QED
      BY <2>1, <3>1, FewerLoaders
  <2>3. CASE ~set_flag
    <3>1. Told' \in SUBSET (Told \cup {m.from})
      BY <1>2, <2>1, <2>3 DEF HandleFlag, Types
    <3>2. IsFiniteSet(Told \cup {m.from})
      BY FS_AddElement DEF FiniteLoaders
    <3>3. IsFiniteSet(Told') /\ IsFiniteSet(Sent')
      BY <2>1, <3>1, <3>2, FS_Subset DEF FiniteLoaders
    <3> QED
      BY <2>3, <3>3 DEF FiniteLoaders
  <2> QED
    BY <2>2, <2>3
<1>3. ASSUME NEW m \in net, \/ HandleSetWeight(m) \/ HandleParam(m)
                            \/ HandlePull(m) \/ HandleUpdate(m)
      PROVE  LoadersShrink
  BY <1>3, FewerLoaders
  DEF HandleSetWeight, HandleParam, HandlePull, HandleUpdate, Handling
<1>4. ASSUME NEW w \in Workers, Load(w) PROVE LoadersShrink
  <2>1. w \in Told /\ Told' = Told \ {w}
    BY <1>4 DEF Load, Types, NoReply
  <2>2. CASE HasModel[w]
    <3>1. Sent' = Sent \cup {Request(w, "set_weight")}
      BY <1>4, <2>2 DEF Load, Request
    <3> QED
      BY <2>1, <3>1, LoaderSends
  <2>3. CASE ~HasModel[w]
    BY <1>4, <2>1, <2>3, FewerLoaders DEF Load
  <2> QED
    BY <2>2, <2>3
<1>5. ASSUME NEW w \in Workers, \/ Ask(w) \/ NoLoad(w) \/ Params(w) \/ Constructed(w)
                                \/ Pull(w) \/ Push(w) \/ Pushed(w) \/ Restart(w)
      PROVE  LoadersShrink
  <2>1. Told' \subseteq Told
    BY <1>5
    DEF Ask, NoLoad, Params, Constructed, Pull, Push, Pushed, Restart, Types, NoReply
  <2>2. Sent' \subseteq Sent
    BY <1>5
    DEF Ask, NoLoad, Params, Constructed, Pull, Push, Pushed, Restart, Request
  <2> QED
    BY <2>1, <2>2, FewerLoaders
<1> QED
  BY <1>1, <1>2, <1>3, <1>4, <1>5 DEF Next, Handle, Construct

(* Once the server has weights (set_flag, ftrl.cpp 99-104), the workers    *)
(* that will still overwrite them with the model file only get fewer,      *)
(* whichever workers join, restart or race: training is never undone by a  *)
(* worker that comes later, for any number of workers and restarts.        *)
THEOREM LateWorkersDoNotLoad == Spec => NoNewLoader
<1>1. Init => Types /\ FiniteLoaders
  <2>1. ASSUME Init PROVE Told = {} /\ Sent = {}
    BY <2>1 DEF Init, Told, Sent, NoReply
  <2> QED
    BY <2>1, TypesInit, FS_EmptySet DEF FiniteLoaders
<1>2. Types /\ FiniteLoaders /\ [Next]_vars =>
        /\ (Types /\ FiniteLoaders)'
        /\ [set_flag => Loaders' <= Loaders]_vars
  BY TypesStep, LoadersStep
<1> QED
  BY <1>1, <1>2, PTL DEF Spec, NoNewLoader

-----------------------------------------------------------------------------
(* The model file.                                                         *)
PsKeys == 0 .. MaxKey
MapsTo(V) == UNION {[D -> V] : D \in SUBSET PsKeys}
Lines == [fields : Nat \ {0}, key : PsKeys, val : Int, ok : BOOLEAN]
Files == [lines : Seq(Lines), open : BOOLEAN]
Copies == [data : MapsTo(Int), keys : SUBSET PsKeys, had : MapsTo(SUBSET Int),
           raced : BOOLEAN, complete : BOOLEAN]
Savers == [pc : {"sleep", "copy"}, due : Nat, todo : SUBSET PsKeys, data : MapsTo(Int),
           keys : SUBSET PsKeys, had : MapsTo(SUBSET Int), raced : BOOLEAN]

SaveTypes ==
  /\ W \in MapsTo(Int) /\ req \in Seq(PsKeys) /\ clock \in Nat /\ saver \in Savers
  /\ file \in [0 .. Day - 1 -> Files] /\ saves \in [0 .. Day - 1 -> Seq(Copies)]

(* l is the line of a save c for its key. *)
IsOf(l, c) ==
  /\ l.fields = 2 /\ l.ok /\ l.key \in Kept(DOMAIN c.data) /\ l.val = Fmt(c.data[l.key])

(* Lines that say what some save said; the others, and one without its     *)
(* newline, are at risk.  ss are the saves to the file f.                  *)
Intact(f, ss, p) ==
  /\ \E i \in DOMAIN ss : IsOf(f.lines[p], ss[i])
  /\ p = 1 => f.lines[p].key = 0
AtRisk(f, ss) ==
  {p \in DOMAIN f.lines : ~Intact(f, ss, p) \/ (f.open /\ p = Len(f.lines))}
CutSaves(ss) == {i \in DOMAIN ss : ~ss[i].complete}
Key0(ss) == \A i \in DOMAIN ss : ss[i].data = <<>> \/ 0 \in DOMAIN ss[i].data
Damage(f, ss) == Key0(ss) => Cardinality(AtRisk(f, ss)) <= Cardinality(CutSaves(ss))

(* src tells the save of each line: the saves follow each other, each with *)
(* a line for every key it kept.                                           *)
IsSource(src, f, ss) ==
  /\ src \in [DOMAIN f.lines -> DOMAIN ss]
  /\ \A p \in DOMAIN f.lines : IsOf(f.lines[p], ss[src[p]])
  /\ \A p, q \in DOMAIN f.lines : p < q => src[p] <= src[q]
  /\ \A i \in DOMAIN ss : \A k \in Kept(DOMAIN ss[i].data) :
       \E p \in DOMAIN f.lines : src[p] = i /\ f.lines[p].key = k
Exact(f, ss) ==
  Key0(ss) /\ CutSaves(ss) = {} =>
    /\ ~f.open
    /\ f.lines # <<>> => f.lines[1].key = 0
    /\ \E src : IsSource(src, f, ss)

(* A copy during which nothing was inserted has a weight of its time for   *)
(* every key.                                                              *)
Unspoilt(c) == ~c.raced => DOMAIN c.data = c.keys /\ \A k \in c.keys : c.data[k] \in c.had[k]
HistoryInv(f, ss) ==
  /\ f.open => f.lines # <<>>
  /\ Damage(f, ss) /\ Exact(f, ss)
  /\ \A i \in DOMAIN ss : Unspoilt(ss[i])
FileInv == \A m \in DOMAIN file : HistoryInv(file[m], saves[m])
CopyInv ==
  saver.pc = "copy" =>
    /\ DOMAIN saver.had = DOMAIN W /\ saver.todo \subseteq DOMAIN W
    /\ ~saver.raced =>
         /\ DOMAIN W = saver.keys /\ DOMAIN saver.data = saver.keys \ saver.todo
         /\ \A k \in saver.keys : W[k] \in saver.had[k]
         /\ \A k \in DOMAIN saver.data : saver.data[k] \in saver.had[k]

-----------------------------------------------------------------------------
(* Key 0 is kept whenever it is there. *)
LEMMA KeptKeys ==
  ASSUME NEW K \in SUBSET PsKeys
  PROVE  Kept(K) \subseteq K /\ (0 \in K => 0 \in Kept(K))
<1>1. ASSUME 0 \in K PROVE 0 \in Kept(K)
  <2>1. {j \in K : j < 0} = {}
    <3>1. \A j \in PsKeys : ~(j < 0)
      BY ModelFileAssumption DEF PsKeys
    <3> QED
      BY <3>1
  <2>2. Cardinality({}) = 0
    BY FS_EmptySet
  <2>3. 0 < MaxLines + 1
    BY ModelFileAssumption
  <2> QED
    BY <1>1, <2>1, <2>2, <2>3 DEF Kept
<1> QED
  BY <1>1 DEF Kept

(* The ascending list of a set of keys. *)
LEMMA AscendingKeys ==
  ASSUME NEW K \in SUBSET PsKeys
  PROVE  /\ Ascending(K) \in Seq(PsKeys)
         /\ \A i \in 1 .. Len(Ascending(K)) : Ascending(K)[i] \in K
         /\ \A k \in K : \E i \in 1 .. Len(Ascending(K)) : Ascending(K)[i] = k
         /\ \A i, j \in 1 .. Len(Ascending(K)) : i < j => Ascending(K)[i] < Ascending(K)[j]
<1> DEFINE q == [i \in 1 .. MaxKey + 1 |-> i - 1]
           J == {i \in 1 .. MaxKey + 1 : i - 1 \in K}
<1>0. MaxKey \in Nat
  BY ModelFileAssumption
<1>1. q \in Seq(PsKeys) /\ Len(q) = MaxKey + 1 /\ \A i \in J : q[i] = i - 1 /\ q[i] \in K
  <2>1. \A i \in 1 .. MaxKey + 1 : i - 1 \in PsKeys
    BY <1>0 DEF PsKeys
  <2> QED
    BY <1>0, <2>1
<1>2. J \in SUBSET (1 .. Len(q))
  BY <1>1
<1>3. PICK r : r = Ascending(K)
  OBVIOUS
<1>4. r = Subsequence(q, J)
  BY <1>3 DEF Ascending
<1>5. r \in Seq(PsKeys) /\ \E h : Lists(h, r, q, J)
  <2> HIDE DEF q, J
  <2> QED
    BY <1>1, <1>2, <1>4, SubsequenceLists
<1>6. PICK h : Lists(h, r, q, J)
  BY <1>5
<1>7. \A i \in 1 .. Len(r) : h[i] \in J /\ h[i] \in Int /\ r[i] = h[i] - 1 /\ r[i] \in K
  <2>1. \A i \in 1 .. Len(r) : h[i] \in J /\ r[i] = q[h[i]]
    BY <1>6 DEF Lists
  <2> QED
    BY <2>1, <1>1
<1>8. \A k \in K : \E i \in 1 .. Len(r) : r[i] = k
  <2> TAKE k \in K
  <2>1. k + 1 \in J /\ q[k + 1] = k
    BY <1>0 DEF PsKeys
  <2>2. PICK i \in 1 .. Len(r) : h[i] = k + 1
    BY <2>1, <1>6 DEF Lists
  <2>3. r[i] = q[h[i]]
    BY <1>6 DEF Lists
  <2> QED
    BY <2>1, <2>2, <2>3
<1>9. \A i, j \in 1 .. Len(r) : i < j => r[i] < r[j]
  <2>1. \A i, j \in 1 .. Len(r) : i < j => h[i] < h[j]
    BY <1>6 DEF Lists
  <2> HIDE DEF q, J
  <2> QED
    BY <2>1, <1>7
<1> QED
  BY <1>3, <1>5, <1>7, <1>8, <1>9

LEMMA FmtInt == \A w \in Int : Fmt(w) \in Int
<1>1. Unit \in Nat /\ Unit # 0
  BY ModelFileAssumption
<1> QED
  BY <1>1 DEF Fmt

(* The text of a copy: one line for each key that is kept, and key 0 has   *)
(* the first if it is there.                                               *)
LEMMA TextLines ==
  ASSUME NEW c \in Copies
  PROVE  /\ Text(c.data) \in Seq(Lines)
         /\ \A i \in 1 .. Len(Text(c.data)) : IsOf(Text(c.data)[i], c)
         /\ \A k \in Kept(DOMAIN c.data) : \E i \in 1 .. Len(Text(c.data)) : Text(c.data)[i].key = k
         /\ (c.data = <<>> \/ 0 \in DOMAIN c.data) /\ Text(c.data) # <<>> => Text(c.data)[1].key = 0
<1> DEFINE data == c.data
           K == Kept(DOMAIN data)
           keys == Ascending(K)
           T == Text(data)
<1>1. PICK D \in SUBSET PsKeys : data \in [D -> Int]
  BY DEF Copies, MapsTo
<1>2. DOMAIN data = D /\ K \in SUBSET PsKeys /\ K \subseteq D /\ (0 \in D => 0 \in K)
  BY <1>1, KeptKeys
<1> HIDE DEF data, K
<1>3. /\ keys \in Seq(PsKeys)
      /\ \A i \in 1 .. Len(keys) : keys[i] \in K
      /\ \A k \in K : \E i \in 1 .. Len(keys) : keys[i] = k
      /\ \A i, j \in 1 .. Len(keys) : i < j => keys[i] < keys[j]
  BY <1>2, AscendingKeys
<1>4. T = [i \in DOMAIN keys |-> Line(2, keys[i], Fmt(data[keys[i]]), TRUE)]
  BY DEF Text, K
<1> HIDE DEF keys
<1>5. DOMAIN keys = 1 .. Len(keys) /\ Len(keys) \in Nat
  BY <1>3
<1>6. \A i \in 1 .. Len(keys) :
        /\ T[i] = Line(2, keys[i], Fmt(data[keys[i]]), TRUE)
        /\ T[i] \in Lines /\ T[i].key = keys[i] /\ T[i].fields = 2 /\ T[i].ok
        /\ T[i].val = Fmt(data[keys[i]])
  <2> TAKE i \in 1 .. Len(keys)
  <2>1. T[i] = Line(2, keys[i], Fmt(data[keys[i]]), TRUE)
    BY <1>4, <1>5
  <2>2. keys[i] \in PsKeys /\ data[keys[i]] \in Int
    BY <1>1, <1>2, <1>3
  <2>3. Fmt(data[keys[i]]) \in Int
    BY <2>2, FmtInt
  <2> QED
    BY <2>1, <2>2, <2>3 DEF Line, Lines
<1>7. T \in Seq(Lines) /\ Len(T) = Len(keys)
  <2> DEFINE line(i) == Line(2, keys[i], Fmt(data[keys[i]]), TRUE)
             n == Len(keys)
  <2>1. T = [i \in 1 .. n |-> line(i)] /\ n \in Nat
    BY <1>4, <1>5
  <2>2. \A i \in 1 .. n : line(i) \in Lines
    BY <1>6
  <2> HIDE DEF line, n, T
  <2>3. T \in Seq(Lines) /\ Len(T) = n
    BY <2>1, <2>2
  <2> QED
    BY <2>3 DEF n
<1>8. \A i \in 1 .. Len(T) : IsOf(T[i], c)
  BY <1>3, <1>6, <1>7 DEF IsOf, data, K
<1> HIDE DEF T
<1>9. \A k \in K : \E i \in 1 .. Len(T) : T[i].key = k
  <2> TAKE k \in K
  <2>1. PICK i \in 1 .. Len(keys) : keys[i] = k
    BY <1>3
  <2>2. i \in 1 .. Len(T) /\ T[i].key = k
    BY <2>1, <1>6, <1>7
  <2> QED
    BY <2>2
<1>10. ASSUME data = <<>> \/ 0 \in DOMAIN data, T # <<>> PROVE T[1].key = 0
  <2>1. 1 \in 1 .. Len(keys)
    <3>1. Len(T) # 0
      BY <1>7, <1>10
    <3> QED
      BY <3>1, <1>5, <1>7
  <2>2. keys[1] \in D
    BY <2>1, <1>2, <1>3
  <2>3. 0 \in D
    BY <1>10, <1>2, <2>2
  <2>4. PICK i \in 1 .. Len(keys) : keys[i] = 0
    BY <2>3, <1>2, <1>3
  <2>5. i = 1
    <3>1. ASSUME 1 < i PROVE FALSE
      <4>1. keys[1] < keys[i] /\ keys[1] \in PsKeys
        BY <3>1, <2>1, <1>3
      <4> QED
        BY <4>1, <2>4 DEF PsKeys
    <3> QED
      BY <3>1
  <2> QED
    BY <2>1, <2>4, <2>5, <1>6
<1> QED
  BY <1>7, <1>8, <1>9, <1>10 DEF data, K, T

-----------------------------------------------------------------------------
(* Where the lines of a text come to stand: behind n0 lines of the file,   *)
(* its last one being joined with the first of the text if it is open.     *)
Before(f) == IF f.open THEN Len(f.lines) - 1 ELSE Len(f.lines)

LEMMA JoinLine ==
  ASSUME NEW a \in Lines, NEW b \in Lines, NEW g \in PsKeys PROVE Join(a, b, g) \in Lines
<1>1. [b EXCEPT !.key = g] \in Lines
  BY DEF Lines
<1>2. Line(a.fields + b.fields - 1, a.key, a.val, FALSE) \in Lines
  <2>1. a.fields + b.fields - 1 \in Nat \ {0}
    BY DEF Lines
  <2> QED
    BY <2>1 DEF Line, Lines
<1> QED
  BY <1>1, <1>2 DEF Join

(* The items of two sequences one behind the other. *)
LEMMA ConcatItems ==
  ASSUME NEW r \in Seq(Lines), NEW t \in Seq(Lines)
  PROVE  /\ r \o t \in Seq(Lines) /\ Len(r \o t) = Len(r) + Len(t)
         /\ \A p \in 1 .. Len(r) : (r \o t)[p] = r[p]
         /\ \A i \in 1 .. Len(t) : (r \o t)[Len(r) + i] = t[i]
  OBVIOUS

LEMMA BehindLines ==
  ASSUME NEW f \in Files, f.open => f.lines # <<>>, NEW T \in Seq(Lines), T # <<>>,
         NEW g \in PsKeys
  PROVE  LET L == Behind(f, T, g)
         IN  /\ L \in Seq(Lines) /\ Before(f) \in Nat
             /\ Len(L) = Before(f) + Len(T)
             /\ \A p \in 1 .. Before(f) : p \in 1 .. Len(f.lines) /\ L[p] = f.lines[p]
             /\ \A i \in 1 .. Len(T) : ~(f.open /\ i = 1) => L[Before(f) + i] = T[i]
<1>1. f.lines \in Seq(Lines) /\ f.open \in BOOLEAN
  BY DEF Files
<1>2. PICK q, n : q = f.lines /\ n = Len(q)
  OBVIOUS
<1>3. q \in Seq(Lines) /\ n \in Nat /\ Len(T) \in Nat \ {0} /\ DOMAIN q = 1 .. n
  BY <1>1, <1>2
<1>4. CASE ~f.open
  <2>1. Behind(f, T, g) = q \o T /\ Before(f) = n
    BY <1>2, <1>4 DEF Behind, Before
  <2> QED
    BY <1>2, <1>3, <1>4, <2>1
<1>5. CASE f.open
  <2>1. n # 0
    BY <1>2, <1>3, <1>5
  <2>2. PICK x : x = Join(q[n], T[1], g)
    OBVIOUS
  <2>3. x \in Lines
    <3>1. q[n] \in Lines /\ T[1] \in Lines
      BY <1>3, <2>1
    <3> QED
      BY <3>1, <2>2, JoinLine
  <2>4. PICK r : r = [q EXCEPT ![n] = x]
    OBVIOUS
  <2>5. r \in Seq(Lines) /\ Len(r) = n /\ \A p \in 1 .. n - 1 : r[p] = q[p]
    BY <1>3, <2>1, <2>3, <2>4
  <2>6. Head(T) = T[1]
    BY <1>3
  <2>7. Behind(f, T, g) = r \o Tail(T) /\ Before(f) = n - 1
    BY <1>2, <1>5, <2>2, <2>4, <2>6 DEF Behind, Before
  <2>8. PICK t : t = Tail(T)
    OBVIOUS
  <2>9. t \in Seq(Lines) /\ Len(t) = Len(T) - 1 /\ \A i \in 2 .. Len(T) : t[i - 1] = T[i]
    BY <1>3, <2>8
  <2>10. PICK L : L = r \o t
    OBVIOUS
  <2>11. /\ L \in Seq(Lines) /\ Len(L) = n + Len(t)
         /\ \A p \in 1 .. n : L[p] = r[p]
         /\ \A i \in 1 .. Len(t) : L[n + i] = t[i]
    BY <2>5, <2>9, <2>10, ConcatItems
  <2>12. ASSUME NEW p \in 1 .. n - 1 PROVE p \in 1 .. n /\ L[p] = q[p]
    <3>1. p \in 1 .. n
      BY <1>3
    <3>2. L[p] = r[p]
      BY <3>1, <2>11
    <3>3. r[p] = q[p]
      BY <2>5
    <3> QED
      BY <3>1, <3>2, <3>3
  <2>13. ASSUME NEW i \in 1 .. Len(T), i # 1 PROVE L[n - 1 + i] = T[i]
    <3>1. i - 1 \in 1 .. Len(t) /\ n + (i - 1) = n - 1 + i /\ i \in 2 .. Len(T)
      BY <1>3, <2>9, <2>13
    <3>2. L[n + (i - 1)] = t[i - 1]
      BY <2>11, <3>1
    <3> QED
      BY <2>9, <3>1, <3>2
  <2>14. Len(L) = n - 1 + Len(T) /\ n - 1 \in Nat
    BY <1>3, <2>1, <2>9, <2>11
  <2> QED
    BY <1>2, <1>5, <2>7, <2>8, <2>10, <2>11, <2>12, <2>13, <2>14
<1> QED
  BY <1>1, <1>4, <1>5

(* A line stays intact when a save is added. *)
LEMMA IntactStays ==
  ASSUME NEW f, NEW e, NEW ss \in Seq(Copies), NEW c \in Copies, NEW p,
         f.lines[p] = e.lines[p], Intact(f, ss, p)
  PROVE  Intact(e, Append(ss, c), p)
<1>1. PICK i \in DOMAIN ss : IsOf(f.lines[p], ss[i])
  BY DEF Intact
<1>2. i \in DOMAIN Append(ss, c) /\ Append(ss, c)[i] = ss[i]
  OBVIOUS
<1> QED
  BY <1>1, <1>2 DEF Intact

(* What adding a save does to the conditions on a list of saves. *)
LEMMA OneMoreSave ==
  ASSUME NEW ss \in Seq(Copies), NEW c \in Copies
  PROVE  /\ Key0(Append(ss, c)) => Key0(ss) /\ (c.data = <<>> \/ 0 \in DOMAIN c.data)
         /\ CutSaves(Append(ss, c)) = CutSaves(ss) \cup (IF c.complete THEN {} ELSE {Len(ss) + 1})
         /\ CutSaves(ss) \in SUBSET (1 .. Len(ss))
         /\ IsFiniteSet(CutSaves(ss))
<1>1. PICK r : r = Append(ss, c)
  OBVIOUS
<1>2. /\ DOMAIN r = 1 .. Len(ss) + 1 /\ Len(ss) \in Nat /\ DOMAIN ss = 1 .. Len(ss)
      /\ r[Len(ss) + 1] = c /\ \A i \in 1 .. Len(ss) : r[i] = ss[i] /\ i \in DOMAIN r
  BY <1>1
<1>3. Key0(r) => Key0(ss) /\ (c.data = <<>> \/ 0 \in DOMAIN c.data)
  <2>1. Len(ss) + 1 \in DOMAIN r
    BY <1>2
  <2> QED
    BY <1>2, <2>1 DEF Key0
<1>4. DOMAIN r = (DOMAIN ss) \cup {Len(ss) + 1}
  BY <1>2
<1>5. CutSaves(r) = CutSaves(ss) \cup (IF c.complete THEN {} ELSE {Len(ss) + 1})
  BY <1>2, <1>4 DEF CutSaves
<1>6. CutSaves(ss) \in SUBSET (1 .. Len(ss))
  BY <1>2 DEF CutSaves
<1>7. IsFiniteSet(CutSaves(ss))
  <2>1. IsFiniteSet(1 .. Len(ss))
    BY <1>2, FS_Interval
  <2> QED
    BY <2>1, <1>6, FS_Subset
<1> QED
  BY <1>1, <1>3, <1>5, <1>6, <1>7

-----------------------------------------------------------------------------
(* A text of a save c: its lines are those of the save, but for the last   *)
(* one of a save that was cut, and the first has key 0.                    *)
Texts(c, T) ==
  /\ T \in Seq(Lines)
  /\ \A i \in 1 .. Len(T) : c.complete \/ i < Len(T) => IsOf(T[i], c)
  /\ (c.data = <<>> \/ 0 \in DOMAIN c.data) /\ T # <<>> => T[1].key = 0

(* Only the last line of a save that was cut comes at risk.                *)
LEMMA RiskGrows ==
  ASSUME NEW f \in Files, f.open => f.lines # <<>>, NEW ss \in Seq(Copies), NEW c \in Copies,
         NEW T, Texts(c, T), T # <<>>, NEW g \in PsKeys, NEW e,
         e = [lines |-> Behind(f, T, g), open |-> ~c.complete], Key0(Append(ss, c))
  PROVE  /\ AtRisk(e, Append(ss, c))
              \subseteq AtRisk(f, ss) \cup (IF c.complete THEN {} ELSE {Len(e.lines)})
         /\ AtRisk(f, ss) \in SUBSET (1 .. Len(f.lines))
<1>1. PICK L, n, ss2 : L = Behind(f, T, g) /\ n = Before(f) /\ ss2 = Append(ss, c)
  OBVIOUS
<1>2. T \in Seq(Lines)
  BY DEF Texts
<1>3. /\ L \in Seq(Lines) /\ n \in Nat /\ Len(L) = n + Len(T)
      /\ \A p \in 1 .. n : p \in 1 .. Len(f.lines) /\ L[p] = f.lines[p]
      /\ \A i \in 1 .. Len(T) : ~(f.open /\ i = 1) => L[n + i] = T[i]
  BY <1>1, <1>2, BehindLines
<1>4. e.lines = L /\ e.open = ~c.complete
  BY <1>1
<1>5. f.lines \in Seq(Lines) /\ f.open \in BOOLEAN /\ c.complete \in BOOLEAN
  BY DEF Files, Copies
<1>6. DOMAIN L = 1 .. Len(L) /\ DOMAIN f.lines = 1 .. Len(f.lines)
      /\ Len(f.lines) \in Nat /\ Len(T) \in Nat /\ Len(L) \in Nat
  BY <1>2, <1>3, <1>5
<1>7. ASSUME NEW p \in AtRisk(e, ss2), p \notin AtRisk(f, ss)
      PROVE  ~c.complete /\ p = Len(L)
  <2>1. p \in 1 .. Len(L) /\ (~Intact(e, ss2, p) \/ (~c.complete /\ p = Len(L)))
    BY <1>4, <1>6, <1>7 DEF AtRisk
  <2> SUFFICES ASSUME ~Intact(e, ss2, p), ~(~c.complete /\ p = Len(L)) PROVE FALSE
    BY <2>1
  <2>2. CASE p \in 1 .. n
    <3>1. p \in DOMAIN f.lines /\ L[p] = f.lines[p]
      BY <1>3, <1>6, <2>2
    <3>2. Intact(f, ss, p)
      BY <3>1, <1>7 DEF AtRisk
    <3> QED
      BY <1>1, <1>4, <3>1, <3>2, IntactStays
  <2>3. CASE p \notin 1 .. n
    <3>1. PICK i : i = p - n
      OBVIOUS
    <3>2. i \in 1 .. Len(T) /\ p = n + i
      BY <1>3, <1>6, <2>1, <2>3, <3>1
    <3>3. CASE f.open /\ i = 1
      <4>1. p = Len(f.lines) /\ p \in 1 .. Len(f.lines)
        <5>1. n = Len(f.lines) - 1
          BY <1>1, <3>3 DEF Before
        <5> QED
          BY <5>1, <3>2, <3>3, <1>3, <1>6
      <4> QED
        BY <4>1, <1>6, <1>7, <3>3 DEF AtRisk
    <3>4. CASE ~(f.open /\ i = 1)
      <4>1. L[p] = T[i]
        BY <1>3, <3>2, <3>4
      <4>2. c.complete \/ i < Len(T)
        <5> SUFFICES ASSUME ~c.complete PROVE i < Len(T)
          OBVIOUS
        <5>1. p # Len(L)
          OBVIOUS
        <5>2. n + i # n + Len(T)
          BY <5>1, <1>3, <3>2
        <5> QED
          BY <5>2, <1>6, <3>2
      <4>3. IsOf(L[p], c)
        BY <4>1, <4>2, <3>2 DEF Texts
      <4>4. p = 1 => L[p].key = 0
        <5> SUFFICES ASSUME p = 1 PROVE L[p].key = 0
          OBVIOUS
        <5>1. i = 1
          BY <3>2, <1>3
        <5>2. c.data = <<>> \/ 0 \in DOMAIN c.data
          BY OneMoreSave
        <5> QED
          BY <4>1, <5>1, <5>2 DEF Texts
      <4>5. Len(ss) + 1 \in DOMAIN ss2 /\ ss2[Len(ss) + 1] = c
        BY <1>1
      <4>6. Intact(e, ss2, p)
        BY <4>3, <4>4, <4>5, <1>4 DEF Intact
      <4> QED
        BY <4>6
    <3> QED
      BY <3>3, <3>4
  <2> QED
    BY <2>2, <2>3
<1>8. AtRisk(f, ss) \in SUBSET (1 .. Len(f.lines))
  BY <1>6 DEF AtRisk
<1> QED
  BY <1>1, <1>4, <1>7, <1>8

(* So each cut save puts one line more at risk. *)
LEMMA DamageStep ==
  ASSUME NEW f \in Files, f.open => f.lines # <<>>, NEW ss \in Seq(Copies), NEW c \in Copies,
         NEW T, Texts(c, T), T # <<>>, NEW g \in PsKeys, NEW e,
         e = [lines |-> Behind(f, T, g), open |-> ~c.complete], Damage(f, ss)
  PROVE  Damage(e, Append(ss, c))
<1> SUFFICES ASSUME Key0(Append(ss, c))
             PROVE  Cardinality(AtRisk(e, Append(ss, c))) <= Cardinality(CutSaves(Append(ss, c)))
  BY DEF Damage
<1>1. PICK A, B, C, D, x, y :
        /\ A = AtRisk(f, ss) /\ B = AtRisk(e, Append(ss, c))
        /\ C = CutSaves(ss) /\ D = CutSaves(Append(ss, c)) /\ x = Len(e.lines) /\ y = Len(ss) + 1
  OBVIOUS
<1>2. B \subseteq A \cup (IF c.complete THEN {} ELSE {x}) /\ A \in SUBSET (1 .. Len(f.lines))
  BY <1>1, RiskGrows
<1>3. /\ Key0(ss) /\ D = C \cup (IF c.complete THEN {} ELSE {y})
      /\ C \in SUBSET (1 .. Len(ss)) /\ IsFiniteSet(C)
  BY <1>1, OneMoreSave
<1>4. Len(f.lines) \in Nat /\ Len(ss) \in Nat
  BY DEF Files
<1>5. IsFiniteSet(A)
  <2>1. IsFiniteSet(1 .. Len(f.lines))
    BY <1>4, FS_Interval
  <2> QED
    BY <2>1, <1>2, FS_Subset
<1>6. Cardinality(A) <= Cardinality(C) /\ Cardinality(A) \in Nat /\ Cardinality(C) \in Nat
  BY <1>1, <1>3, <1>5, FS_CardinalityType DEF Damage
<1>7. CASE c.complete
  <2>1. B \subseteq A /\ D = C
    BY <1>2, <1>3, <1>7
  <2>2. Cardinality(B) <= Cardinality(A) /\ Cardinality(B) \in Nat
    BY <2>1, <1>5, FS_Subset, FS_CardinalityType
  <2> QED
    BY <1>1, <1>6, <2>1, <2>2
<1>8. CASE ~c.complete
  <2>1. B \subseteq A \cup {x} /\ D = C \cup {y} /\ y \notin C
    BY <1>1, <1>2, <1>3, <1>4, <1>8
  <2>2. PICK Z, a, z : Z = A \cup {x} /\ a = Cardinality(A) /\ z = Cardinality(Z)
    OBVIOUS
  <2>3. a \in Nat /\ IsFiniteSet(Z) /\ (z = a \/ z = a + 1)
    <3>1. IsFiniteSet(Z) /\ Cardinality(Z) = IF x \in A THEN Cardinality(A) ELSE Cardinality(A) + 1
      BY <1>5, <2>2, FS_AddElement
    <3> QED
      BY <3>1, <1>6, <2>2
  <2>4. Cardinality(B) <= z /\ Cardinality(B) \in Nat
    <3>1. B \subseteq Z
      BY <2>1, <2>2
    <3> QED
      BY <3>1, <2>2, <2>3, FS_Subset, FS_CardinalityType
  <2>5. Cardinality(D) = Cardinality(C) + 1
    BY <2>1, <1>3, FS_AddElement
  <2> QED
    BY <1>1, <1>6, <2>2, <2>3, <2>4, <2>5
<1> QED
  BY <1>7, <1>8

(* While no save was cut, a save adds its lines behind those there are.    *)
LEMMA ExactStep ==
  ASSUME NEW f \in Files, NEW ss \in Seq(Copies), NEW c \in Copies,
         NEW T, Texts(c, T), T # <<>>, NEW g \in PsKeys, NEW e,
         e = [lines |-> Behind(f, T, g), open |-> ~c.complete], Exact(f, ss),
         \A k \in Kept(DOMAIN c.data) : \E i \in 1 .. Len(T) : T[i].key = k
  PROVE  Exact(e, Append(ss, c))
<1> SUFFICES ASSUME Key0(Append(ss, c)), CutSaves(Append(ss, c)) = {}
             PROVE  /\ ~e.open
                    /\ e.lines # <<>> => e.lines[1].key = 0
                    /\ \E src : IsSource(src, e, Append(ss, c))
  BY DEF Exact
<1>1. PICK L, n, ss2, s, t, q :
        /\ L = Behind(f, T, g) /\ n = Len(f.lines) /\ ss2 = Append(ss, c) /\ s = Len(ss) + 1
        /\ t = Len(T) /\ q = f.lines
  OBVIOUS
<1>2. Key0(ss) /\ (c.data = <<>> \/ 0 \in DOMAIN c.data) /\ CutSaves(ss) = {} /\ c.complete
  BY OneMoreSave
<1>3. /\ ~f.open
      /\ f.lines # <<>> => f.lines[1].key = 0
      /\ \E src : IsSource(src, f, ss)
  BY <1>2 DEF Exact
<1>4. PICK src : IsSource(src, f, ss)
  BY <1>3
<1>5. T \in Seq(Lines) /\ q \in Seq(Lines)
  BY <1>1 DEF Texts, Files
<1>6. n \in Nat /\ t \in Nat /\ t # 0 /\ DOMAIN f.lines = 1 .. n /\ s \in Nat
      /\ DOMAIN ss = 1 .. s - 1 /\ DOMAIN ss2 = 1 .. s /\ ss2[s] = c
      /\ \A i \in 1 .. s - 1 : ss2[i] = ss[i] /\ i < s
  <2>1. n \in Nat /\ t \in Nat /\ t # 0 /\ DOMAIN f.lines = 1 .. n
    BY <1>1, <1>5
  <2>2. s \in Nat /\ DOMAIN ss = 1 .. s - 1 /\ DOMAIN ss2 = 1 .. s /\ ss2[s] = c
        /\ \A i \in 1 .. s - 1 : ss2[i] = ss[i] /\ i < s
    BY <1>1
  <2> QED
    BY <2>1, <2>2
<1>7. /\ L \in Seq(Lines) /\ Len(L) = n + t
      /\ \A p \in 1 .. n : L[p] = q[p]
      /\ \A i \in 1 .. t : L[n + i] = T[i]
  <2>1. Before(f) = n
    BY <1>1, <1>3 DEF Before
  <2>2. /\ L \in Seq(Lines) /\ Len(L) = n + Len(T)
        /\ \A p \in 1 .. n : L[p] = f.lines[p]
        /\ \A i \in 1 .. Len(T) : L[n + i] = T[i]
    <3>1. LET M == Behind(f, T, g)
          IN  /\ M \in Seq(Lines) /\ Before(f) \in Nat
              /\ Len(M) = Before(f) + Len(T)
              /\ \A p \in 1 .. Before(f) : p \in 1 .. Len(f.lines) /\ M[p] = f.lines[p]
              /\ \A i \in 1 .. Len(T) : ~(f.open /\ i = 1) => M[Before(f) + i] = T[i]
      BY <1>3, <1>5, BehindLines
    <3> QED
      BY <3>1, <2>1, <1>1, <1>3
  <2> QED
    BY <1>1, <2>2
<1>8. e.lines = L /\ ~e.open /\ DOMAIN L = 1 .. n + t
  <2>1. e.lines = L /\ e.open = ~c.complete
    BY <1>1
  <2>2. DOMAIN L = 1 .. n + t
    BY <1>7
  <2> QED
    BY <2>1, <2>2, <1>2
<1>9. L[1].key = 0
  <2>1. CASE n = 0
    <3>1. L[1] = T[1] /\ T # <<>>
      BY <2>1, <1>6, <1>7
    <3> QED
      BY <3>1, <1>2 DEF Texts
  <2>2. CASE n # 0
    <3>1. L[1] = q[1] /\ q # <<>>
      BY <2>2, <1>1, <1>5, <1>6, <1>7
    <3> QED
      BY <3>1, <1>1, <1>3
  <2> QED
    BY <2>1, <2>2
<1> DEFINE src2 == [p \in 1 .. n + t |-> IF p <= n THEN src[p] ELSE s]
<1>10. ASSUME NEW p \in 1 .. n + t
       PROVE  \/ p \in 1 .. n /\ src2[p] = src[p] /\ src[p] \in 1 .. s - 1 /\ L[p] = q[p]
              \/ p > n /\ src2[p] = s /\ \E i \in 1 .. t : p = n + i /\ L[p] = T[i]
  <2>1. CASE p <= n
    <3>1. p \in 1 .. n
      BY <2>1, <1>6
    <3>2. src[p] \in 1 .. s - 1
      BY <3>1, <1>4, <1>6 DEF IsSource
    <3> QED
      BY <2>1, <3>1, <3>2, <1>7
  <2>2. CASE ~(p <= n)
    <3>1. p - n \in 1 .. t /\ p = n + (p - n) /\ p > n
      BY <2>2, <1>6
    <3>2. L[n + (p - n)] = T[p - n]
      BY <3>1, <1>7
    <3>3. L[p] = T[p - n]
      BY <3>1, <3>2
    <3> QED
      BY <2>2, <3>1, <3>3
  <2> QED
    BY <2>1, <2>2
<1>11. PICK h : h = src2
  OBVIOUS
<1>12. ASSUME NEW p \in 1 .. n + t
       PROVE  h[p] \in 1 .. s /\ IsOf(L[p], ss2[h[p]])
  <2>1. CASE p \in 1 .. n /\ src2[p] = src[p] /\ src[p] \in 1 .. s - 1 /\ L[p] = q[p]
    <3>1. IsOf(q[p], ss[src[p]])
      BY <2>1, <1>1, <1>4, <1>6 DEF IsSource
    <3>2. h[p] = src[p] /\ ss2[src[p]] = ss[src[p]] /\ src[p] \in 1 .. s
      BY <2>1, <1>6, <1>11
    <3> QED
      BY <2>1, <3>1, <3>2
  <2>2. CASE src2[p] = s /\ \E i \in 1 .. t : p = n + i /\ L[p] = T[i]
    <3>1. PICK i \in 1 .. t : L[p] = T[i]
      BY <2>2
    <3>2. IsOf(T[i], c)
      BY <1>1, <1>2, <3>1 DEF Texts
    <3>3. h[p] = s /\ s \in 1 .. s
      BY <2>2, <1>1, <1>6, <1>11
    <3> QED
      BY <3>1, <3>2, <3>3, <1>6
  <2> QED
    BY <1>10, <2>1, <2>2
<1>13. ASSUME NEW p \in 1 .. n + t, NEW r \in 1 .. n + t, p < r PROVE h[p] <= h[r]
  <2>1. CASE r \in 1 .. n
    <3>1. p \in 1 .. n
      BY <2>1, <1>6, <1>13
    <3>2. h[p] = src[p] /\ h[r] = src[r]
      BY <2>1, <3>1, <1>6, <1>10, <1>11
    <3> QED
      BY <2>1, <3>1, <3>2, <1>4, <1>6, <1>13 DEF IsSource
  <2>2. CASE r \notin 1 .. n
    <3>1. h[r] = s
      BY <2>2, <1>10, <1>11
    <3> QED
      BY <3>1, <1>6, <1>12
  <2> QED
    BY <2>1, <2>2
<1>14. ASSUME NEW i \in 1 .. s, NEW k \in Kept(DOMAIN ss2[i].data)
       PROVE  \E p \in 1 .. n + t : h[p] = i /\ L[p].key = k
  <2>1. CASE i = s
    <3>1. PICK j \in 1 .. t : T[j].key = k
      BY <2>1, <1>1, <1>6, <1>14
    <3>2. n + j \in 1 .. n + t /\ n + j > n
      BY <1>6
    <3>3. L[n + j] = T[j] /\ h[n + j] = s
      <4>1. n + j \notin 1 .. n
        BY <3>2, <1>6
      <4>2. h[n + j] = s
        BY <4>1, <3>2, <1>10, <1>11
      <4> QED
        BY <4>2, <1>7
    <3> QED
      BY <2>1, <3>1, <3>2, <3>3
  <2>2. CASE i # s
    <3>1. i \in 1 .. s - 1 /\ ss2[i] = ss[i]
      BY <2>2, <1>6
    <3>2. PICK p \in 1 .. n : src[p] = i /\ q[p].key = k
      <4>1. i \in DOMAIN ss /\ k \in Kept(DOMAIN ss[i].data)
        BY <3>1, <1>6, <1>14
      <4>2. \E p \in DOMAIN f.lines : src[p] = i /\ f.lines[p].key = k
        BY <4>1, <1>4 DEF IsSource
      <4> QED
        BY <4>2, <1>1, <1>6
    <3>3. p \in 1 .. n + t /\ h[p] = src[p] /\ L[p] = q[p]
      BY <1>6, <1>7, <1>10, <1>11
    <3> QED
      BY <3>2, <3>3
  <2> QED
    BY <2>1, <2>2
<1>15. h \in [1 .. n + t -> 1 .. s]
  <2>1. h = [p \in 1 .. n + t |-> h[p]]
    BY <1>11
  <2> HIDE DEF src2
  <2> QED
    BY <2>1, <1>12
<1>16. IsSource(h, e, ss2)
  <2> HIDE DEF src2
  <2>1. e.lines = L /\ DOMAIN e.lines = 1 .. n + t /\ DOMAIN ss2 = 1 .. s
    BY <1>6, <1>8
  <2>2. h \in [DOMAIN e.lines -> DOMAIN ss2]
    BY <2>1, <1>15
  <2>3. \A p \in DOMAIN e.lines : IsOf(e.lines[p], ss2[h[p]])
    BY <2>1, <1>12
  <2>4. \A p, r \in DOMAIN e.lines : p < r => h[p] <= h[r]
    BY <2>1, <1>13
  <2>5. ASSUME NEW i \in DOMAIN ss2, NEW k \in Kept(DOMAIN ss2[i].data)
        PROVE  \E p \in DOMAIN e.lines : h[p] = i /\ e.lines[p].key = k
    <3>1. PICK p \in 1 .. n + t : h[p] = i /\ L[p].key = k
      BY <2>1, <2>5, <1>14
    <3> QED
      BY <3>1, <2>1
  <2> QED
    BY <2>2, <2>3, <2>4, <2>5 DEF IsSource
<1> QED
  BY <1>1, <1>8, <1>9, <1>16

(* A save of nothing changes nothing. *)
LEMMA NothingSaved ==
  ASSUME NEW f \in Files, f.open => f.lines # <<>>, NEW ss \in Seq(Copies), NEW c \in Copies,
         Damage(f, ss), Exact(f, ss), c.complete, Kept(DOMAIN c.data) = {}
  PROVE  Damage(f, Append(ss, c)) /\ Exact(f, Append(ss, c))
<1>1. PICK ss2, s, A, B :
        ss2 = Append(ss, c) /\ s = Len(ss) + 1 /\ A = AtRisk(f, ss) /\ B = AtRisk(f, ss2)
  OBVIOUS
<1>2. CutSaves(ss2) = CutSaves(ss) /\ (Key0(ss2) => Key0(ss)) /\ IsFiniteSet(CutSaves(ss))
  BY <1>1, OneMoreSave
<1>3. Damage(f, ss2)
  <2>1. B \subseteq A
    BY <1>1, IntactStays DEF AtRisk
  <2>2. IsFiniteSet(A)
    <3>1. f.lines \in Seq(Lines)
      BY DEF Files
    <3>2. Len(f.lines) \in Nat /\ DOMAIN f.lines = 1 .. Len(f.lines)
      BY <3>1
    <3>3. A \in SUBSET (1 .. Len(f.lines))
      BY <1>1, <3>2 DEF AtRisk
    <3>4. IsFiniteSet(1 .. Len(f.lines))
      BY <3>2, FS_Interval
    <3> QED
      BY <3>3, <3>4, FS_Subset
  <2>3. Cardinality(B) <= Cardinality(A) /\ Cardinality(B) \in Nat /\ Cardinality(A) \in Nat
        /\ Cardinality(CutSaves(ss)) \in Nat
    BY <1>2, <2>1, <2>2, FS_Subset, FS_CardinalityType
  <2> QED
    BY <1>1, <1>2, <2>3 DEF Damage
<1>4. Exact(f, ss2)
  <2> SUFFICES ASSUME Key0(ss2), CutSaves(ss2) = {}
               PROVE  /\ ~f.open
                      /\ f.lines # <<>> => f.lines[1].key = 0
                      /\ \E src : IsSource(src, f, ss2)
    BY DEF Exact
  <2>1. /\ ~f.open
        /\ f.lines # <<>> => f.lines[1].key = 0
        /\ \E src : IsSource(src, f, ss)
    BY <1>2 DEF Exact
  <2>2. PICK src : IsSource(src, f, ss)
    BY <2>1
  <2>3. s \in Nat /\ DOMAIN ss = 1 .. s - 1 /\ DOMAIN ss2 = 1 .. s /\ ss2[s] = c
        /\ \A i \in 1 .. s - 1 : ss2[i] = ss[i] /\ i \in 1 .. s
    BY <1>1
  <2>4. src \in [DOMAIN f.lines -> DOMAIN ss2]
    <3>1. src \in [DOMAIN f.lines -> DOMAIN ss] /\ DOMAIN ss \subseteq DOMAIN ss2
      BY <2>2, <2>3 DEF IsSource
    <3> QED
      BY <3>1
  <2>5. \A p \in DOMAIN f.lines : IsOf(f.lines[p], ss2[src[p]])
    BY <2>2, <2>3 DEF IsSource
  <2>6. ASSUME NEW i \in DOMAIN ss2, NEW k \in Kept(DOMAIN ss2[i].data)
        PROVE  \E p \in DOMAIN f.lines : src[p] = i /\ f.lines[p].key = k
    <3>1. i # s
      BY <2>3, <2>6
    <3>2. i \in DOMAIN ss /\ ss2[i] = ss[i]
      BY <3>1, <2>3
    <3> QED
      BY <3>2, <2>2, <2>6 DEF IsSource
  <2>7. IsSource(src, f, ss2)
    BY <2>2, <2>4, <2>5, <2>6 DEF IsSource
  <2> QED
    BY <2>1, <2>7
<1> QED
  BY <1>1, <1>3, <1>4

-----------------------------------------------------------------------------
(* A number that lies in a set and bounds it is its Max. *)
LEMMA MaxOf ==
  ASSUME NEW N \in Nat, NEW S \in SUBSET (0 .. N), S # {}
  PROVE  Max(S) \in S /\ \A x \in S : x <= Max(S)
<1>1. PICK y \in S : \A x \in S : x <= y
  BY GreatestNat
<1>2. \E y2 \in S : \A x \in S : y2 >= x
  <2>1. \A x \in S : x \in Int
    OBVIOUS
  <2> QED
    BY <1>1, <2>1
<1>3. Max(S) \in S /\ \A x \in S : Max(S) >= x
  <2>1. Max(S) = CHOOSE y2 \in S : \A x \in S : y2 >= x
    BY DEF Max
  <2> QED
    BY <2>1, <1>2
<1>4. \A x \in S : x \in Int
  OBVIOUS
<1> QED
  BY <1>3, <1>4

(* What LoadModel makes of some lines: for each key its last line.         *)
LEMMA Loaded ==
  ASSUME NEW lines \in Seq(Lines)
  PROVE  LET used == {i \in DOMAIN lines : Used(lines, i)}
             loaded == LoadModel(lines)
         IN  /\ DOMAIN loaded = {KeyOf(lines, i) : i \in used}
             /\ \A k \in DOMAIN loaded :
                  \E p \in used : /\ KeyOf(lines, p) = k
                                  /\ loaded[k] = [val |-> lines[p].val, ok |-> lines[p].ok]
                                  /\ \A i \in used : KeyOf(lines, i) = k => i <= p
<1> DEFINE used == {i \in DOMAIN lines : Used(lines, i)}
           loaded == LoadModel(lines)
           of(k) == {i \in used : KeyOf(lines, i) = k}
<1>1. loaded = [k \in {KeyOf(lines, i) : i \in used} |->
                  [val |-> lines[Max(of(k))].val, ok |-> lines[Max(of(k))].ok]]
  BY DEF LoadModel
<1>2. DOMAIN loaded = {KeyOf(lines, i) : i \in used}
  BY <1>1
<1>3. ASSUME NEW k \in DOMAIN loaded
      PROVE  \E p \in used : /\ KeyOf(lines, p) = k
                             /\ loaded[k] = [val |-> lines[p].val, ok |-> lines[p].ok]
                             /\ \A i \in used : KeyOf(lines, i) = k => i <= p
  <2>1. of(k) # {} /\ of(k) \subseteq used
    BY <1>2
  <2>2. Len(lines) \in Nat /\ used \subseteq 0 .. Len(lines)
    OBVIOUS
  <2>3. PICK p : p = Max(of(k))
    OBVIOUS
  <2>4. p \in of(k) /\ \A x \in of(k) : x <= p
    <3>1. of(k) \in SUBSET (0 .. Len(lines))
      BY <2>1, <2>2
    <3> HIDE DEF of
    <3> QED
      BY <2>1, <2>2, <2>3, <3>1, MaxOf
  <2>5. loaded[k] = [val |-> lines[p].val, ok |-> lines[p].ok]
    BY <1>1, <1>2, <2>3
  <2> HIDE DEF loaded
  <2> QED
    BY <2>4, <2>5
<1> QED
  BY <1>2, <1>3

(* A weight that no save holds comes from a line at risk. *)
LEMMA HarmIsAtRisk ==
  ASSUME NEW f \in Files, NEW ss \in Seq(Copies), NEW k \in DOMAIN LoadModel(f.lines),
         LoadModel(f.lines)[k] \notin
            {[val |-> Fmt(ss[i].data[k]), ok |-> TRUE] :
               i \in {i \in DOMAIN ss : k \in Kept(DOMAIN ss[i].data)}}
  PROVE  \E p \in AtRisk(f, ss) : KeyOf(f.lines, p) = k
<1>1. f.lines \in Seq(Lines)
  BY DEF Files
<1>2. PICK p \in DOMAIN f.lines :
        /\ KeyOf(f.lines, p) = k
        /\ LoadModel(f.lines)[k] = [val |-> f.lines[p].val, ok |-> f.lines[p].ok]
  BY <1>1, Loaded
<1>3. ~Intact(f, ss, p)
  <2> SUFFICES ASSUME Intact(f, ss, p) PROVE FALSE
    OBVIOUS
  <2>1. PICK i \in DOMAIN ss : IsOf(f.lines[p], ss[i])
    BY DEF Intact
  <2>2. f.lines[p].key = k
    BY <1>2 DEF Intact, KeyOf
  <2>3. k \in Kept(DOMAIN ss[i].data) /\ f.lines[p].val = Fmt(ss[i].data[k]) /\ f.lines[p].ok
    BY <2>1, <2>2 DEF IsOf
  <2>4. f.lines[p].ok = TRUE
    <3>1. f.lines[p] \in Lines
      BY <1>1
    <3> QED
      BY <2>3, <3>1 DEF Lines
  <2>5. LoadModel(f.lines)[k] = [val |-> Fmt(ss[i].data[k]), ok |-> TRUE]
    BY <1>2, <2>3, <2>4
  <2> QED
    BY <2>3, <2>5
<1> QED
  BY <1>2, <1>3 DEF AtRisk

(* The lines at risk bound the harm.                                       *)
LEMMA HarmBounded ==
  ASSUME SaveTypes, FileInv PROVE DamageBounded
<1> SUFFICES ASSUME NEW m \in DOMAIN file, HasKey0(m)
             PROVE  LET loaded == LoadModel(file[m].lines)
                        cuts == {i \in DOMAIN saves[m] : ~saves[m][i].complete}
                        harmed == {k \in DOMAIN loaded :
                          loaded[k] \notin {[val |-> Fmt(saves[m][i].data[k]), ok |-> TRUE] : i \in Holding(m, k)}}
                    IN Cardinality(harmed) <= Cardinality(cuts)
  BY DEF DamageBounded
<1>1. PICK f, ss : f = file[m] /\ ss = saves[m]
  OBVIOUS
<1> DEFINE loaded == LoadModel(f.lines)
           harmed == {k \in DOMAIN loaded :
             loaded[k] \notin {[val |-> Fmt(ss[i].data[k]), ok |-> TRUE] :
                                 i \in {i \in DOMAIN ss : k \in Kept(DOMAIN ss[i].data)}}}
<1>2. f \in Files /\ ss \in Seq(Copies) /\ HistoryInv(f, ss) /\ Key0(ss)
  BY <1>1 DEF SaveTypes, FileInv, HasKey0, Key0
<1>3. PICK A, C : A = AtRisk(f, ss) /\ C = CutSaves(ss)
  OBVIOUS
<1>4. Cardinality(A) <= Cardinality(C)
  BY <1>2, <1>3 DEF HistoryInv, Damage
<1>5. IsFiniteSet(A) /\ IsFiniteSet(C)
  <2>1. f.lines \in Seq(Lines)
    BY <1>2 DEF Files
  <2>2. Len(f.lines) \in Nat /\ Len(ss) \in Nat
    BY <1>2, <2>1
  <2>3. A \in SUBSET (1 .. Len(f.lines)) /\ C \in SUBSET (1 .. Len(ss))
    BY <1>2, <1>3, <2>1 DEF AtRisk, CutSaves
  <2>4. IsFiniteSet(1 .. Len(f.lines)) /\ IsFiniteSet(1 .. Len(ss))
    BY <2>2, FS_Interval
  <2> QED
    BY <2>3, <2>4, FS_Subset
<1> DEFINE key == [p \in A |-> KeyOf(f.lines, p)]
           K == {key[p] : p \in A}
<1>6. harmed \subseteq K
  <2>1. \A k \in harmed : \E p \in A : KeyOf(f.lines, p) = k
    BY <1>2, <1>3, HarmIsAtRisk
  <2> QED
    BY <2>1
<1>7. IsFiniteSet(K) /\ Cardinality(K) <= Cardinality(A)
  <2>1. key \in Surjection(A, K)
    BY DEF Surjection
  <2> HIDE DEF key, K
  <2> QED
    BY <2>1, <1>5, FS_Surjection
<1>8. Cardinality(harmed) <= Cardinality(K)
  <2> HIDE DEF harmed, K
  <2> QED
    BY <1>6, <1>7, FS_Subset
<1>9. Cardinality(harmed) <= Cardinality(C)
  <2>1. IsFiniteSet(harmed)
    <3> HIDE DEF harmed, K
    <3> QED
      BY <1>6, <1>7, FS_Subset
  <2>2. PICK a, b, c, d : /\ a = Cardinality(harmed) /\ b = Cardinality(K)
                          /\ c = Cardinality(A) /\ d = Cardinality(C)
    OBVIOUS
  <2>3. a \in Nat /\ b \in Nat /\ c \in Nat /\ d \in Nat
    <3> HIDE DEF harmed, K
    <3> QED
      BY <2>1, <2>2, <1>5, <1>7, FS_CardinalityType
  <2>4. a <= b /\ b <= c /\ c <= d
    <3> HIDE DEF harmed, K
    <3> QED
      BY <2>2, <1>4, <1>7, <1>8
  <2>5. a <= d
    BY <2>3, <2>4
  <2> QED
    BY <2>2, <2>5
<1>10. harmed = {k \in DOMAIN LoadModel(file[m].lines) :
                   LoadModel(file[m].lines)[k] \notin
                     {[val |-> Fmt(saves[m][i].data[k]), ok |-> TRUE] : i \in Holding(m, k)}}
  BY <1>1 DEF Holding
<1>11. C = {i \in DOMAIN saves[m] : ~saves[m][i].complete}
  BY <1>1, <1>3 DEF CutSaves
<1> HIDE DEF harmed
<1> QED
  BY <1>9, <1>10, <1>11

(* With a source for each line, the last line of a key is that of the last *)
(* save that kept it.                                                      *)
LEMMA LastLine ==
  ASSUME NEW f \in Files, NEW ss \in Seq(Copies), NEW src, IsSource(src, f, ss),
         f.lines # <<>> => f.lines[1].key = 0
  PROVE  LET loaded == LoadModel(f.lines)
             of(k) == {i \in DOMAIN ss : k \in Kept(DOMAIN ss[i].data)}
         IN  /\ \A k : k \in DOMAIN loaded <=> of(k) # {}
             /\ \A k \in DOMAIN loaded :
                  loaded[k] = [val |-> Fmt(ss[Max(of(k))].data[k]), ok |-> TRUE]
<1> DEFINE lines == f.lines
           loaded == LoadModel(lines)
           of(k) == {i \in DOMAIN ss : k \in Kept(DOMAIN ss[i].data)}
<1>1. lines \in Seq(Lines) /\ DOMAIN lines = 1 .. Len(lines) /\ Len(lines) \in Nat
  BY DEF Files
<1>2. ASSUME NEW p \in DOMAIN lines
      PROVE  /\ Used(lines, p) /\ KeyOf(lines, p) = lines[p].key
             /\ src[p] \in of(lines[p].key) /\ lines[p].ok = TRUE
             /\ lines[p].val = Fmt(ss[src[p]].data[lines[p].key])
  <2>1. IsOf(lines[p], ss[src[p]]) /\ src[p] \in DOMAIN ss
    BY DEF IsSource
  <2>2. KeyOf(lines, p) = lines[p].key
    <3>1. p = 1 => lines # <<>>
      BY <1>1
    <3> QED
      BY <3>1 DEF KeyOf
  <2>3. lines[p].ok = TRUE
    <3>1. lines[p] \in Lines
      BY <1>1
    <3> QED
      BY <2>1, <3>1 DEF IsOf, Lines
  <2> QED
    BY <2>1, <2>2, <2>3 DEF IsOf, Used
<1>3. {i \in DOMAIN lines : Used(lines, i)} = DOMAIN lines
  BY <1>2
<1>4. /\ DOMAIN loaded = {KeyOf(lines, i) : i \in DOMAIN lines}
      /\ \A k \in DOMAIN loaded :
           \E p \in DOMAIN lines : /\ KeyOf(lines, p) = k
                           /\ loaded[k] = [val |-> lines[p].val, ok |-> lines[p].ok]
                           /\ \A i \in DOMAIN lines : KeyOf(lines, i) = k => i <= p
  <2> HIDE DEF lines, loaded
  <2>1. loaded = LoadModel(lines)
    BY DEF loaded
  <2> QED
    BY <1>1, <1>3, <2>1, Loaded
<1> HIDE DEF lines
<1>5. ASSUME NEW k PROVE k \in DOMAIN loaded <=> of(k) # {}
  <2>1. ASSUME k \in DOMAIN loaded PROVE of(k) # {}
    <3>1. PICK p \in DOMAIN lines : KeyOf(lines, p) = k
      BY <1>4, <2>1
    <3> QED
      BY <3>1, <1>2
  <2>2. ASSUME of(k) # {} PROVE k \in DOMAIN loaded
    <3>1. PICK i \in DOMAIN ss : k \in Kept(DOMAIN ss[i].data)
      BY <2>2
    <3>2. PICK p \in DOMAIN lines : lines[p].key = k
      BY <3>1 DEF IsSource, lines
    <3>3. KeyOf(lines, p) = k
      BY <3>2, <1>2
    <3> QED
      BY <3>3, <1>4
  <2> QED
    BY <2>1, <2>2
<1>6. ASSUME NEW k \in DOMAIN loaded
      PROVE  loaded[k] = [val |-> Fmt(ss[Max(of(k))].data[k]), ok |-> TRUE]
  <2>1. PICK p \in DOMAIN lines : /\ KeyOf(lines, p) = k
                           /\ loaded[k] = [val |-> lines[p].val, ok |-> lines[p].ok]
                           /\ \A i \in DOMAIN lines : KeyOf(lines, i) = k => i <= p
    BY <1>4
  <2>2. lines[p].key = k /\ src[p] \in of(k) /\ loaded[k] = [val |-> Fmt(ss[src[p]].data[k]), ok |-> TRUE]
    BY <2>1, <1>2
  <2>3. PICK x : x = Max(of(k))
    OBVIOUS
  <2>4. x \in of(k) /\ \A y \in of(k) : y <= x
    <3>1. Len(ss) \in Nat /\ of(k) \in SUBSET (0 .. Len(ss)) /\ of(k) # {}
      BY <2>2
    <3> HIDE DEF of
    <3> QED
      BY <3>1, <2>3, MaxOf
  <2>5. PICK q \in DOMAIN lines : src[q] = x /\ lines[q].key = k
    BY <2>4 DEF IsSource, lines
  <2>6. q <= p
    BY <2>1, <2>5, <1>2
  <2>7. src[q] <= src[p]
    <3>1. q < p \/ q = p
      BY <2>6, <1>1
    <3>2. q = p => src[q] = src[p] /\ src[q] \in Int
      BY <2>2
    <3>3. q < p => src[q] <= src[p]
      BY DEF IsSource, lines
    <3> QED
      BY <3>1, <3>2, <3>3
  <2>8. src[p] = x
    <3>1. src[p] <= x /\ src[p] \in Int /\ x \in Int
      BY <2>2, <2>4
    <3> QED
      BY <3>1, <2>5, <2>7
  <2> HIDE DEF loaded, of
  <2> QED
    BY <2>2, <2>3, <2>8
<1> QED
  BY <1>5, <1>6 DEF lines

(* So a file without a cut reads back.                                     *)
LEMMA ReadsBack ==
  ASSUME SaveTypes, FileInv PROVE RoundTrip
<1> SUFFICES ASSUME NEW m \in DOMAIN file, saves[m] # <<>>, HasKey0(m),
                    \A i \in DOMAIN saves[m] : saves[m][i].complete
             PROVE  LET loaded == LoadModel(file[m].lines)
                    IN /\ DOMAIN loaded = {k \in UNION {DOMAIN saves[m][i].data : i \in DOMAIN saves[m]} : Holding(m, k) # {}}
                       /\ \A k \in DOMAIN loaded :
                            loaded[k] = [val |-> Fmt(saves[m][Max(Holding(m, k))].data[k]), ok |-> TRUE]
                       /\ LET s == saves[m][Len(saves[m])]
                          IN ~s.raced => \A k \in Kept(s.keys) : \E v \in s.had[k] : loaded[k].val = Fmt(v)
  BY DEF RoundTrip
<1>1. PICK f, ss, loaded : f = file[m] /\ ss = saves[m] /\ loaded = LoadModel(f.lines)
  OBVIOUS
<1>2. f \in Files /\ ss \in Seq(Copies) /\ HistoryInv(f, ss) /\ Key0(ss) /\ ss # <<>>
  BY <1>1 DEF SaveTypes, FileInv, HasKey0, Key0
<1>3. CutSaves(ss) = {}
  BY <1>1 DEF CutSaves
<1>4. (f.lines # <<>> => f.lines[1].key = 0) /\ \E src : IsSource(src, f, ss)
  BY <1>2, <1>3 DEF HistoryInv, Exact
<1>5. \A k : Holding(m, k) = {i \in DOMAIN ss : k \in Kept(DOMAIN ss[i].data)}
  BY <1>1 DEF Holding
<1>6. /\ \A k : k \in DOMAIN loaded <=> Holding(m, k) # {}
      /\ \A k \in DOMAIN loaded :
           loaded[k] = [val |-> Fmt(ss[Max(Holding(m, k))].data[k]), ok |-> TRUE]
  <2> DEFINE of(k) == {i \in DOMAIN ss : k \in Kept(DOMAIN ss[i].data)}
  <2>1. /\ \A k : k \in DOMAIN LoadModel(f.lines) <=> of(k) # {}
        /\ \A k \in DOMAIN LoadModel(f.lines) :
             LoadModel(f.lines)[k] = [val |-> Fmt(ss[Max(of(k))].data[k]), ok |-> TRUE]
    BY <1>2, <1>4, LastLine
  <2>2. \A k : of(k) = Holding(m, k)
    BY <1>5
  <2> HIDE DEF of
  <2> QED
    BY <2>1, <2>2, <1>1
<1>7. \A i \in DOMAIN ss : Kept(DOMAIN ss[i].data) \subseteq DOMAIN ss[i].data
  BY DEF Kept
<1>8. DOMAIN loaded = {k \in UNION {DOMAIN ss[i].data : i \in DOMAIN ss} : Holding(m, k) # {}}
  <2>1. ASSUME NEW k \in DOMAIN loaded PROVE \E i \in DOMAIN ss : k \in DOMAIN ss[i].data
    BY <1>5, <1>6, <1>7
  <2> QED
    BY <2>1, <1>6
<1>9. ASSUME NEW s, s = ss[Len(ss)], ~s.raced, NEW k \in Kept(s.keys)
      PROVE  \E v \in s.had[k] : loaded[k].val = Fmt(v)
  <2>1. Len(ss) \in DOMAIN ss /\ Len(ss) \in Nat /\ DOMAIN ss = 1 .. Len(ss)
    BY <1>2
  <2>2. DOMAIN s.data = s.keys /\ \A j \in s.keys : s.data[j] \in s.had[j]
    BY <1>2, <1>9, <2>1 DEF HistoryInv, Unspoilt
  <2>3. Len(ss) \in Holding(m, k)
    BY <1>5, <1>9, <2>1, <2>2
  <2>4. Max(Holding(m, k)) = Len(ss)
    <3>1. PICK S : S = Holding(m, k)
      OBVIOUS
    <3>2. S \in SUBSET (0 .. Len(ss)) /\ S # {}
      BY <1>5, <2>1, <2>3, <3>1
    <3>3. Max(S) \in S /\ \A x \in S : x <= Max(S)
      BY <2>1, <3>2, MaxOf
    <3>4. Len(ss) <= Max(S) /\ Max(S) \in 0 .. Len(ss)
      BY <2>3, <3>1, <3>2, <3>3
    <3>5. Max(S) = Len(ss)
      BY <2>1, <3>4
    <3> QED
      BY <3>1, <3>5
  <2>5. loaded[k].val = Fmt(s.data[k])
    BY <1>6, <1>9, <2>3, <2>4
  <2>6. s.data[k] \in s.had[k]
    BY <1>9, <2>2 DEF Kept
  <2> QED
    BY <2>5, <2>6
<1> QED
  BY <1>1, <1>6, <1>8, <1>9

-----------------------------------------------------------------------------
(* Changing or adding one entry of a map.                                  *)
LEMMA PutMap ==
  ASSUME NEW V, NEW h \in MapsTo(V), NEW k \in PsKeys, NEW v \in V
  PROVE  Put(h, k, v) \in MapsTo(V)
<1>1. PICK D \in SUBSET PsKeys : h \in [D -> V]
  BY DEF MapsTo
<1>2. Put(h, k, v) \in [D \cup {k} -> V]
  BY <1>1 DEF Put
<1>3. D \cup {k} \in SUBSET PsKeys
  OBVIOUS
<1> QED
  BY <1>1, <1>2, <1>3 DEF MapsTo

LEMMA NoMap == \A V : <<>> \in MapsTo(V)
<1> TAKE V
<1>1. <<>> \in [{} -> V]
  <2>1. <<>> \in Seq(V) /\ Len(<<>>) = 0
    OBVIOUS
  <2>2. <<>> \in [1 .. Len(<<>>) -> V]
    BY <2>1
  <2>3. 1 .. 0 = {}
    OBVIOUS
  <2> QED
    BY <2>1, <2>2, <2>3
<1> QED
  BY <1>1 DEF MapsTo

LEMMA MapDomain ==
  ASSUME NEW V, NEW h \in MapsTo(V)
  PROVE  DOMAIN h \in SUBSET PsKeys /\ \A k \in DOMAIN h : h[k] \in V
  BY DEF MapsTo

LEMMA SaverStart ==
  ASSUME NEW stage \in {"sleep", "copy"}, NEW due \in Nat PROVE Saver(stage, due) \in Savers
<1>1. <<>> \in MapsTo(Int) /\ <<>> \in MapsTo(SUBSET Int)
  BY NoMap
<1> QED
  BY <1>1 DEF Saver, Savers

(* The invariant at the start.                                             *)
SaveInv == SaveTypes /\ FileInv /\ CopyInv

LEMMA SaveStart == SaveInit => SaveInv
<1> SUFFICES ASSUME SaveInit PROVE SaveInv
  OBVIOUS
<1>1. SaveTypes
  <2>1. W \in MapsTo(Int)
    BY NoMap DEF SaveInit
  <2>2. saver \in Savers
    BY ModelFileAssumption, SaverStart DEF SaveInit
  <2>3. NoFile \in Files
    BY DEF NoFile, Files
  <2>4. file \in [0 .. Day - 1 -> Files] /\ saves \in [0 .. Day - 1 -> Seq(Copies)]
    BY <2>3 DEF SaveInit
  <2> QED
    BY <2>1, <2>2, <2>4 DEF SaveInit, SaveTypes
<1>2. ASSUME NEW m \in DOMAIN file PROVE HistoryInv(file[m], saves[m])
  <2>1. file[m] = NoFile /\ saves[m] = <<>>
    BY <1>2 DEF SaveInit
  <2>2. AtRisk(NoFile, <<>>) = {} /\ CutSaves(<<>>) = {}
    BY DEF AtRisk, CutSaves, NoFile
  <2>3. Damage(NoFile, <<>>)
    BY <2>2, FS_EmptySet DEF Damage
  <2>4. IsSource(<<>>, NoFile, <<>>)
    BY DEF IsSource, NoFile
  <2>5. Exact(NoFile, <<>>)
    BY <2>4 DEF Exact, NoFile
  <2> QED
    BY <2>1, <2>3, <2>5 DEF HistoryInv, NoFile
<1>3. CopyInv
  BY DEF SaveInit, CopyInv, Saver
<1> QED
  BY <1>1, <1>2, <1>3 DEF SaveInv, FileInv

-----------------------------------------------------------------------------
(* Writing a text to a file keeps what is known of the file.               *)
LEMMA HistoryStep ==
  ASSUME NEW f \in Files, NEW ss \in Seq(Copies), HistoryInv(f, ss),
         NEW c \in Copies, Unspoilt(c), NEW T, Texts(c, T), NEW g \in PsKeys,
         c.complete => \A k \in Kept(DOMAIN c.data) : \E i \in 1 .. Len(T) : T[i].key = k,
         ~c.complete => T # <<>>
  PROVE  /\ Appended(f, T, g, ~c.complete) \in Files
         /\ HistoryInv(Appended(f, T, g, ~c.complete), Append(ss, c))
<1>1. PICK e, ss2 : e = Appended(f, T, g, ~c.complete) /\ ss2 = Append(ss, c)
  OBVIOUS
<1>2. /\ f.open => f.lines # <<>>
      /\ Damage(f, ss) /\ Exact(f, ss) /\ \A i \in DOMAIN ss : Unspoilt(ss[i])
  BY DEF HistoryInv
<1>3. T \in Seq(Lines)
  BY DEF Texts
<1>4. \A i \in DOMAIN ss2 : Unspoilt(ss2[i])
  <2>1. DOMAIN ss2 = 1 .. Len(ss) + 1 /\ DOMAIN ss = 1 .. Len(ss) /\ ss2[Len(ss) + 1] = c
        /\ Len(ss) \in Nat /\ \A i \in 1 .. Len(ss) : ss2[i] = ss[i]
    BY <1>1
  <2>2. \A i \in DOMAIN ss2 : i \in DOMAIN ss \/ i = Len(ss) + 1
    BY <2>1
  <2> QED
    BY <2>1, <2>2, <1>2
<1>5. CASE T = <<>>
  <2>1. c.complete /\ Kept(DOMAIN c.data) = {} /\ e = f
    BY <1>1, <1>3, <1>5 DEF Appended
  <2>2. Damage(f, ss2) /\ Exact(f, ss2)
    BY <1>1, <1>2, <2>1, NothingSaved
  <2> QED
    BY <1>1, <1>2, <1>4, <2>1, <2>2 DEF HistoryInv
<1>6. CASE T # <<>>
  <2>1. e = [lines |-> Behind(f, T, g), open |-> ~c.complete]
    BY <1>1, <1>6 DEF Appended
  <2>2. Damage(e, ss2)
    BY <1>1, <1>2, <1>6, <2>1, DamageStep
  <2>3. Exact(e, ss2)
    <3>1. CASE c.complete
      BY <1>1, <1>2, <1>6, <2>1, <3>1, ExactStep
    <3>2. CASE ~c.complete
      <4>1. Len(ss) + 1 \in CutSaves(ss2)
        BY <1>1, <3>2, OneMoreSave
      <4> QED
        BY <4>1 DEF Exact
    <3> QED
      BY <3>1, <3>2
  <2>4. Behind(f, T, g) \in Seq(Lines) /\ Behind(f, T, g) # <<>>
    <3>1. PICK L : L = Behind(f, T, g)
      OBVIOUS
    <3>2. L \in Seq(Lines) /\ Before(f) \in Nat /\ Len(L) = Before(f) + Len(T)
      BY <1>2, <1>3, <1>6, <3>1, BehindLines
    <3>3. Len(T) \in Nat /\ Len(T) # 0
      BY <1>3, <1>6
    <3>4. Len(L) # 0
      BY <3>2, <3>3
    <3>5. L # <<>>
      BY <3>4
    <3> QED
      BY <3>1, <3>2, <3>5
  <2>5. e \in Files /\ (e.open => e.lines # <<>>)
    <3>1. c.complete \in BOOLEAN
      BY DEF Copies
    <3> QED
      BY <2>1, <2>4, <3>1 DEF Files
  <2> QED
    BY <1>1, <1>4, <2>2, <2>3, <2>5 DEF HistoryInv
<1> QED
  BY <1>5, <1>6

(* What is saved after a finished copy. *)
LEMMA CopyDone ==
  ASSUME SaveTypes, CopyInv, saver.pc = "copy", saver.todo = {}, NEW complete \in BOOLEAN
  PROVE  /\ Saved(complete) \in Copies /\ Unspoilt(Saved(complete))
         /\ Saved(complete).data = saver.data /\ Saved(complete).complete = complete
<1>1. saver \in Savers
  BY DEF SaveTypes
<1>2. Saved(complete) \in Copies
  BY <1>1 DEF Savers, Saved, Copies
<1>3. ~saver.raced => DOMAIN saver.data = saver.keys
                      /\ \A k \in saver.keys : saver.data[k] \in saver.had[k]
  BY DEF CopyInv
<1>4. Unspoilt(Saved(complete))
  BY <1>3 DEF Unspoilt, Saved
<1> QED
  BY <1>2, <1>4 DEF Saved

LEMMA WrittenStep ==
  ASSUME SaveTypes, FileInv, CopyInv, NEW T, NEW complete \in BOOLEAN, Written(T, complete),
         Texts(Saved(complete), T), ~complete => T # <<>>,
         complete => \A k \in Kept(DOMAIN saver.data) : \E i \in 1 .. Len(T) : T[i].key = k
  PROVE  /\ file' \in [0 .. Day - 1 -> Files] /\ saves' \in [0 .. Day - 1 -> Seq(Copies)]
         /\ FileInv'
<1>1. PICK c : c = Saved(complete)
  OBVIOUS
<1>2. c \in Copies /\ Unspoilt(c) /\ c.data = saver.data /\ c.complete = complete
  BY <1>1, CopyDone DEF Written
<1>3. PICK g \in PsKeys : file' = [file EXCEPT ![Minute] = Appended(@, T, g, ~c.complete)]
  BY <1>2 DEF Written, PsKeys
<1>4. saves' = [saves EXCEPT ![Minute] = Append(@, c)]
  BY <1>1 DEF Written
<1>5. PICK m : m = Minute
  OBVIOUS
<1>6. file \in [0 .. Day - 1 -> Files] /\ saves \in [0 .. Day - 1 -> Seq(Copies)]
  BY DEF SaveTypes
<1>7. m \in 0 .. Day - 1
  <2>1. clock \in Nat /\ Day \in Nat \ {0}
    BY ModelFileAssumption DEF SaveTypes
  <2> QED
    BY <1>5, <2>1 DEF Minute
<1>8. file[m] \in Files /\ saves[m] \in Seq(Copies) /\ HistoryInv(file[m], saves[m])
  BY <1>6, <1>7 DEF FileInv
<1>9. /\ Appended(file[m], T, g, ~c.complete) \in Files
      /\ HistoryInv(Appended(file[m], T, g, ~c.complete), Append(saves[m], c))
  BY <1>1, <1>2, <1>8, HistoryStep
<1>10. PICK e, ss : e = Appended(file[m], T, g, ~c.complete) /\ ss = Append(saves[m], c)
  OBVIOUS
<1>11. file' = [file EXCEPT ![m] = e] /\ saves' = [saves EXCEPT ![m] = ss]
  BY <1>3, <1>4, <1>5, <1>10
<1>12. e \in Files /\ ss \in Seq(Copies) /\ HistoryInv(e, ss)
  BY <1>2, <1>8, <1>9, <1>10
<1>13. file' \in [0 .. Day - 1 -> Files] /\ saves' \in [0 .. Day - 1 -> Seq(Copies)]
  BY <1>6, <1>11, <1>12
<1>14. ASSUME NEW d \in 0 .. Day - 1 PROVE HistoryInv(file'[d], saves'[d])
  <2>1. CASE d = m
    BY <2>1, <1>6, <1>7, <1>11, <1>12
  <2>2. CASE d # m
    <3>1. file'[d] = file[d] /\ saves'[d] = saves[d] /\ d \in DOMAIN file
      BY <2>2, <1>6, <1>11
    <3> QED
      BY <3>1 DEF FileInv
  <2> QED
    BY <2>1, <2>2
<1>15. FileInv'
  <2>1. DOMAIN file' = 0 .. Day - 1
    BY <1>13
  <2> QED
    BY <2>1, <1>14 DEF FileInv
<1> QED
  BY <1>13, <1>15

(* The process dies. *)
LEMMA DeathStep ==
  ASSUME SaveTypes, Die
  PROVE  /\ W' \in MapsTo(Int) /\ req' \in Seq(PsKeys) /\ clock' \in Nat /\ saver' \in Savers
         /\ CopyInv'
<1>1. clock \in Nat /\ clock + save_frequence \in Nat
  BY ModelFileAssumption DEF SaveTypes
<1>2. saver' = Saver("sleep", clock + save_frequence) /\ W' = <<>> /\ req' = <<>> /\ clock' = clock
  BY DEF Die
<1>3. saver' \in Savers
  BY <1>1, <1>2, SaverStart
<1>4. saver'.pc = "sleep"
  BY <1>2 DEF Saver
<1>5. CopyInv'
  BY <1>4 DEF CopyInv
<1> QED
  BY <1>1, <1>2, <1>3, <1>5, NoMap

(* A text as it is written, and as it is cut. *)
LEMMA WholeText ==
  ASSUME NEW c \in Copies
  PROVE  Texts(c, Text(c.data))
  BY TextLines DEF Texts

LEMMA CutText ==
  ASSUME NEW c \in Copies, ~c.complete, NEW n \in DOMAIN Text(c.data), NEW l \in Cuts(Text(c.data)[n])
  PROVE  /\ Texts(c, Append(SubSeq(Text(c.data), 1, n - 1), l))
         /\ Append(SubSeq(Text(c.data), 1, n - 1), l) # <<>>
<1>1. PICK T : T = Text(c.data)
  OBVIOUS
<1>2. T \in Seq(Lines) /\ Texts(c, T) /\ \A i \in 1 .. Len(T) : IsOf(T[i], c)
  BY <1>1, TextLines, WholeText
<1>3. n \in 1 .. Len(T) /\ T[n] \in Lines /\ Len(T) \in Nat
  BY <1>1, <1>2
<1>4. l \in Lines /\ l.key = T[n].key
  <2>1. PICK a : a = T[n]
    OBVIOUS
  <2>2. a \in Lines /\ l \in Cuts(a)
    BY <1>1, <1>3, <2>1
  <2>3. l = Line(1, a.key, a.val, TRUE) \/ l = [a EXCEPT !.ok = FALSE] \/ l = a
    BY <2>2 DEF Cuts
  <2>4. Line(1, a.key, a.val, TRUE) \in Lines /\ [a EXCEPT !.ok = FALSE] \in Lines
    <3>1. Line(1, a.key, a.val, TRUE) \in Lines
      BY <2>2 DEF Line, Lines
    <3>2. [a EXCEPT !.ok = FALSE] \in Lines
      BY <2>2 DEF Lines
    <3> QED
      BY <3>1, <3>2
  <2>5. l \in Lines
    BY <2>2, <2>3, <2>4
  <2>6. l.key = a.key
    <3>1. Line(1, a.key, a.val, TRUE).key = a.key
      BY DEF Line
    <3>2. [a EXCEPT !.ok = FALSE].key = a.key
      BY <2>2 DEF Lines
    <3> QED
      BY <2>3, <3>1, <3>2
  <2> QED
    BY <2>1, <2>5, <2>6
<1>5. PICK q : q = SubSeq(T, 1, n - 1)
  OBVIOUS
<1>6. q \in Seq(Lines) /\ Len(q) = n - 1 /\ \A i \in 1 .. n - 1 : q[i] = T[i]
  BY <1>2, <1>3, <1>5
<1>7. PICK r : r = Append(q, l)
  OBVIOUS
<1>8. r \in Seq(Lines) /\ Len(r) = n /\ r[n] = l /\ r # <<>>
      /\ \A i \in 1 .. n - 1 : r[i] = T[i]
  <2>1. r \in Seq(Lines) /\ Len(r) = Len(q) + 1 /\ r[Len(q) + 1] = l
        /\ \A i \in 1 .. Len(q) : r[i] = q[i]
    BY <1>4, <1>6, <1>7
  <2>2. Len(q) + 1 = n
    BY <1>3, <1>6
  <2>3. r # <<>>
    BY <2>1, <2>2, <1>3
  <2> QED
    BY <2>1, <2>2, <2>3, <1>6
<1>9. ASSUME NEW i \in 1 .. Len(r), i < Len(r) PROVE IsOf(r[i], c)
  <2>1. i \in 1 .. n - 1 /\ i \in 1 .. Len(T)
    BY <1>3, <1>8, <1>9
  <2> QED
    BY <2>1, <1>2, <1>8
<1>10. r[1].key = T[1].key
  <2>1. CASE n = 1
    BY <2>1, <1>4, <1>8
  <2>2. CASE n # 1
    <3>1. 1 \in 1 .. n - 1
      BY <2>2, <1>3
    <3> QED
      BY <3>1, <1>8
  <2> QED
    BY <2>1, <2>2
<1>11. T # <<>>
  BY <1>3
<1>12. Texts(c, r)
  BY <1>2, <1>8, <1>9, <1>10, <1>11 DEF Texts
<1> QED
  BY <1>1, <1>5, <1>7, <1>8, <1>12

-----------------------------------------------------------------------------
(* Write: the whole text. *)
LEMMA WriteStep ==
  ASSUME SaveInv, Write PROVE SaveInv'
<1> USE DEF SaveInv
<1>1. PICK c : c = Saved(TRUE)
  OBVIOUS
<1>2. saver.pc = "copy" /\ saver.todo = {}
  BY DEF Write, Written
<1>3. c \in Copies /\ c.data = saver.data /\ c.complete
  BY <1>1, <1>2, CopyDone
<1>4. Written(Text(saver.data), TRUE)
  BY DEF Write
<1>5. Texts(c, Text(saver.data))
      /\ \A k \in Kept(DOMAIN saver.data) : \E i \in 1 .. Len(Text(saver.data)) : Text(saver.data)[i].key = k
  <2>1. Texts(c, Text(c.data))
    BY <1>3, WholeText
  <2>2. \A k \in Kept(DOMAIN c.data) : \E i \in 1 .. Len(Text(c.data)) : Text(c.data)[i].key = k
    BY <1>3, TextLines
  <2> QED
    BY <2>1, <2>2, <1>3
<1>6. file' \in [0 .. Day - 1 -> Files] /\ saves' \in [0 .. Day - 1 -> Seq(Copies)] /\ FileInv'
  <2> HIDE DEF SaveInv
  <2>1. SaveTypes /\ FileInv /\ CopyInv
    BY DEF SaveInv
  <2> QED
    BY <2>1, <1>1, <1>4, <1>5, WrittenStep
<1>7. saver' = Saver("sleep", clock + save_frequence) /\ UNCHANGED <<W, req, clock>>
  BY DEF Write
<1>8. saver' \in Savers
  <2>1. clock + save_frequence \in Nat
    BY ModelFileAssumption DEF SaveTypes
  <2> QED
    BY <2>1, <1>7, SaverStart
<1>9. SaveTypes'
  BY <1>6, <1>7, <1>8 DEF SaveTypes
<1>10. CopyInv'
  <2>1. saver'.pc = "sleep"
    BY <1>7 DEF Saver
  <2> QED
    BY <2>1 DEF CopyInv
<1> QED
  BY <1>6, <1>9, <1>10

(* WriteCut: a part of it, and the death of the process. *)
LEMMA WriteCutStep ==
  ASSUME SaveInv, WriteCut PROVE SaveInv'
<1>0. SaveTypes /\ FileInv /\ CopyInv
  BY DEF SaveInv
<1>1. PICK c : c = Saved(FALSE)
  OBVIOUS
<1>2a. PICK n \in DOMAIN Text(saver.data) : \E l \in Cuts(Text(saver.data)[n]) :
         Written(Append(SubSeq(Text(saver.data), 1, n - 1), l), FALSE)
  BY DEF WriteCut
<1>2. PICK l \in Cuts(Text(saver.data)[n]) :
        Written(Append(SubSeq(Text(saver.data), 1, n - 1), l), FALSE)
  BY <1>2a
<1>3. saver.pc = "copy" /\ saver.todo = {}
  BY <1>2 DEF Written
<1>4. c \in Copies /\ c.data = saver.data /\ ~c.complete
  BY <1>0, <1>1, <1>3, CopyDone
<1>5. PICK T : T = Append(SubSeq(Text(saver.data), 1, n - 1), l)
  OBVIOUS
<1>6. Texts(c, T) /\ T # <<>>
  BY <1>2, <1>4, <1>5, CutText
<1>7. file' \in [0 .. Day - 1 -> Files] /\ saves' \in [0 .. Day - 1 -> Seq(Copies)] /\ FileInv'
  BY <1>0, <1>1, <1>2, <1>5, <1>6, WrittenStep
<1>8. Die
  BY DEF WriteCut
<1>9. W' \in MapsTo(Int) /\ req' \in Seq(PsKeys) /\ clock' \in Nat /\ saver' \in Savers /\ CopyInv'
  BY <1>0, <1>8, DeathStep
<1> QED
  BY <1>7, <1>9 DEF SaveInv, SaveTypes

(* The death of the process at any other time. *)
LEMMA CrashStep ==
  ASSUME SaveInv, Die, UNCHANGED <<file, saves>> PROVE SaveInv'
<1>0. SaveTypes /\ FileInv
  BY DEF SaveInv
<1>1. W' \in MapsTo(Int) /\ req' \in Seq(PsKeys) /\ clock' \in Nat /\ saver' \in Savers /\ CopyInv'
  BY <1>0, DeathStep
<1>2. FileInv'
  BY <1>0 DEF FileInv
<1>3. SaveTypes'
  BY <1>0, <1>1 DEF SaveTypes
<1> QED
  BY <1>1, <1>2, <1>3 DEF SaveInv

(* Wake: the copy begins. *)
LEMMA WakeStep ==
  ASSUME SaveInv, Wake PROVE SaveInv'
<1>0. SaveTypes /\ FileInv
  BY DEF SaveInv
<1>1. PICK had : had = [k \in DOMAIN W |-> {W[k]}]
  OBVIOUS
<1>2. saver' = [Saver("copy", 0) EXCEPT !.todo = DOMAIN W, !.keys = DOMAIN W, !.had = had]
      /\ UNCHANGED <<W, req, clock, file, saves>>
  BY <1>1 DEF Wake
<1>3. W \in MapsTo(Int) /\ DOMAIN W \in SUBSET PsKeys /\ \A k \in DOMAIN W : W[k] \in Int
  BY <1>0, MapDomain DEF SaveTypes
<1>4. had \in MapsTo(SUBSET Int)
  <2>1. had \in [DOMAIN W -> SUBSET Int]
    BY <1>1, <1>3
  <2> QED
    BY <2>1, <1>3 DEF MapsTo
<1>5. saver' = [pc |-> "copy", due |-> 0, todo |-> DOMAIN W, data |-> <<>>, keys |-> DOMAIN W,
                had |-> had, raced |-> FALSE]
  BY <1>2 DEF Saver
<1>6. saver' \in Savers
  BY <1>3, <1>4, <1>5, NoMap DEF Savers
<1>7. CopyInv'
  <2>1. DOMAIN <<>> = {}
    OBVIOUS
  <2>2. /\ saver'.todo = DOMAIN W /\ saver'.keys = DOMAIN W /\ saver'.had = had
        /\ saver'.data = <<>> /\ W' = W
    <3>1. W' = W
      BY <1>2
    <3> QED
      BY <3>1, <1>5
  <2>3. DOMAIN had = DOMAIN W /\ \A k \in DOMAIN W : W[k] \in had[k]
    BY <1>1
  <2> QED
    BY <2>1, <2>2, <2>3 DEF CopyInv
<1>8. SaveTypes' /\ FileInv'
  BY <1>0, <1>2, <1>6 DEF SaveTypes, FileInv
<1> QED
  BY <1>7, <1>8 DEF SaveInv

(* Copy: one key more. *)
LEMMA CopyStep ==
  ASSUME SaveInv, Copy PROVE SaveInv'
<1>0. SaveTypes /\ FileInv /\ CopyInv
  BY DEF SaveInv
<1>1. PICK k \in saver.todo :
        saver' = [saver EXCEPT !.todo = @ \ {k}, !.data = Put(@, k, W[k])]
  BY DEF Copy
<1>2. saver.pc = "copy" /\ UNCHANGED <<W, req, clock, file, saves>>
  BY DEF Copy
<1>3. W \in MapsTo(Int) /\ saver \in Savers /\ saver.data \in MapsTo(Int)
  BY <1>0 DEF SaveTypes, Savers
<1>4. k \in DOMAIN W /\ k \in PsKeys /\ W[k] \in Int
  <2>1. k \in DOMAIN W
    BY <1>0, <1>1, <1>2 DEF CopyInv
  <2> QED
    BY <2>1, <1>3, MapDomain
<1>5. PICK data : data = Put(saver.data, k, W[k])
  OBVIOUS
<1>6. /\ data \in MapsTo(Int) /\ DOMAIN data = DOMAIN saver.data \cup {k}
      /\ data[k] = W[k] /\ \A j \in DOMAIN saver.data : j # k => data[j] = saver.data[j]
  <2>1. Put(saver.data, k, W[k]) \in MapsTo(Int)
    BY <1>3, <1>4, PutMap
  <2>2. /\ DOMAIN Put(saver.data, k, W[k]) = DOMAIN saver.data \cup {k}
        /\ Put(saver.data, k, W[k])[k] = W[k]
        /\ \A j \in DOMAIN saver.data : j # k => Put(saver.data, k, W[k])[j] = saver.data[j]
    BY DEF Put
  <2> QED
    BY <2>1, <2>2, <1>5
<1>7. saver' = [saver EXCEPT !.todo = @ \ {k}, !.data = data]
  BY <1>1, <1>5
<1>8. saver' \in Savers
  BY <1>3, <1>6, <1>7 DEF Savers
<1>9. /\ saver'.pc = "copy" /\ saver'.todo = saver.todo \ {k} /\ saver'.data = data
      /\ saver'.keys = saver.keys /\ saver'.had = saver.had /\ saver'.raced = saver.raced
  BY <1>2, <1>3, <1>7 DEF Savers
<1>10. CopyInv'
  <2>1. DOMAIN saver.had = DOMAIN W /\ saver.todo \subseteq DOMAIN W
    BY <1>0, <1>2 DEF CopyInv
  <2>2. ASSUME ~saver.raced
        PROVE  /\ DOMAIN W = saver.keys /\ DOMAIN data = saver.keys \ (saver.todo \ {k})
               /\ \A j \in saver.keys : W[j] \in saver.had[j]
               /\ \A j \in DOMAIN data : data[j] \in saver.had[j]
    <3>1. /\ DOMAIN W = saver.keys /\ DOMAIN saver.data = saver.keys \ saver.todo
          /\ \A j \in saver.keys : W[j] \in saver.had[j]
          /\ \A j \in DOMAIN saver.data : saver.data[j] \in saver.had[j]
      BY <1>0, <1>2, <2>2 DEF CopyInv
    <3>2. DOMAIN data = saver.keys \ (saver.todo \ {k})
      BY <3>1, <1>1, <1>4, <1>6
    <3>3. \A j \in DOMAIN data : data[j] \in saver.had[j]
      BY <3>1, <1>4, <1>6
    <3> QED
      BY <3>1, <3>2, <3>3
  <2> QED
    BY <1>2, <1>9, <2>1, <2>2 DEF CopyInv
<1>11. SaveTypes' /\ FileInv'
  BY <1>0, <1>2, <1>8 DEF SaveTypes, FileInv
<1> QED
  BY <1>10, <1>11 DEF SaveInv

(* Access: a request reads or writes the weight of a key, which may be new.*)
LEMMA AccessStep ==
  ASSUME SaveInv, NEW v \in Weights, Access(v) PROVE SaveInv'
<1>0. SaveTypes /\ FileInv /\ CopyInv
  BY DEF SaveInv
<1>1. PICK k : k = Head(req)
  OBVIOUS
<1>2. k \in PsKeys /\ Tail(req) \in Seq(PsKeys) /\ v \in Int
  <2>1. req \in Seq(PsKeys) /\ req # <<>> /\ Weights \subseteq Int
    BY <1>0, ModelFileAssumption DEF Access, SaveTypes
  <2> QED
    BY <1>1, <2>1
<1>3. W' = Put(W, k, v) /\ req' = Tail(req) /\ UNCHANGED <<clock, file, saves>>
  BY <1>1 DEF Access
<1>4. W \in MapsTo(Int) /\ saver \in Savers /\ saver.had \in MapsTo(SUBSET Int)
  BY <1>0 DEF SaveTypes, Savers
<1>5. /\ W' \in MapsTo(Int) /\ DOMAIN W' = DOMAIN W \cup {k}
      /\ W'[k] = v /\ \A j \in DOMAIN W : j # k => W'[j] = W[j]
  <2>1. Put(W, k, v) \in MapsTo(Int)
    BY <1>2, <1>4, PutMap
  <2>2. /\ DOMAIN Put(W, k, v) = DOMAIN W \cup {k}
        /\ Put(W, k, v)[k] = v /\ \A j \in DOMAIN W : j # k => Put(W, k, v)[j] = W[j]
    BY DEF Put
  <2> QED
    BY <2>1, <2>2, <1>3
<1>6. DOMAIN W \in SUBSET PsKeys
  BY <1>4, MapDomain
<1>7. saver' \in Savers /\ CopyInv'
  <2>1. CASE saver.pc # "copy"
    <3>1. saver' = saver
      BY <2>1 DEF Access
    <3> QED
      BY <2>1, <3>1, <1>4 DEF CopyInv
  <2>2. CASE saver.pc = "copy"
    <3>1. PICK more : more = {v} \cup IF k \in DOMAIN W THEN saver.had[k] ELSE {}
      OBVIOUS
    <3>2. PICK had : had = Put(saver.had, k, more)
      OBVIOUS
    <3>3. DOMAIN saver.had = DOMAIN W /\ saver.todo \subseteq DOMAIN W
      BY <1>0, <2>2 DEF CopyInv
    <3>4. more \in SUBSET Int
      <4>1. k \in DOMAIN W => saver.had[k] \in SUBSET Int
        BY <1>4, <3>3, MapDomain
      <4> QED
        BY <4>1, <3>1, <1>2
    <3>5. /\ had \in MapsTo(SUBSET Int) /\ DOMAIN had = DOMAIN W \cup {k}
          /\ had[k] = more /\ \A j \in DOMAIN W : j # k => had[j] = saver.had[j]
      <4>1. Put(saver.had, k, more) \in MapsTo(SUBSET Int)
        BY <1>2, <1>4, <3>4, PutMap
      <4>2. /\ DOMAIN Put(saver.had, k, more) = DOMAIN saver.had \cup {k}
            /\ Put(saver.had, k, more)[k] = more
            /\ \A j \in DOMAIN saver.had : j # k => Put(saver.had, k, more)[j] = saver.had[j]
        BY DEF Put
      <4> QED
        BY <4>1, <4>2, <3>2, <3>3
    <3>6. \/ k \in DOMAIN W /\ saver' = [saver EXCEPT !.had = had]
          \/ k \notin DOMAIN W /\ \E t \in SUBSET (DOMAIN W \cup {k}) :
                saver' = [saver EXCEPT !.had = had, !.raced = TRUE, !.todo = t]
      BY <2>2, <1>1, <3>1, <3>2 DEF Access
    <3>7. CASE k \in DOMAIN W /\ saver' = [saver EXCEPT !.had = had]
      <4>1. saver' \in Savers
        BY <3>5, <3>7, <1>4 DEF Savers
      <4>2. /\ saver'.pc = "copy" /\ saver'.todo = saver.todo /\ saver'.data = saver.data
            /\ saver'.keys = saver.keys /\ saver'.had = had /\ saver'.raced = saver.raced
        BY <2>2, <3>7, <1>4 DEF Savers
      <4>3. DOMAIN W' = DOMAIN W /\ DOMAIN had = DOMAIN W
        BY <3>5, <3>7, <1>5
      <4>4. ASSUME ~saver.raced
            PROVE  /\ DOMAIN W' = saver.keys /\ DOMAIN saver.data = saver.keys \ saver.todo
                   /\ \A j \in saver.keys : W'[j] \in had[j]
                   /\ \A j \in DOMAIN saver.data : saver.data[j] \in had[j]
        <5>1. /\ DOMAIN W = saver.keys /\ DOMAIN saver.data = saver.keys \ saver.todo
              /\ \A j \in saver.keys : W[j] \in saver.had[j]
              /\ \A j \in DOMAIN saver.data : saver.data[j] \in saver.had[j]
          BY <1>0, <2>2, <4>4 DEF CopyInv
        <5>2. \A j \in DOMAIN W : saver.had[j] \subseteq had[j]
          BY <3>1, <3>5
        <5>3. v \in had[k]
          BY <3>1, <3>5
        <5>4. \A j \in saver.keys : W'[j] \in had[j]
          BY <5>1, <5>3, <3>5, <1>5
        <5>5. \A j \in DOMAIN saver.data : saver.data[j] \in had[j]
          BY <5>1, <5>2
        <5> QED
          BY <4>3, <5>1, <5>4, <5>5
      <4>5. CopyInv'
        BY <4>2, <4>3, <4>4, <3>3 DEF CopyInv
      <4> QED
        BY <4>1, <4>5
    <3>8. ASSUME NEW t \in SUBSET (DOMAIN W \cup {k}),
                 saver' = [saver EXCEPT !.had = had, !.raced = TRUE, !.todo = t]
          PROVE  saver' \in Savers /\ CopyInv'
      <4>1. t \in SUBSET PsKeys
        BY <1>2, <1>6
      <4>2. saver' \in Savers
        BY <3>5, <3>8, <4>1, <1>4 DEF Savers
      <4>3. saver'.todo = t /\ saver'.had = had /\ saver'.raced
        BY <3>8, <1>4 DEF Savers
      <4>4. DOMAIN saver'.had = DOMAIN W' /\ saver'.todo \subseteq DOMAIN W'
        BY <4>3, <3>5, <1>5
      <4> QED
        BY <4>2, <4>3, <4>4 DEF CopyInv
    <3> QED
      BY <3>6, <3>7, <3>8
  <2> QED
    BY <2>1, <2>2
<1>8. SaveTypes' /\ FileInv'
  BY <1>0, <1>2, <1>3, <1>5, <1>7 DEF SaveTypes, FileInv
<1> QED
  BY <1>7, <1>8 DEF SaveInv

(* Every step. *)
LEMMA SaveStep == SaveInv /\ [SaveNext]_saveVars => SaveInv'
<1> SUFFICES ASSUME SaveInv, [SaveNext]_saveVars PROVE SaveInv'
  OBVIOUS
<1>1. CASE UNCHANGED saveVars
  BY <1>1 DEF saveVars, SaveInv, SaveTypes, FileInv, CopyInv
<1>2. CASE End
  BY <1>2 DEF End, saveVars, SaveInv, SaveTypes, FileInv, CopyInv
<1>3. CASE AssignFtrl
  BY <1>3 DEF AssignFtrl, SaveInv, SaveTypes, FileInv, CopyInv
<1>4. CASE Tick
  BY <1>4 DEF Tick, SaveInv, SaveTypes, FileInv, CopyInv
<1>5. CASE Wake
  BY <1>5, WakeStep
<1>6. CASE WakeEarly
  BY <1>6, CrashStep DEF WakeEarly
<1>7. CASE Copy
  BY <1>7, CopyStep
<1>8. CASE Write
  BY <1>8, WriteStep
<1>9. CASE WriteCut
  BY <1>9, WriteCutStep
<1>10. CASE Crash
  BY <1>10, CrashStep DEF Crash
<1>11. ASSUME NEW r \in RequestKeys, Receive(r) PROVE SaveInv'
  <2>1. r \in Seq(PsKeys)
    BY ModelFileAssumption DEF PsKeys
  <2> QED
    BY <1>11, <2>1 DEF Receive, SaveInv, SaveTypes, FileInv, CopyInv
<1>12. ASSUME NEW v \in Weights, Access(v) PROVE SaveInv'
  BY <1>12, AccessStep
<1> QED
  BY <1>1, <1>2, <1>3, <1>4, <1>5, <1>6, <1>7, <1>8, <1>9, <1>10, <1>11, <1>12 DEF SaveNext

-----------------------------------------------------------------------------
(* For all keys, weights, requests, limits and crashes: a file whose saves *)
(* were all finished reads back as the last value written for each key,    *)
(* and as weights of the time of the last copy if nothing was inserted     *)
(* meanwhile (ps_server.cpp 52-72, learner.cpp 125-141).                   *)
THEOREM SavedModelReadsBack == SaveSpec => []RoundTrip
<1>1. SaveInv => RoundTrip
  BY ReadsBack DEF SaveInv
<1> QED
  BY <1>1, SaveStart, SaveStep, PTL DEF SaveSpec

(* And each crash in a write harms the weight of at most one key of what   *)
(* is later read (ps_server.cpp 57-73).                                    *)
THEOREM CutHarmsOneKey == SaveSpec => []DamageBounded
<1>1. SaveInv => DamageBounded
  BY HarmBounded DEF SaveInv
<1> QED
  BY <1>1, SaveStart, SaveStep, PTL DEF SaveSpec
=============================================================================
