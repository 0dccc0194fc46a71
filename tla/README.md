# Verification of ftrl-online-pslite

The program trains logistic-regression models online. Worker processes read two
Kafka streams (impressions and user behaviours), gather them into batches, and
for every application ("learner") pull weights from a parameter server, compute
a gradient and push it; the server applies FTRL-proximal. This directory models
that pipeline in TLA+, checks it with TLC on small instances, and proves the
central safety results with TLAPS for all sizes. `PROJECT.json` lists components,
runs, mutants, the map from definitions to source lines, findings, hazards and
theorems. Line numbers below refer to the files under `src/src/` unless a path
is given.

## 1. Inventory

| Part | State | Operations | Talks to |
| --- | --- | --- | --- |
| `main.cpp`, `SampleKafka` | `stat`, the exit flag | construct learners, parser and consumers; start and join two threads | all |
| `MessageKafka` (one per stream) | partitions, `rkq`, `newset`, `lastset`, `trueset` | `Init`, `Process`, `Stop` | librdkafka, calls `Parser::Process` |
| `Parser` | `sample_0/1`, `Ys_imp/bhv`, `_idx_0/1`, `cntl`, `mutex_flag`, seen maps | `parse_sample_0/1`, `Process` (by two threads) | calls `CheckImp`, `CheckLabel`, `GetData` |
| `Learner` (one per application) | `samples`, `num_sample`, two semaphores, caches `W` and `P`, `stat` | constructor, `GetData` (impression thread), `Start`/`update` (own thread) | `KVWorker` pull, push, wait |
| label rules (`x_learner.cpp`) | none | `CheckLabel`, `CheckImp` | called by `Parser` |
| `PSS`, `Ftrl` (one per application, on the server) | `W`, `Z`, `N`, `acc`, `set_flag`, `alpha..l2` | `StartFtrl`, `handle_request`, `update`, `set_weight`, `set_paramfromkv`, `SyncToRedis` | `KVServer`, model files |
| ps-lite | requests, responses | slicing, send, process | binary library with headers |
| INI reader (`ini.cc`, `INIReader`) | section, previous name, values | `ini_parse`, `ValueHandler`, `Get` | called by `main` |
| `Redis.h` | connection, pending replies | `get`, `mget`, `set`, `mdel`, `mset_expire`, ... | hiredis; not used at this commit |
| `tools/` (older program) | as `Parser`, with a thread pool | `Merge` (by two threads) | thread pool, `LWorker` (not in the repository) |
| `RecordLog`, `Logger`, `ftrl_fm`, `deps/` | logs | | not modelled, see 7 |

What is hard:

* **Two threads in `Parser::Process`** share counters and arrays with only the
  `volatile bool mutex_flag`, which the behaviour thread tests before it writes
  and the impression thread lowers while it flushes (318-359).
* **Hand-over to the update thread** through `sem_done`/`sem_ready`
  (`learner.cpp` 168-189); a flush waits for every learner in turn.
* **Caches across batches**: `W` and `P` keep old entries (224-227).
* **Several processes** start in any order (`main.cpp:55`, no barrier): who
  loads the model, who sets parameters, and when the server's handler exists.
* **Restart of the Kafka partitions** every hour at their ends, with messages
  in flight (`message_kafka.cpp` 112-135).
* **A saver thread** copies the map of weights while requests insert into it,
  and appends to a file that a crash may have cut (`ps_server.cpp` 43-75).
* **Pipelined replies**: a batch of Redis commands that is left early leaves
  its replies to the next command (`utils/Redis.h` 161-231).
* **A lazily kept optimum**: `Z` and `N` stand for the whole history of a
  coordinate (`ftrl.cpp` 34-46), while `set_weight` changes `W` alone.

What makes each part correct: the parser gives batches that fit, are not mixed
and contain each impression once; the learner trains on exactly the labelled
part of the batch it was given and pushes its gradient; the server holds model
and parameters before training; the consumer gives each message at most once,
in order; the optimizer's weight is the minimiser it stands for; a saved model
reads back; a behaviour has one label, and its advertisement the impressions it
is compared with; a setting is what the file says; a Redis call returns the
answer to its own command; a worker reads its own partitions, with all its
learners made.

## 2. Modules

| Module | Models | Extended by |
| --- | --- | --- |
| `Parser` | `io/parser.cpp`, both threads of one worker, GetData as a call that returns when the learner is done | `ParserProofs`, `MCParser` |
| `Learner` | `core/learner.cpp`: `GetData`, `Start`, `update`, `predict`, `caculate_gradient`; server external | `LearnerProofs`, `MCLearner` |
| `Handoff` | abstract one-place hand-over that `Parser` relies on | instantiated by `Learner` |
| `ParamServer` | `StartFtrl`, `handle_request`, the `Learner` constructor and training requests of several workers | `ParamServerProofs`, `MCParamServer` |
| `Ftrl` | `optimizer/ftrl.cpp`; the arithmetic is a parameter | `FtrlProofs`, `MCFtrl` |
| `Fractions` | exact fractions, the arithmetic TLC evaluates | `MCFtrl` |
| `Consumer` | `io/message_kafka.cpp` `Process`; librdkafka external | `ConsumerProofs`, `MCConsumer` |
| `Startup` | `main.cpp`, `io/sample_kafka.cpp`, `MessageKafka::Init`: a server and workers with their options | `StartupProofs`, `MCStartup` |
| `ModelFile` | `PSS::SyncToRedis` against requests and crashes, `Learner::LoadModel` | `ParamServerProofs`, `MCModelFile` |
| `Labels` | `core/x_learner.cpp`, the checks of `parse_sample_0/1`, `find_kv`, `isUInt64`, and `Parse_sample_1` of `tools/learner.cpp` | `LabelsProofs`, `MCLabels` |
| `ToolsMerge` | `Merge` of `tools/learner.cpp`, both threads and the pool | `LabelsProofs`, `MCToolsMerge` |
| `Redis` | `utils/Redis.h`; hiredis external | `FtrlProofs`, `MCRedis` |
| `Config` | `utils/ini.cc`, `utils/INIReader.cpp` | `StartupProofs`, `MCConfig` |
| `SeqFilter` | `Subsequence`, the items of a sequence at some of its positions | `SeqFilterProofs`; used by `Learner`, `Consumer`, `Labels`, `Startup`, `Config`, `ModelFile` |

Some proof modules extend two models, which have nothing else in common; one of
the two then has prefixed names (`SaveSpec`, `MergeSpec`, `ReaderSpec`,
`FtrlSpec`).

**Parser.** Actions named `Bhv...` are the behaviour thread, `Imp...` the
impression thread. Accesses to state the other thread uses are separate steps:
the tests of `mutex_flag` (`BhvSpin`) and of the limit (`BhvRoom`, `BhvDrop`),
the label, length, ctr and features of a slot (`BhvLabel`, `BhvLength`,
`BhvCtr`, `BhvMem`), and load and store of `_idx_1++` and `cntl[1]++`. The copy
of the features (331) reads `_idx_1` twice, for the slot and for the length it
copies, in either order and with a flush possibly in between (`BhvMemArg`,
`BhvMem`): `mem` is the message whose features were copied, `words` the message
whose length they were copied with. Steps on
thread-private state are joined (`ImpRecv`, `ImpAppend`). The flush is
`ImpTest`, `ImpReset`, `ImpLock`, `ImpSnap`, `ImpCopy`..., `ImpGive`,
`ImpClear`, `ImpUnlock`. A message is a model value with its mark; whether it
parses is part of it.

**Learner.** `gd` and `up` are the program counters and locals of `GetData` and
of the update thread. Reals are integers with `One` for 1.0, and the sigmoid and
the server's step are parameters, so nothing depends on their shape. One server
suffices: `extract_feature` makes keys of positive `int`s, which all fall into
the key range of the first server.

**ParamServer.** A weight is abstracted to whether it came from the model and
how many gradients followed. Requests are in `net` until handled, in any order.
A restarted worker has a new `life`; its old requests stay and their answers are
not seen. A push without keys (no model file) is sent to nobody
(`deps/include/ps/kv_app.h` 467-504).

**Ftrl.** The three kinds of push in any order on `W`, `Z`, `N`; `log` keeps
gradients with the weight they met, from which the reference is computed.
Numbers and their operations are constants: TLC takes reduced fractions
(`Fractions`), the proofs any arithmetic with the laws of an ordered field
(`OrderedField`). Gradients are pushed whose sum of squares has a root, in the
real numbers all of them.

**Consumer.** `pc` follows `Process`: `loop`, `handle`, `restart`, `await`,
`true`. librdkafka's thread resolves the end of a partition some time after
the start, appends messages in order, and appends an event at the end of a
partition (`enable.partition.eof`, on by default in the version in `deps/`).
`consume_stop` drops what is queued of the partition.

**Startup.** Options, the settings found in the file and the validity of the
brokers are chosen in `Init` and stay, and so do the applications whose saving
thread the server can create. `pc` and `k` follow `main`. The server makes an
application in two steps, `NewServer` (from which on requests are received) and
`SetHandle`; a request in between aborts the process (`Abort`), as in
`ParamServer`. The constructor of a learner sends one to three requests
(`NewLearner`), of which `due` are not answered yet (`Answer`), and returns when
none is left (`Constructed`); `ParamServer` has what they do. A request for an
application that does not exist waits, as long as `GetCustomer` lets it
(`deps/include/ps/internal/postoffice.h` 51-57); after that it is lost or the
server's process ends, which the binary library decides (`Timeout`). `apps`,
`handled`, `learners`, `partitions` and `consumer` are what the processes have
made.

**ModelFile.** Requests change the weights one key at a time. The copy of the
map takes one key per step in any order; an insertion in between makes what is
left to visit arbitrary, or kills the process (`Crash`). The text is written in
one step, or in part with the death of the process (`WriteCut`), which also
stands for a file read while it is written. A line is its number of
comma-separated fields, its key and its value in units of the eighth decimal,
with a mark if it was cut or run together. `LoadModel` is an operator on lines.
A key that a cut has joined of two may be any up to `MaxKey`.

**Labels.** A message is a record of what the checks of both programs see of it:
the tags found in its text, whether it has all its lines and parts, its code,
filter and extension. The line of the impression, which an impression and its
behaviours both carry, is given by the mark (`lineOf`): whether it was shown, its
sections `fraud` and `ad` (the old program asks for 6 parts of `ad`, the new one
for 10), its rank, and the programs that find features in it. Each program's
checks are split at its repeat filter, because a message refused before it is
not counted and one refused behind it is (`Counts0`, `Takes0`, `Reads1`,
`ReadsTools`, `Listed`). `apart` remembers behaviours of which a message was
refused by the checks of one program and not by those of the other. `find_kv`
is the search for a substring it is: an item of an extension has the fields whose
names occur in its name (`of`) and in its value (`in`). The state is what the
repeat filters have seen and which samples each learner got.

**ToolsMerge.** As `Parser`, but here the behaviour thread flushes, the
impression thread polls, and the flush waits for tasks of a pool by spinning on
their flags.

**Redis.** Commands are numbered, so that a reply can be compared with the
command it is returned for. `obuf`, `sock` and `reader` are the stages of a
hiredis connection. `connect` is part of every call.

**Config.** One action per kind of line; `roles` remembers what the parser took
each line for, and the properties compute the settings anew from it.

## 3. Runs

| Run | Instance | Shows |
| --- | --- | --- |
| `parser_races` | 2 impressions and 3 behaviours that may be repeated, a rejected one, flush at 1, behaviour limit 2, 2 learners | batch fits, the copied slots are stable, only the first behaviour of a batch may be mixed of several messages or have its features copied with another's length, a flush loses at most one behaviour, every impression is delivered exactly once, and every flush ends |
| `learner_handoff` | batches of different length, labels and features, foreign pushes | exclusion, exact copy, pushed gradient = reference gradient, a worker reads its own pushes, refinement of `Handoff` with its liveness |
| `server_start` | 2 workers, one without file and parameters, two restarts each | model and parameters precede training; no new loader once the flag is set; constructors return |
| `server_no_handler` | 1 worker | *violation*: the assertion at `kv_app.h:386` |
| `ftrl_objective` | 1 key, 4 gradients out of 7 values, 2 loads, 2 parameter sets | `W` minimises the FTRL objective; a gradient moves a weight by no more than its own step and the way back to where `Z`, `N` and the parameters in force put it |
| `consumer_offsets` | 2 partitions of 3 messages, 2 restarts | at most once, in order, loss only at restarts, report brackets what was read; the wait after a restart ends, the hour ends when a message is there |
| `cluster_start` | a server, 2 workers, options -n 1 and 2, index 1 for both or none and 1, any known names, valid brokers and saving threads, constructors of up to 2 requests | a stream is read only with all learners made; partitions follow the index; a worker the server can serve comes to run both streams unless a request comes before its handler or times out, and always once the server has left its loop |
| `model_file` | 3 keys, 2 requests, 2 saves to one file, 2 crashes, limit of 1 + 1 lines | what is loaded is what was saved last; one harmed key per cut write |
| `labels_streams` | 7 lines (one passes all checks, one of another bid type, five fail one check each), 2 messages of both streams over 34 codes (the whole ig table), 3 filters, 3 sets of tags, 10 extensions | what both programs' checks treat alike, both label alike; a positive has its impression unless that has a short fraud section; fields are a message's own unless text in front holds their name |
| `tools_merge` | 3 impressions, 2 behaviours and a rejected one, flush at 1, limits 2 and 1, one worker | a flush loses at most one impression, flushes end |
| `redis_pipeline` | 4 commands, batches of up to 2 | reads return their own answers; every success without an abandoned batch has its answer |
| `config_lines` | every file of 4 lines out of 18 | a setting is exactly its own lines in order; what a continuation is |

Bounds. Parser sizes are scaled down so that the limits are met: the behaviour
limit is reached, two flushes happen, and repeats occur before and after one.
The real sizes satisfy the same assumption (100 + 2000 <= 10000) under which the
theorems hold, and those cover the thresholds above 1 at which the race on
`cntl[1]` matters. Two batches and a longer one before a shorter one are what
`CopyExact` and `PushIsGradient` need (stale slots, stale positions). Two
workers suffice for the loading race: a worker and its earlier lives, whose
pushes are still on the way, are loaders as well. Gradients 3, 4, 12 keep the
sums of squares 9, 16, 25, 169 squares, so the roots are exact. Two partitions
show that one's restart leaves the other's queue alone. Two messages are a
behaviour and its repeat, or a behaviour and its impression in either order.

In `cluster_start` two workers show both distinct and equal partitions, a worker
whose early request aborts the server under the other, and different -n of
server and worker a request that times out; a constructor with two requests can
be cut between them, which a third would not change. In `model_file` two
saves to one file stand for the same minute of two days, two crashes for a
joined line that is cut again, and two lines out of three keys for the cut of
the list; `save_frequence` 0 lets the saver run at any time, which includes what
larger ones allow. In `redis_pipeline` two commands of a batch and two more are
what a stale reply needs. In `config_lines` four lines hold a header, a
setting, a continuation and a second header, and names are cut to one part.

Deadlock is checked except in `server_start`, where after the
server process aborts the workers wait for ever, as in the code, and in
`redis_pipeline`, where `mget` after a failed connection ends the process.

### What the runs teach about the code

* The first behaviour slot of a batch can really be torn: a thread that passed
  the test of `mutex_flag` before the flush and was stopped writes slot 0 after
  `_idx_1 = 0`. If it was stopped between the length and the features, it copies
  the features with the length that slot 0 had from an earlier message: too few
  of them, or memory behind the vector. A late store of `_idx_1++` after the reset delivers behaviours
  again, a late reset loses one. `TornOnlyFirst` and `LossAtMostOnePerFlush`
  bound the damage; both are tight.
* `"$M"` for `"%M"` in three `strftime` calls makes the midnight branches dead;
  the seen maps are never emptied. `ImpExactlyOnce` holds because of it, and its
  mutant (`%M`) breaks it: emptying in the middle of the stream forgets repeats.
* Two workers may both be told to load, and the later push resets weights that
  are already being trained; `NoNewLoader` says that this ends with the loaders
  told before the flag was set.
* `set_weight` leaves `Z` and `N`, and `set_paramfromkv` changes what they stand
  for. The first gradient of a key after either, even one of 0, takes its weight
  back to where `Z`, `N` and the new parameters put it, which may be far from
  where the load has put it or from where it was. `StepBounded` counts this
  distance (`Away`) apart from the step of the gradient itself; after a gradient
  it is 0 until the next load or change.
* The wait after the hourly restart ends on a silent topic only thanks to the
  end-of-partition event; with `enable.partition.eof` off it would hang.
* All features are `int`s, so with several servers only the first is used; the
  others get neither weights nor parameters.
* A request that reaches the server between `new KVServer` and
  `set_request_handle` aborts it (`server_no_handler`). The learners ask as soon
  as they are constructed, so it is a real risk of starting workers first;
  `WorkersStart` says that a server that is given time to leave its loop is safe
  from it.
* The two programs do not read the same messages: the older one looks for the
  tag `fr-fusion1` and 6 parts of the section ad, the newer one for
  `sfst_rank_ocpx_v2` and 10. Where these checks agree their labels do.
* `parse_sample_0` counts an impression and may then refuse it for a short
  section fraud, which `parse_sample_1` does not look at: its positives have no
  negative.
* `find_kv` takes the first place where the name occurs, also inside another
  name: `valid_play_duration:1|play_duration:5000` gives a play duration of 1.
* Two comments do not describe the code: the flush is begun by the impression
  thread (`parser.cpp:335` names the other one; `ImpTest`), and `stat` 3 is set
  after every batch (`learner.h:39` calls it exiting; `GdStat`).
* A model saved while the weights of a model file are still being inserted may
  lack key 0; `LoadModel` then gives its first weight to the bias.
* A worker started with a negative index reads the partitions of worker 0; one
  started with a larger -n than the server's waits for ever.
* The older program collects behaviours and never gives them to a worker,
  because it does not advance `_idx_1`; and its flush may end before the pool
  has begun to read the samples.
* After a Redis batch that was left early, `set`, `setex` and `set_expire` may
  report success before their command was written; `get` and `mget` notice,
  because the stale replies are of another type.
* A setting that is given twice is joined with a newline; an indented section
  header is part of the value above it.
* The hourly numbers are meaningless for a partition with fewer than two events.

## 4. Fairness

`Parser!FairSpec`: each thread goes on with a call of `Process` it has begun and
a learner finishes every batch (which `Learner` shows); messages may stop
coming. That the behaviour thread leaves its poll is not claimed: it may miss
every moment `mutex_flag` is up.
`Learner!FairSpec`: `GetData` and the update thread run when the semaphores let
them, and the server answers; calls of `GetData` are not fair.
`ParamServer!FairSpec`: the server finishes `StartFtrl` unless it aborts, each
request of a constructor is handled (ps-lite's queue is first-in first-out, so
none is overtaken for ever), constructors run; restarts are not fair and
bounded. `Consumer!FairSpec`: the consumer's thread and, per partition, the
fetcher run; producing and the clock are not fair. That the consumer goes on
assumes that `Parser::Process` returns. For the impressions `FlushCompletes`
says so; for the behaviours it need not, since their thread may stay in its poll
(the last hazard of the list), so there `HourEnds` and `AwaitEnds` hold as
long as it gets out.
`Startup!FairSpec`: the main thread of every process runs when it can, and the
server's receiving thread takes a request for an application that exists; that
one for a missing application ever times out is not assumed.
`ToolsMerge!FairSpec`: the behaviour thread goes on with a flush it has begun,
and the pool starts and ends every task; messages may stop coming.

## 5. Proofs

| Theorem | Module | For all |
| --- | --- | --- |
| `TypeCorrect`, `BatchesFit`, `RegionStable`, `BatchesTornOnlyFirst`, `ImpressionsExactlyOnce`, `FlushCostsAtMostOne` | `ParserProofs` | messages, learners, thresholds and sizes with `FlushAt + Cap1 <= Size0` |
| `LearnerTypeCorrect`, `SamplesExclusive`, `SamplesExact`, `PullsAfterOwnPushes`, `PushesGradient`, `HandoffRefined` | `LearnerProofs` | batches, features, sizes, sigmoids, server steps |
| `ServerTypeCorrect`, `ModelFirst`, `ParamsFirst`, `LateWorkersDoNotLoad` | `ParamServerProofs` | workers, keys, restarts, which workers have file and parameters |
| `DeliveryInOrder`, `LossOnlyByRestart`, `ReportIsBracketed` | `ConsumerProofs` | partitions, messages, restarts |
| `RewriteKeepsLabels`, `StreamsAgree`, `FieldsReadOwn` | `LabelsProofs` | marks, lines, messages, extensions |
| `FlushLosesAtMostOne` | `LabelsProofs` | messages, limits |
| `WeightIsMinimiser`, `StepsAreBounded` | `FtrlProofs` | ordered fields, keys, gradients, loads, parameters |
| `ReadsReturnOwnAnswer`, `SuccessIsAnswered` | `FtrlProofs` | batch sizes, sequences of calls |
| `SavedModelReadsBack`, `CutHarmsOneKey` | `ParamServerProofs` | keys, weights, saves, crashes |
| `ReadsAfterLearners`, `PartitionsOfIndex` | `StartupProofs` | workers, options, settings, partitions |
| `ContinuesByRule`, `GetsOwnLines` | `StartupProofs` | files of any length |

Each states a property a run checks, except `HandoffRefined`, the safety part of
the refinement that `learner_handoff` checks with its fairness. The inductive
invariants were first checked with TLC on the instances of the runs.

*Parser.* The batch bound is not inductive by itself. `ImpInv` says that outside
a flush `cntl[0]` counts the slots of `sample_0` in use, so the threshold bounds
them whatever `cntl[1]` is; `BhvInv` that the room the behaviour thread found is
still there when it stores, and that a pending increment is current or has been
overtaken by a reset. On top, the proof keeps which slots below `_idx_1` are
fully written; a thread that is still inside a slot when a flush
begins can be inside slot 0 of the next batch or the slot just above the copied
region, never in between. That gives `RegionStable` and `BatchesTornOnlyFirst`.
For `ImpressionsExactlyOnce`, `OnceInv` says of the messages with one mark that
at most one was let in, that it waits for a learner or was given to it and not
both, and that one was let in if all parse. For `FlushCostsAtMostOne` the loss is
a budget: the number lost plus a `Debt`, of one while the behaviour thread is
about to count a slot that is no longer its own (`Doomed`), is at most the number
of flushes. A step that loses one pays with this debt or with the flush it ends;
`GrownInv` shows that one flush is never charged for both. Cardinalities
come from the library's theorems on finite sets.

*Learner.* The two semaphores and the two critical sections hold one baton
(`SemInv`): exactly one of the four has it. `CopyInv` says what the first `idx`
slots hold during the copy; with the baton it survives the hand-over. A push
that is not handled is the one `update` waits for (`PushInv`), which gives
`PullsAfterOwnPushes`. For `PushesGradient` the keys pulled are those of the
samples (`KeysInv`), positions in `_unique` tell keys apart and the bias has
position 0 (`RankOrder`, `RankOfBias`), so on these keys the maps `W` and `P` say
what was pulled, and every sample adds what the reference adds. For
`HandoffRefined` the slots are shown to be the labelled subsequence of the batch
(`CopiedIsLabelled`), and every step to be a `Give`, a `Train` or a stutter.

*ParamServer.* `OneRequest` shows that an answer belongs to the request that is
waited for: no two requests of one life, none when a worker asks or starts
to train. `ModelInv` records what a worker knows when it goes on: told not to
load, the flag is set; having the file and loaded it, its push is on its way or
the flag is set (whatever workers without the file do); a set
flag means that the weights are in. `ParamInv` is the same for parameters, with
the fact that the defaults are set before the server can hear of a worker. For
`LateWorkersDoNotLoad` the two sets whose sizes `Loaders` adds are kept finite,
and every step either takes from them or moves a worker to its request.

*Consumer.* Over what is in flight (the batch at hand and the library's queue, as
one sequence), `FlightInv` says that offsets of a partition increase, lie below
the fetch position and above everything given. A restart keeps the events of the
other partitions in their order, which is what `Subsequence` is shown to do.
`ReportInv` brackets the offsets of the hour event by event.

*Labels.* `ToolsAgree` rests on the two tables being equal and on `SeenInv`: of
the keys that are not `apart`, the old filter has those of the new one that pass
table and filter, which are part of the key. The rest of the rules and the
features are tested behind both filters, on the same message.
`PositiveHasImpression` rests on the checks the two parsers share on a line and
on the fact that a rule that labels a behaviour also takes its mark.
`FieldsReadOwn` is about `find_kv` on lists of any length: if nothing in front of
the field's first item holds its name, that item is the first that does.

*ToolsMerge.* As in `Parser`: types, and a budget with a debt.

*Ftrl.* The optimizer forgets the history and keeps two numbers. The invariant
(`KeyFact`) says for each key what they stand for: as a function of `w`, the
slope of all terms of the objective so far is `Z + (sqrt N / alpha) w` (as long
as the parameters are those of the first gradient), `N = 0` only together with
`Z = 0`, and a weight that `update` has made balances this line with `l1`. A
gradient moves the line up by `g` at the weight it met and steepens it by the
rate of its step (`LineMoves`), whatever weight a load has put there.
`OptimumBalances` is the case distinction of `update` (38-45); where it divides,
the denominator is not zero because `Z` is not. For `StepsAreBounded` two minima
are compared: the slopes at which `l1` balances them are ordered against the
weights (`Monotone`); where the weight did not come from them, the way from it to
the first of the two minima is added by the triangle inequality. The hypothesis of both theorems is `OrderedField`; nothing
in them depends on which field it is, and `MCFtrl` lets TLC evaluate the laws on
a few fractions. Sums over the history are a recursive function, for which
`SumsAppend` shows that a further gradient adds one term.

*Redis.* Without an abandoned batch what waits on the connection (parsed replies,
replies under way, commands not written) are the last commands in order, as many
as the batch has to read (`OrderInv`). With one, nothing that waits is or answers
a `get` or `mget` (`OthersInv`), so a reply of their types can only be their own;
otherwise they give the connection up.

*Startup.* `LoopInv`: the learners a worker has made are those of the names among
the positions of the loop it has passed, in their order (`Lists`), the server
has these applications with their handlers, and a consumer is made behind the
loop only. `AskInv` gives the handlers: a constructor whose requests have all
been answered asked an application that has one. `PartInv`:
the partitions are none yet or those of the index, which stays as it was given.

*Config.* `PlaceInv` ties the section and the previous name the parser keeps to
the last header and the last setting of the lines read, so that the rule for a
continuation can be told from the lines alone; `ValInv` says that a setting is
the list of its own lines, to which each line adds at the end
(`SubsequenceAppend`).

*ModelFile.* For `CutHarmsOneKey` the damage is a budget: the lines at risk
(those that are not the line of a save, and an open last one) are no more than
the saves that were cut, because a save harms at most the open line it meets and
the one it leaves (`RiskGrows`). For `SavedModelReadsBack`, in a file without
cut saves every line comes from a save in order (`IsSource`), so the last line
of a key is the one of the last save. `CopyInv` says that a copy no insertion
has disturbed has each key with a value it had during the copy.

*Sequences.* `SeqFilterProofs` shows what `Subsequence` computes for every
sequence: the items at the given positions, each once, in order, and no
other sequence is that. The induction is by a least counterexample, which exists
because the naturals are well-founded (`LeastNat`). `Subsequence` is used
in place of `SelectSeq`, into which the provers cannot look.

The assumptions are the named `ASSUME`s of the modules (types and sizes of the
constants; impressions and behaviours are different messages; `NoBatch` is no
batch; what is left of a name that is cut is empty only if the name is; `alpha`
is positive and the other parameters are not negative); TLC evaluates them in every
run.

## 6. Only model-checked

Every invariant and action property of the passing runs is a theorem. Not proved:

* Liveness (`FlushCompletes`, `ConstructorsReturn`, `AwaitEnds`, `HourEnds`,
  `WorkersStart`, `FlushEnds`, the fairness of `Handoff`) is out of reach of the
  proof system.
* `PushesGradient` takes a sum as a function of its summands: that the fold of the
  library adds them up is what TLC evaluates.

What some properties leave out, so that their names are not read for more:

* `BatchFits` rests on `cntl[0]`, which one thread writes; the race on `cntl[1]`
  moves a flush and does not endanger the batch.
* `ReportBrackets` holds from two events in the hour on, `RoundTrip` for saves
  that were finished and hold key 0, `PartitionsByIndex` for indexes as the code
  reads them, a negative one as 0. What happens otherwise is in the list of
  hazards without a property.
* `LostAtMostOnePerFlush` counts an impression as handed over when its task is
  queued, and `FlushEnds` says that the spinning ends, not that every task has
  read its samples by then.
* `DamageBounded` counts values that were never saved; a stale value of a line
  that was cut is not one.
* In `ValuesByReference` the lines of a setting are those of its key: names and
  sections joined by a dot, so that dots in names may make two settings one, and
  a continuation belongs to the name as cut at 49 characters.

## 7. Not modelled

Field splitting and feature extraction (contents of messages; a sample with
more than 1000 features overruns `_mem`), floating-point rounding apart from
the eighth decimal of a model file, `RecordLog` and `Logger` (output only),
`validate` of `Learner` (printed only), `GetInteger`, `GetReal` and `GetBoolean`
of the INI reader (not called), the slicer of ps-lite (no request of this program is split, see
`Learner`), `ftrl_fm` (does not compile, unused), the worker
and thread pool of `tools/` (not in the repository; `tools/ftrl.cpp` differs
from `optimizer/ftrl.cpp` in comments only), vendored libraries.

The exit flag has no setter (`main.cpp` 26-27 are comments), so the exit
branches of `Learner::Start` and `MessageKafka::Process` cannot be reached and
are left out.

## 8. Plan

Done, in this order: `Parser` (the races), `Learner` with `Handoff`,
`ParamServer`, `Ftrl`, `Consumer`, `Labels`, `ToolsMerge`, `Redis`, `Config`,
`ModelFile`, `Startup`; then the proofs of section 5, which by now cover every
invariant and action property of the passing runs. Next: `Pipeline`, that is
`Parser` and `Learner` composed, in place of `LearnerDone`.
