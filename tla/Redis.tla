-------------------------------- MODULE Redis --------------------------------
(***************************************************************************)
(* The client of src/src/utils/Redis.h on one hiredis connection, used by  *)
(* one thread.  Commands are numbered.  hiredis is external: a command is  *)
(* appended to the output buffer; redisGetReply takes a reply the reader   *)
(* has already parsed, and only if there is none it writes the buffer and  *)
(* reads some of the replies that arrive, in the order of the commands.    *)
(* After an error a context answers nothing any more.  mdel and            *)
(* mset_expire append several commands before they read the replies, and   *)
(* leave early on some errors; what is pending then stays.                 *)
(***************************************************************************)
EXTENDS Integers, Sequences

CONSTANTS
  BatchSizes,     \* numbers of keys given to mget, mdel and mset_expire
  MaxCmds         \* bound: commands

ASSUME RedisAssumption == BatchSizes \subseteq Nat /\ MaxCmds \in Nat

VARIABLES
  isConnected_, rc_,      \* rc_: "null", "ok" or "err" (rc_->err)
  obuf, sock, reader,     \* commands not written; replies under way; parsed
  pc, left,               \* "idle", or inside a batch with replies to read
  nid,                    \* number of the last command
  abandoned,              \* history: a batch on this connection was left early
  last                    \* history: the last call, [op, ok, mine, clean]

conn == <<obuf, sock, reader>>
vars == <<isConnected_, rc_, conn, pc, left, nid, abandoned, last>>

Types ==
  [get |-> {"string", "nil", "error"}, mget |-> {"array", "error"},
   set |-> {"status", "error"}, setex |-> {"status", "error"},
   set_expire |-> {"integer", "error"}, select |-> {"status", "error"},
   mdel |-> {"integer", "error"}, mset_expire |-> {"integer", "error"}]

NULL == [id |-> 0, type |-> "null", size |-> 0]

Init ==
  /\ isConnected_ = FALSE /\ rc_ = "null"
  /\ obuf = <<>> /\ sock = <<>> /\ reader = <<>>
  /\ pc = "idle" /\ left = 0 /\ nid = 0
  /\ abandoned = FALSE /\ last = [op |-> "init", ok |-> TRUE, mine |-> TRUE, clean |-> TRUE]

-----------------------------------------------------------------------------
(* External: the server's answers to a command, and to those of a buffer.  *)
AnswersTo(c) == {[id |-> c.id, type |-> t, size |-> c.size] : t \in Types[c.op]}

Answers(cmds) ==
  {r \in [1 .. Len(cmds) -> UNION {AnswersTo(cmds[i]) : i \in 1 .. Len(cmds)}] :
     \A i \in 1 .. Len(cmds) : r[i] \in AnswersTo(cmds[i])}

(* External: redisGetReply; res is the reply, or NULL with rc_->err set. *)
GetReply(rc, o, s, r, res) ==
  \/ /\ rc = "ok" /\ r # <<>>
     /\ res = Head(r) /\ rc_' = rc
     /\ obuf' = o /\ sock' = s /\ reader' = Tail(r)
  \/ /\ rc = "ok" /\ r = <<>> /\ rc_' = rc
     /\ \E a \in Answers(o) : \E k \in 1 .. Len(s \o a) :
          LET wire == s \o a
          IN /\ res = wire[1] /\ reader' = SubSeq(wire, 2, k)
             /\ sock' = SubSeq(wire, k + 1, Len(wire)) /\ obuf' = <<>>
  \/ /\ r = <<>> \/ rc = "err"
     /\ res = NULL /\ rc_' = "err" /\ obuf' = o /\ sock' = s /\ reader' = r

Replies == {NULL} \cup [id : 1 .. MaxCmds, type : UNION {Types[op] : op \in DOMAIN Types},
                        size : BatchSizes \cup {0}]

Cmds(op, k, size) == [i \in 1 .. k |-> [id |-> nid + i, op |-> op, size |-> size]]

(* connect(): the buffers of a connection that is kept, or of a new one. *)
Kept(b) == IF isConnected_ THEN b ELSE <<>>
KeptRc == IF isConnected_ THEN rc_ ELSE "ok"
Clean == ~isConnected_ \/ ~abandoned

Called(op, ok, res) == last' = [op |-> op, ok |-> ok, mine |-> res.id = nid', clean |-> Clean]

(* connect() frees the context and returns false; rc_ is NULL. *)
ConnectFails(op) ==
  /\ pc = "idle" /\ ~isConnected_
  /\ rc_' = "null" /\ obuf' = <<>> /\ sock' = <<>> /\ reader' = <<>> /\ abandoned' = FALSE
  /\ last' = [op |-> op, ok |-> FALSE, mine |-> TRUE, clean |-> TRUE]
  /\ pc' = IF op = "mget" THEN "crashed" ELSE "idle"     \* rc_->err of NULL
  /\ UNCHANGED <<isConnected_, left, nid>>

(* One command and its reply; good are the replies the method accepts. *)
Single(op, size, good) ==
  /\ pc = "idle" /\ nid < MaxCmds /\ nid' = nid + 1
  /\ \E res \in Replies :
       /\ GetReply(KeptRc, Kept(obuf) \o Cmds(op, 1, size), Kept(sock), Kept(reader), res)
       /\ isConnected_' = (res \in good)
       /\ Called(op, res \in good, res)
  /\ abandoned' = ~Clean
  /\ UNCHANGED <<pc, left>>

MutGet == Single("get", 0, {r \in Replies : r # NULL /\ r.type # "error"})
get == Single("get", 0, {r \in Replies : r.type \in {"string", "nil"}})

mget ==
  \E size \in BatchSizes \ {0} :
    Single("mget", size, {r \in Replies : r.type = "array" /\ r.size = size})

(* These look at the reply no further. *)
set == Single("set", 0, Replies \ {NULL})
setex == Single("setex", 0, Replies \ {NULL})
set_expire == Single("set_expire", 0, Replies \ {NULL})

(* select neither connects nor marks the connection. *)
select ==
  /\ pc = "idle" /\ isConnected_ /\ nid < MaxCmds /\ nid' = nid + 1
  /\ \E res \in Replies :
       /\ GetReply(rc_, obuf \o Cmds("select", 1, 0), sock, reader, res)
       /\ Called("select", res # NULL, res)
  /\ UNCHANGED <<isConnected_, abandoned, pc, left>>

(* mdel and mset_expire: append, or fail to append all of them, ... *)
BatchOf(op, unread) ==
  /\ pc = "idle"
  /\ \E k \in BatchSizes \ {0} : \E j \in 0 .. k :
       /\ nid + j <= MaxCmds /\ nid' = nid + j
       /\ obuf' = Kept(obuf) \o Cmds(op, j, 0)
       /\ pc' = IF j = k THEN op ELSE "idle"
       /\ left' = IF j = k THEN k - unread ELSE 0
       /\ last' = [op |-> op, ok |-> FALSE, mine |-> TRUE, clean |-> Clean]
       /\ abandoned' = (~Clean \/ (0 < j /\ j < k))
  /\ sock' = Kept(sock) /\ reader' = Kept(reader) /\ rc_' = KeptRc
  /\ isConnected_' = TRUE

MutBatch(op) == BatchOf(op, 1)
Batch(op) == BatchOf(op, 0)
mdel == Batch("mdel")
mset_expire == Batch("mset_expire")

(* ... then read as many replies; leave at an error. *)
BatchReply(op) ==
  /\ pc = op /\ left > 0
  /\ \E res \in Replies :
       /\ GetReply(rc_, obuf, sock, reader, res)
       /\ left' = IF res.type \in {"null", "error"} THEN 0 ELSE left - 1
       /\ pc' = IF left' = 0 THEN "idle" ELSE op
       /\ abandoned' = (abandoned \/ (res.type = "error" /\ left > 1))
       /\ last' = [op |-> op, ok |-> left' = 0 /\ res.type \notin {"null", "error"},
                   mine |-> res.id = nid - left + 1, clean |-> ~abandoned]
  /\ UNCHANGED <<isConnected_, nid>>

Next ==
  \/ \E op \in DOMAIN Types \ {"select"} : ConnectFails(op)
  \/ get \/ mget \/ set \/ setex \/ set_expire \/ select
  \/ mdel \/ mset_expire \/ BatchReply("mdel") \/ BatchReply("mset_expire")

Spec == Init /\ [][Next]_vars

-----------------------------------------------------------------------------
(* get and mget return only the answer to their own command, also on a     *)
(* connection on which mdel or mset_expire left replies behind: what they  *)
(* find there is of another type, and they give the connection up.         *)
OwnAnswer == last.op \in {"get", "mget"} /\ last.ok => last.mine

(* Every call that returns true on a connection without an abandoned batch *)
(* has read the reply to its own last command.  (After one, set, setex and *)
(* set_expire may return true before their command was even written.)      *)
Answered == last.ok /\ last.clean => last.mine
=============================================================================
