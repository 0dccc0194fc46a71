-------------------------- MODULE ConsumerProofs ----------------------------
(***************************************************************************)
(* Proofs about Consumer: each message is given to Parser at most once and *)
(* in order, messages are lost only by a restart, and the report brackets  *)
(* the offsets of the hour.                                                *)
(***************************************************************************)
EXTENDS Consumer, FiniteSetTheorems, SeqFilterProofs

Events == [part : Partitions, off : Nat, eof : BOOLEAN]

TypeInv ==
  /\ hw \in [Partitions -> 0 .. MaxOffset]
  /\ fetch \in [Partitions -> Nat \cup {Pending}]
  /\ eof \in [Partitions -> BOOLEAN]
  /\ rkq \in Seq(Events) /\ batch \in Seq(Events)
  /\ pc \in {"loop", "handle", "restart", "await", "true"}
  /\ j \in 1 .. Parts + 1
  /\ got \in [Partitions -> SUBSET Nat] /\ skipped \in [Partitions -> SUBSET Nat]
  /\ seen \in [Partitions -> SUBSET Nat]
  /\ newset \in [Partitions -> Nat] /\ lastset \in [Partitions -> Nat]
  /\ trueset \in [Partitions -> Nat]

(* A batch is empty outside the loops that handle one, and nothing is      *)
(* measured before the wait has returned.                                  *)
PcInv ==
  /\ pc \notin {"handle", "true"} => batch = <<>>
  /\ pc # "true" => trueset = All(LongMax)

(* What is behind an event of the same partition has a greater offset, or  *)
(* the same one behind an end.                                             *)
Before(e, f) == e.off <= f.off /\ (~e.eof => e.off < f.off)

OrderInv ==
  \A i, k \in 1 .. Len(InFlight) :
    i < k /\ InFlight[i].part = InFlight[k].part => Before(InFlight[i], InFlight[k])

(* The library is ahead of all of them, and has none of a partition that   *)
(* waits for the lookup of its end.                                        *)
Ahead(e) == fetch[e.part] # Pending /\ e.off <= fetch[e.part] /\ (~e.eof => e.off < fetch[e.part])
AheadInv ==
  /\ \A i \in 1 .. Len(InFlight) : Ahead(InFlight[i])
  /\ \A p \in Partitions : fetch[p] # Pending => fetch[p] <= hw[p]

(* The offsets handled lie behind what is in flight and what is fetched.   *)
GotInv ==
  \A p \in Partitions : \A o \in got[p] :
    /\ o < hw[p] /\ (fetch[p] # Pending => o < fetch[p])
    /\ \A i \in 1 .. Len(InFlight) : InFlight[i].part = p => o < InFlight[i].off

SeenInv ==
  \A p \in Partitions : \A o \in seen[p] :
    /\ o <= hw[p] /\ (fetch[p] # Pending => o <= fetch[p])
    /\ \A i \in 1 .. Len(InFlight) : InFlight[i].part = p => o <= InFlight[i].off

(* newset has the lowest offset of the hour; lastset has the highest one   *)
(* once there are two.                                                     *)
Bracketed(p) ==
  IF seen[p] = {} THEN newset[p] = LongMax /\ lastset[p] = 0
  ELSE /\ newset[p] \in seen[p] /\ lastset[p] \in seen[p] \cup {0}
       /\ \A o \in seen[p] : newset[p] <= o /\ (o = newset[p] \/ o <= lastset[p])
RecordInv == \A p \in Partitions : Bracketed(p)

TrueInv == \A p \in Partitions : \A o \in seen[p] : o <= trueset[p]

FlightInv == OrderInv /\ AheadInv /\ GotInv /\ SeenInv
BaseInv == TypeInv /\ PcInv
ReportInv == RecordInv /\ TrueInv

-----------------------------------------------------------------------------
(* What the steps do to the sequence of what is in flight. *)
LEMMA ConcatAppend ==
  ASSUME NEW E, NEW s \in Seq(E), NEW t \in Seq(E), NEW e \in E
  PROVE  s \o Append(t, e) = Append(s \o t, e) /\ Append(t, e) \in Seq(E)
  OBVIOUS

(* Taking from the first of two queues takes from both together. *)
LEMMA ConcatTail ==
  ASSUME NEW E, NEW s \in Seq(E), NEW t \in Seq(E), s # <<>>
  PROVE  /\ Tail(s) \o t = Tail(s \o t) /\ Head(s) = (s \o t)[1] /\ s \o t # <<>>
  OBVIOUS

(* A queue cut in two is still the whole. *)
LEMMA ConcatSplit ==
  ASSUME NEW E, NEW t \in Seq(E), NEW r \in 1 .. Len(t)
  PROVE  /\ SubSeq(t, 1, r) \in Seq(E) /\ SubSeq(t, r + 1, Len(t)) \in Seq(E)
         /\ SubSeq(t, 1, r) \o SubSeq(t, r + 1, Len(t)) = t
  OBVIOUS

(* An empty queue adds nothing. *)
LEMMA ConcatEmpty ==
  ASSUME NEW E, NEW t \in Seq(E)
  PROVE  <<>> \o t = t
  OBVIOUS

(* What is in flight are events of the partitions. *)
LEMMA FlightType ==
  ASSUME TypeInv
  PROVE  /\ InFlight \in Seq(Events) /\ Len(InFlight) \in Nat
         /\ \A i \in 1 .. Len(InFlight) :
              /\ InFlight[i] \in Events /\ InFlight[i].part \in Partitions
              /\ InFlight[i].off \in Nat /\ InFlight[i].eof \in BOOLEAN
<1>1. InFlight \in Seq(Events) /\ Len(InFlight) \in Nat
  BY DEF TypeInv, InFlight
<1>2. ASSUME NEW i \in 1 .. Len(InFlight) PROVE InFlight[i] \in Events
  BY <1>1
<1> QED
  BY <1>1, <1>2 DEF Events

(* The end of a partition is a number below LongMax. *)
LEMMA HwType ==
  ASSUME TypeInv, NEW p \in Partitions
  PROVE  hw[p] \in Nat /\ hw[p] < LongMax /\ LongMax \in Nat /\ (fetch[p] # Pending => fetch[p] \in Nat)
  BY ConsumerAssumption DEF TypeInv

(* Steps of the library and of the clock that add nothing. *)
LEMMA FlightSame ==
  ASSUME TypeInv, TypeInv', FlightInv, InFlight' = InFlight, UNCHANGED <<fetch, got>>,
         \A p \in Partitions : hw[p] <= hw'[p] /\ seen'[p] \subseteq seen[p]
  PROVE  FlightInv'
<1> USE DEF FlightInv
<1>1. OrderInv'
  BY DEF OrderInv, Before
<1>2. AheadInv'
  BY HwType DEF AheadInv, Ahead, TypeInv
<1>3. GotInv'
  <2> SUFFICES ASSUME NEW p \in Partitions, NEW o \in got[p] PROVE o < hw'[p]
    BY DEF GotInv
  <2>1. o \in Nat /\ hw[p] \in Nat /\ hw'[p] \in Nat /\ o < hw[p]
    BY DEF GotInv, TypeInv
  <2> QED
    BY <2>1
<1>4. SeenInv'
  <2> SUFFICES ASSUME NEW p \in Partitions, NEW o \in seen'[p]
               PROVE  /\ o <= hw'[p] /\ (fetch[p] # Pending => o <= fetch[p])
                      /\ \A i \in 1 .. Len(InFlight) : InFlight[i].part = p => o <= InFlight[i].off
    BY DEF SeenInv
  <2>1. o \in Nat /\ hw[p] \in Nat /\ hw'[p] \in Nat /\ o \in seen[p] /\ o <= hw[p]
    BY DEF SeenInv, TypeInv
  <2> QED
    BY <2>1 DEF SeenInv
<1> QED
  BY <1>1, <1>2, <1>3, <1>4

(* The library finds the end of a partition that was started again. *)
LEMMA FlightResolve ==
  ASSUME TypeInv, TypeInv', FlightInv, NEW p \in Partitions, Resolve(p)
  PROVE  FlightInv'
<1> USE DEF FlightInv
<1>1. /\ InFlight' = InFlight /\ fetch[p] = Pending /\ fetch'[p] = hw[p]
      /\ \A x \in Partitions : x # p => fetch'[x] = fetch[x]
      /\ UNCHANGED <<hw, got, seen>>
  BY DEF Resolve, InFlight, TypeInv
<1>2. \A i \in 1 .. Len(InFlight) : InFlight[i].part \in Partitions /\ InFlight[i].part # p
  BY <1>1, FlightType DEF AheadInv, Ahead
<1>3. OrderInv'
  BY <1>1 DEF OrderInv, Before
<1>4. AheadInv'
  <2>1. \A i \in 1 .. Len(InFlight) : fetch'[InFlight[i].part] = fetch[InFlight[i].part]
    BY <1>1, <1>2
  <2>2. hw[p] <= hw[p]
    BY HwType
  <2> QED
    BY <1>1, <2>1, <2>2 DEF AheadInv, Ahead
<1>5. GotInv'
  BY <1>1 DEF GotInv
<1>6. SeenInv'
  BY <1>1 DEF SeenInv
<1> QED
  BY <1>3, <1>4, <1>5, <1>6

(* Fetch and SignalEnd. *)
LEMMA FlightAppend ==
  ASSUME TypeInv, TypeInv', FlightInv, NEW p \in Partitions, Fetch(p) \/ SignalEnd(p)
  PROVE  FlightInv'
<1> DEFINE fl == InFlight
<1>1. PICK e \in Events :
        /\ e.part = p /\ e.off = fetch[p] /\ fetch[p] \in Nat /\ fetch[p] # Pending
        /\ fetch'[p] \in Nat /\ fetch'[p] # Pending
        /\ fetch'[p] = IF e.eof THEN fetch[p] ELSE fetch[p] + 1
        /\ fetch'[p] <= hw[p]
        /\ rkq' = Append(rkq, e)
        /\ \A x \in Partitions : x # p => fetch'[x] = fetch[x]
  <2>1. CASE Fetch(p)
    <3>1. fetch[p] \in Nat /\ fetch[p] + 1 <= hw[p] /\ Event(p, FALSE) \in Events
      BY <2>1, HwType DEF Fetch, Event, Events
    <3>2. /\ Event(p, FALSE).part = p /\ Event(p, FALSE).off = fetch[p]
          /\ ~Event(p, FALSE).eof
      BY DEF Event
    <3>3. /\ fetch'[p] = fetch[p] + 1 /\ rkq' = Append(rkq, Event(p, FALSE))
          /\ \A x \in Partitions : x # p => fetch'[x] = fetch[x]
      BY <2>1 DEF Fetch, TypeInv
    <3>4. \A n \in Nat : n # Pending
      BY DEF Pending
    <3>5. fetch[p] + 1 \in Nat
      BY <3>1
    <3> QED
      BY <3>1, <3>2, <3>3, <3>4, <3>5
  <2>2. CASE SignalEnd(p)
    <3>1. fetch[p] \in Nat /\ fetch[p] <= hw[p] /\ Event(p, TRUE) \in Events
      BY <2>2, HwType DEF SignalEnd, Event, Events
    <3>2. /\ Event(p, TRUE).part = p /\ Event(p, TRUE).off = fetch[p]
          /\ Event(p, TRUE).eof
      BY DEF Event
    <3>3. /\ fetch'[p] = fetch[p] /\ rkq' = Append(rkq, Event(p, TRUE))
          /\ \A x \in Partitions : x # p => fetch'[x] = fetch[x]
      BY <2>2 DEF SignalEnd, TypeInv
    <3>4. \A n \in Nat : n # Pending
      BY DEF Pending
    <3> QED
      BY <3>1, <3>2, <3>3, <3>4
  <2> QED
    BY <2>1, <2>2
<1>2. UNCHANGED <<hw, got, seen, batch>>
  <2>1. CASE Fetch(p)
    BY <2>1 DEF Fetch, hist
  <2>2. CASE SignalEnd(p)
    BY <2>2 DEF SignalEnd, hist
  <2> QED
    BY <2>1, <2>2
<1>3. InFlight' = Append(fl, e)
  <2>1. rkq \in Seq(Events) /\ batch \in Seq(Events)
    BY DEF TypeInv
  <2>2. batch \o Append(rkq, e) = Append(batch \o rkq, e)
    BY <2>1, ConcatAppend
  <2> QED
    BY <1>1, <1>2, <2>2 DEF InFlight
<1>4. /\ fl \in Seq(Events) /\ Len(fl) \in Nat /\ Len(InFlight') = Len(fl) + 1
      /\ InFlight'[Len(fl) + 1] = e
      /\ \A i \in 1 .. Len(fl) : InFlight'[i] = fl[i]
  BY <1>3, FlightType
<1>5. \A i \in 1 .. Len(fl) : fl[i].part = p => fl[i].off \in Nat /\ Before(fl[i], e)
  BY <1>1, FlightType DEF FlightInv, AheadInv, Ahead, Before
<1>6. OrderInv'
  <2> SUFFICES ASSUME NEW i \in 1 .. Len(fl) + 1, NEW k \in 1 .. Len(fl) + 1, i < k,
                      InFlight'[i].part = InFlight'[k].part
               PROVE  Before(InFlight'[i], InFlight'[k])
    BY <1>4 DEF OrderInv, Before
  <2>1. i \in 1 .. Len(fl) /\ (k \in 1 .. Len(fl) \/ k = Len(fl) + 1)
    BY <1>4
  <2>2. CASE k \in 1 .. Len(fl)
    BY <1>4, <2>1, <2>2 DEF FlightInv, OrderInv
  <2>3. CASE k = Len(fl) + 1
    BY <1>1, <1>4, <1>5, <2>1, <2>3
  <2> QED
    BY <2>1, <2>2, <2>3
<1>7. AheadInv'
  <2>1. ASSUME NEW i \in 1 .. Len(fl) + 1 PROVE Ahead(InFlight[i])'
    <3>1. CASE i = Len(fl) + 1
      BY <1>1, <1>4, <3>1 DEF Ahead
    <3>2. CASE i \in 1 .. Len(fl) /\ fl[i].part = p
      <4>1. Before(fl[i], e) /\ fl[i].off \in Nat
        BY <1>5, <3>2
      <4> QED
        BY <1>1, <1>4, <3>2, <4>1 DEF Ahead, Before
    <3>3. CASE i \in 1 .. Len(fl) /\ fl[i].part # p
      <4>1. fetch'[fl[i].part] = fetch[fl[i].part] /\ Ahead(fl[i])
        BY <1>1, <3>3, FlightType DEF FlightInv, AheadInv
      <4> QED
        BY <1>4, <3>3, <4>1 DEF Ahead
    <3> QED
      BY <1>4, <3>1, <3>2, <3>3
  <2> QED
    BY <1>1, <1>2, <1>4, <2>1 DEF FlightInv, AheadInv
<1>8. GotInv'
  <2> SUFFICES ASSUME NEW x \in Partitions, NEW o \in got[x]
               PROVE  /\ o < hw[x] /\ (fetch'[x] # Pending => o < fetch'[x])
                      /\ \A i \in 1 .. Len(fl) + 1 : InFlight'[i].part = x => o < InFlight'[i].off
    BY <1>2, <1>4 DEF GotInv
  <2>1. /\ o \in Nat /\ o < hw[x] /\ (fetch[x] # Pending => o < fetch[x])
        /\ \A i \in 1 .. Len(fl) : fl[i].part = x => o < fl[i].off
    BY DEF FlightInv, GotInv, TypeInv
  <2>2. fetch'[x] # Pending => o < fetch'[x]
    BY <2>1, <1>1
  <2>3. ASSUME NEW i \in 1 .. Len(fl) + 1, InFlight'[i].part = x PROVE o < InFlight'[i].off
    <3>1. i \in 1 .. Len(fl) \/ i = Len(fl) + 1
      BY <1>4
    <3> QED
      BY <3>1, <2>3, <2>1, <1>1, <1>4
  <2> QED
    BY <2>1, <2>2, <2>3
<1>9. SeenInv'
  <2> SUFFICES ASSUME NEW x \in Partitions, NEW o \in seen[x]
               PROVE  /\ o <= hw[x] /\ (fetch'[x] # Pending => o <= fetch'[x])
                      /\ \A i \in 1 .. Len(fl) + 1 : InFlight'[i].part = x => o <= InFlight'[i].off
    BY <1>2, <1>4 DEF SeenInv
  <2>1. /\ o \in Nat /\ o <= hw[x] /\ (fetch[x] # Pending => o <= fetch[x])
        /\ \A i \in 1 .. Len(fl) : fl[i].part = x => o <= fl[i].off
    BY DEF FlightInv, SeenInv, TypeInv
  <2>2. fetch'[x] # Pending => o <= fetch'[x]
    BY <2>1, <1>1
  <2>3. ASSUME NEW i \in 1 .. Len(fl) + 1, InFlight'[i].part = x PROVE o <= InFlight'[i].off
    <3>1. i \in 1 .. Len(fl) \/ i = Len(fl) + 1
      BY <1>4
    <3> QED
      BY <3>1, <2>3, <2>1, <1>1, <1>4
  <2> QED
    BY <2>1, <2>2, <2>3
<1> QED
  BY <1>6, <1>7, <1>8, <1>9 DEF FlightInv

(* Handle and HandleTrue. *)
Handled == batch # <<>> /\ batch' = Tail(batch) /\ UNCHANGED <<rkq, hw, fetch>>

(* process_message takes the first event in flight. *)
LEMMA HandledEvent ==
  ASSUME TypeInv, TypeInv', Handled
  PROVE  /\ Head(batch) = InFlight[1] /\ Head(batch) \in Events
         /\ 1 \in 1 .. Len(InFlight) /\ Len(InFlight') = Len(InFlight) - 1
         /\ Len(InFlight) \in Nat
         /\ \A i \in 1 .. Len(InFlight') : /\ i + 1 \in 1 .. Len(InFlight) /\ 1 < i + 1
                                            /\ InFlight'[i] = InFlight[i + 1]
<1>1. rkq \in Seq(Events) /\ batch \in Seq(Events) /\ batch # <<>>
  BY DEF TypeInv, Handled
<1>2. Tail(batch) \o rkq = Tail(batch \o rkq) /\ Head(batch) = (batch \o rkq)[1]
      /\ batch \o rkq # <<>>
  BY <1>1, ConcatTail
<1>3. InFlight' = Tail(InFlight) /\ Head(batch) = InFlight[1] /\ InFlight # <<>>
  BY <1>2 DEF InFlight, Handled
<1>4. InFlight \in Seq(Events)
  BY FlightType
<1>5. Len(InFlight) \in Nat /\ Len(InFlight) # 0
  BY <1>3, <1>4
<1>6. Len(InFlight') = Len(InFlight) - 1
      /\ \A i \in 1 .. Len(InFlight) - 1 : InFlight'[i] = InFlight[i + 1]
  BY <1>3, <1>4
<1>7. Head(batch) \in Events
  BY <1>1
<1> QED
  BY <1>3, <1>5, <1>6, <1>7

(* Handling it keeps what is known of the rest. *)
LEMMA FlightTail ==
  ASSUME TypeInv, TypeInv', FlightInv, Handled, got' = Given(Head(batch)),
         \A p \in Partitions : seen'[p] \subseteq
            seen[p] \cup (IF p = Head(batch).part THEN {Head(batch).off} ELSE {})
  PROVE  FlightInv'
<1>1. PICK e \in Events : e = Head(batch)
  BY HandledEvent
<1>2. /\ e.part \in Partitions /\ e.off \in Nat /\ e.eof \in BOOLEAN
      /\ Ahead(e) /\ fetch[e.part] \in Nat /\ fetch[e.part] <= hw[e.part] /\ hw[e.part] \in Nat
  <2>1. Ahead(e)
    BY <1>1, HandledEvent DEF FlightInv, AheadInv
  <2>2. e.part \in Partitions /\ e.off \in Nat /\ e.eof \in BOOLEAN
    BY DEF Events
  <2> QED
    BY <2>1, <2>2, HwType DEF FlightInv, AheadInv, Ahead
<1>3. \A i \in 1 .. Len(InFlight') :
        /\ i + 1 \in 1 .. Len(InFlight) /\ InFlight'[i] = InFlight[i + 1]
        /\ InFlight'[i].part = e.part => Before(e, InFlight'[i])
  <2> SUFFICES ASSUME NEW i \in 1 .. Len(InFlight')
               PROVE  /\ i + 1 \in 1 .. Len(InFlight) /\ InFlight'[i] = InFlight[i + 1]
                      /\ InFlight'[i].part = e.part => Before(e, InFlight'[i])
    OBVIOUS
  <2>1. /\ 1 \in 1 .. Len(InFlight) /\ i + 1 \in 1 .. Len(InFlight) /\ 1 < i + 1
        /\ InFlight'[i] = InFlight[i + 1] /\ e = InFlight[1]
    BY <1>1, HandledEvent
  <2> QED
    BY <2>1 DEF FlightInv, OrderInv
<1>4. OrderInv'
  <2> SUFFICES ASSUME NEW i \in 1 .. Len(InFlight'), NEW k \in 1 .. Len(InFlight'), i < k,
                      InFlight'[i].part = InFlight'[k].part
               PROVE  Before(InFlight'[i], InFlight'[k])
    BY DEF OrderInv, Before
  <2>1. i + 1 < k + 1
    BY HandledEvent
  <2> QED
    BY <1>3, <2>1 DEF FlightInv, OrderInv
<1>5. AheadInv'
  <2>1. UNCHANGED <<fetch, hw>>
    BY DEF Handled
  <2> QED
    BY <1>3, <2>1 DEF FlightInv, AheadInv, Ahead
<1>6. GotInv'
  <2> SUFFICES ASSUME NEW p \in Partitions, NEW o \in got'[p]
               PROVE  /\ o < hw[p] /\ (fetch[p] # Pending => o < fetch[p])
                      /\ \A i \in 1 .. Len(InFlight') : InFlight'[i].part = p => o < InFlight'[i].off
    BY DEF GotInv, Handled
  <2>1. CASE o \in got[p]
    BY <2>1, <1>3 DEF FlightInv, GotInv
  <2>2. CASE p = e.part /\ o = e.off /\ ~e.eof
    <3>1. o < fetch[p] /\ o < hw[p]
      BY <2>2, <1>2 DEF Ahead
    <3>2. \A i \in 1 .. Len(InFlight') : InFlight'[i].part = p => o < InFlight'[i].off
      BY <2>2, <1>3 DEF Before
    <3> QED
      BY <3>1, <3>2
  <2>3. o \in got[p] \/ (p = e.part /\ o = e.off /\ ~e.eof)
    <3>1. CASE e.eof
      BY <1>1, <3>1 DEF Given
    <3>2. CASE ~e.eof
      <4>1. got' = [got EXCEPT ![e.part] = @ \cup {e.off}]
        BY <1>1, <3>2 DEF Given
      <4>2. got'[p] = IF p = e.part THEN got[p] \cup {e.off} ELSE got[p]
        BY <4>1, <1>2 DEF TypeInv
      <4> QED
        BY <3>2, <4>2
    <3> QED
      BY <3>1, <3>2
  <2> QED
    BY <2>1, <2>2, <2>3
<1>7. SeenInv'
  <2> SUFFICES ASSUME NEW p \in Partitions, NEW o \in seen'[p]
               PROVE  /\ o <= hw[p] /\ (fetch[p] # Pending => o <= fetch[p])
                      /\ \A i \in 1 .. Len(InFlight') : InFlight'[i].part = p => o <= InFlight'[i].off
    BY DEF SeenInv, Handled
  <2>1. CASE o \in seen[p]
    BY <2>1, <1>3 DEF FlightInv, SeenInv
  <2>2. CASE p = e.part /\ o = e.off
    <3>1. o <= fetch[p] /\ o <= hw[p]
      BY <2>2, <1>2 DEF Ahead
    <3>2. \A i \in 1 .. Len(InFlight') : InFlight'[i].part = p => o <= InFlight'[i].off
      BY <2>2, <1>3 DEF Before
    <3> QED
      BY <3>1, <3>2
  <2> QED
    BY <1>1, <2>1, <2>2
<1> QED
  BY <1>4, <1>5, <1>6, <1>7 DEF FlightInv

(* A restart keeps the events of the other partitions, in their order. *)
LEMMA RestartKeeps ==
  ASSUME TypeInv, PcInv, RestartPartition
  PROVE  /\ rkq' \in Seq(Events)
         /\ \E h : /\ \A i \in 1 .. Len(InFlight') :
                        /\ h[i] \in 1 .. Len(InFlight) /\ InFlight'[i] = InFlight[h[i]]
                        /\ InFlight'[i].part # j
                   /\ \A i, k \in 1 .. Len(InFlight') : i < k => h[i] < h[k]
                   /\ \A x \in 1 .. Len(InFlight) : InFlight[x].part # j =>
                        \E i \in 1 .. Len(InFlight') : h[i] = x
<1> DEFINE I == {i \in 1 .. Len(rkq) : rkq[i].part # j}
<1>1. rkq \in Seq(Events) /\ I \in SUBSET (1 .. Len(rkq))
  BY DEF TypeInv
<1>2. rkq' = Subsequence(rkq, I) /\ batch = <<>> /\ batch' = <<>>
  BY DEF PcInv, RestartPartition, RestartAt
<1>3. rkq' \in Seq(Events) /\ \E h : Lists(h, rkq', rkq, I)
  <2> HIDE DEF I
  <2> QED
    BY <1>1, <1>2, SubsequenceLists
<1>4. PICK h : Lists(h, rkq', rkq, I)
  BY <1>3
<1>5. InFlight = rkq /\ InFlight' = rkq'
  BY <1>1, <1>2, <1>3, ConcatEmpty DEF InFlight
<1>6. \A i \in 1 .. Len(rkq') : h[i] \in I /\ rkq'[i] = rkq[h[i]]
  BY <1>4 DEF Lists
<1>7. \A i, k \in 1 .. Len(rkq') : i < k => h[i] < h[k]
  BY <1>4 DEF Lists
<1>8. \A x \in I : \E i \in 1 .. Len(rkq') : h[i] = x
  BY <1>4 DEF Lists
<1>9. \A x \in 1 .. Len(rkq) : rkq[x].part # j => x \in I
  OBVIOUS
<1>10. \A x \in I : x \in 1 .. Len(rkq) /\ rkq[x].part # j
  OBVIOUS
<1> HIDE DEF I
<1>11. \A i \in 1 .. Len(rkq') : /\ h[i] \in 1 .. Len(rkq) /\ rkq'[i] = rkq[h[i]]
                                 /\ rkq'[i].part # j
  BY <1>6, <1>10
<1>12. \A x \in 1 .. Len(rkq) : rkq[x].part # j => \E i \in 1 .. Len(rkq') : h[i] = x
  BY <1>8, <1>9
<1>13. /\ \A i \in 1 .. Len(InFlight') : /\ h[i] \in 1 .. Len(InFlight) /\ InFlight'[i] = InFlight[h[i]]
                                         /\ InFlight'[i].part # j
       /\ \A i, k \in 1 .. Len(InFlight') : i < k => h[i] < h[k]
       /\ \A x \in 1 .. Len(InFlight) : InFlight[x].part # j =>
             \E i \in 1 .. Len(InFlight') : h[i] = x
  <2>1. \A i \in 1 .. Len(InFlight') : /\ h[i] \in 1 .. Len(InFlight) /\ InFlight'[i] = InFlight[h[i]]
                                      /\ InFlight'[i].part # j
    BY <1>5, <1>11
  <2>2. \A i, k \in 1 .. Len(InFlight') : i < k => h[i] < h[k]
    BY <1>5, <1>7
  <2>3. \A x \in 1 .. Len(InFlight) : InFlight[x].part # j =>
          \E i \in 1 .. Len(InFlight') : h[i] = x
    BY <1>5, <1>12
  <2> QED
    BY <2>1, <2>2, <2>3
<1> QED
  BY <1>3, <1>13

(* A restart drops what is in flight of its partition and nothing else. *)
LEMMA FlightDrop ==
  ASSUME TypeInv, TypeInv', PcInv, FlightInv, RestartPartition
  PROVE  FlightInv'
<1>1. PICK h : /\ \A i \in 1 .. Len(InFlight') :
                        /\ h[i] \in 1 .. Len(InFlight) /\ InFlight'[i] = InFlight[h[i]]
                        /\ InFlight'[i].part # j
               /\ \A i, k \in 1 .. Len(InFlight') : i < k => h[i] < h[k]
  BY RestartKeeps
<1>2. /\ UNCHANGED <<hw, got, seen>> /\ fetch' = [fetch EXCEPT ![j] = Pending]
      /\ j \in Partitions
  BY ConsumerAssumption DEF RestartPartition, RestartAt, hist, TypeInv, Partitions
<1>3. fetch'[j] = Pending /\ \A p \in Partitions : p # j => fetch'[p] = fetch[p]
  BY <1>2 DEF TypeInv
<1>4. \A i \in 1 .. Len(InFlight') : InFlight'[i].part \in Partitions
  BY <1>1, FlightType
<1>5. OrderInv'
  <2> SUFFICES ASSUME NEW i \in 1 .. Len(InFlight'), NEW k \in 1 .. Len(InFlight'), i < k,
                      InFlight'[i].part = InFlight'[k].part
               PROVE  Before(InFlight'[i], InFlight'[k])
    BY DEF OrderInv, Before
  <2> QED
    BY <1>1 DEF FlightInv, OrderInv
<1>6. AheadInv'
  <2>1. ASSUME NEW i \in 1 .. Len(InFlight') PROVE Ahead(InFlight[i])'
    <3>1. Ahead(InFlight[h[i]]) /\ InFlight'[i] = InFlight[h[i]]
      BY <1>1 DEF FlightInv, AheadInv
    <3>2. fetch'[InFlight'[i].part] = fetch[InFlight'[i].part]
      BY <1>1, <1>3, <1>4
    <3> QED
      BY <3>1, <3>2 DEF Ahead
  <2> QED
    BY <1>2, <1>3, <2>1 DEF FlightInv, AheadInv
<1>7. GotInv'
  BY <1>1, <1>2, <1>3 DEF FlightInv, GotInv
<1>8. SeenInv'
  BY <1>1, <1>2, <1>3 DEF FlightInv, SeenInv
<1> QED
  BY <1>5, <1>6, <1>7, <1>8 DEF FlightInv

-----------------------------------------------------------------------------
(* Types and program counters, at the start and over every step. *)
LEMMA BaseInit == Init => BaseInv
<1> SUFFICES ASSUME Init PROVE BaseInv
  OBVIOUS
<1>1. TypeInv
  BY ConsumerAssumption DEF Init, TypeInv, All, Partitions
<1> QED
  BY <1>1 DEF BaseInv, Init, PcInv

LEMMA BaseStep == BaseInv /\ [Next]_vars => BaseInv'
<1> SUFFICES ASSUME TypeInv, PcInv, [Next]_vars PROVE TypeInv' /\ PcInv'
  BY DEF BaseInv
<1> USE ConsumerAssumption DEF broker, sets, hist
<1>1. CASE UNCHANGED vars
  BY <1>1 DEF TypeInv, PcInv, vars
<1>2. CASE TakeBatch \/ Await
  <2>1. PICK r \in 1 .. Len(rkq) :
          batch' = SubSeq(rkq, 1, r) /\ rkq' = SubSeq(rkq, r + 1, Len(rkq))
    BY <1>2 DEF TakeBatch, Await, TakeUpTo
  <2>2. batch' \in Seq(Events) /\ rkq' \in Seq(Events)
    BY <2>1, ConcatSplit DEF TypeInv
  <2>3. /\ UNCHANGED <<hw, fetch, eof, j, newset, lastset, trueset, got, skipped, seen>>
        /\ pc' \in {"handle", "true"} /\ (pc' = "handle" => pc # "true")
    BY <1>2 DEF TakeBatch, Await, TakeUpTo
  <2> QED
    BY <2>2, <2>3 DEF TypeInv, PcInv
<1>3. ASSUME batch # <<>>, batch' = Tail(batch) PROVE batch' \in Seq(Events)
  BY <1>3 DEF TypeInv
<1>4. ASSUME batch # <<>> PROVE /\ Head(batch) \in Events /\ Head(batch).part \in Partitions
                                /\ Head(batch).off \in Nat
  <2>1. Head(batch) \in Events
    BY <1>4 DEF TypeInv
  <2> QED
    BY <2>1 DEF Events
<1>5. ASSUME batch # <<>> PROVE Given(Head(batch)) \in [Partitions -> SUBSET Nat]
  BY <1>4, <1>5 DEF Given, TypeInv
<1>6. CASE Handle
  <2>1. batch' \in Seq(Events) /\ got' \in [Partitions -> SUBSET Nat]
    BY <1>3, <1>5, <1>6 DEF Handle
  <2>2. seen' \in [Partitions -> SUBSET Nat]
    BY <1>4, <1>6 DEF Handle, TypeInv
  <2>3. newset' \in [Partitions -> Nat] /\ lastset' \in [Partitions -> Nat]
    BY <1>4, <1>6 DEF Handle, Record, TypeInv
  <2> QED
    BY <1>6, <2>1, <2>2, <2>3 DEF Handle, TypeInv, PcInv
<1>7. CASE HandleTrue
  <2>1. batch' \in Seq(Events) /\ got' \in [Partitions -> SUBSET Nat]
    BY <1>3, <1>5, <1>7 DEF HandleTrue
  <2>2. trueset' \in [Partitions -> Nat]
    BY <1>4, <1>7 DEF HandleTrue, TrueSet, TypeInv
  <2> QED
    BY <1>7, <2>1, <2>2 DEF HandleTrue, TypeInv, PcInv
<1>8. CASE BatchDone \/ HourOver
  BY <1>8 DEF BatchDone, HourOver, TypeInv, PcInv
<1>9. CASE Restarted
  BY <1>9 DEF Restarted, TypeInv, PcInv
<1>10. CASE RestartPartition
  <2>1. rkq' \in Seq(Events)
    BY <1>10, RestartKeeps
  <2>2. j' \in 1 .. Parts + 1
    BY <1>10 DEF RestartPartition, RestartAt, TypeInv
  <2> QED
    BY <1>10, <2>1, <2>2 DEF RestartPartition, RestartAt, TypeInv, PcInv
<1>11. CASE Report
  BY <1>11 DEF Report, TypeInv, PcInv, All
<1>12. CASE Poll \/ HourPasses
  BY <1>12 DEF Poll, HourPasses, vars, TypeInv, PcInv
<1>13. ASSUME NEW p \in Partitions, Produce(p) PROVE TypeInv' /\ PcInv'
  BY <1>13 DEF Produce, TypeInv, PcInv
<1>14. ASSUME NEW p \in Partitions, Resolve(p) PROVE TypeInv' /\ PcInv'
  BY <1>14 DEF Resolve, TypeInv, PcInv
<1>15. ASSUME NEW p \in Partitions, Fetch(p) PROVE TypeInv' /\ PcInv'
  <2>1. Event(p, FALSE) \in Events /\ fetch[p] + 1 \in Nat
    BY <1>15 DEF Fetch, Event, Events, TypeInv
  <2>2. rkq' \in Seq(Events)
    <3>1. rkq \in Seq(Events) /\ rkq' = Append(rkq, Event(p, FALSE))
      BY <1>15 DEF Fetch, TypeInv
    <3>2. Append(rkq, Event(p, FALSE)) \in Seq(Events)
      BY <2>1, <3>1, ConcatAppend
    <3> QED
      BY <3>1, <3>2
  <2>3. eof' \in [Partitions -> BOOLEAN]
    BY <1>15 DEF Fetch, TypeInv
  <2>4. fetch' \in [Partitions -> Nat \cup {Pending}]
    BY <1>15, <2>1 DEF Fetch, TypeInv
  <2> QED
    BY <1>15, <2>2, <2>3, <2>4 DEF Fetch, TypeInv, PcInv
<1>16. ASSUME NEW p \in Partitions, SignalEnd(p) PROVE TypeInv' /\ PcInv'
  <2>1. Event(p, TRUE) \in Events
    BY <1>16 DEF SignalEnd, Event, Events, TypeInv
  <2>2. rkq' \in Seq(Events)
    <3>1. rkq \in Seq(Events) /\ rkq' = Append(rkq, Event(p, TRUE))
      BY <1>16 DEF SignalEnd, TypeInv
    <3>2. Append(rkq, Event(p, TRUE)) \in Seq(Events)
      BY <2>1, <3>1, ConcatAppend
    <3> QED
      BY <3>1, <3>2
  <2>3. eof' \in [Partitions -> BOOLEAN]
    BY <1>16 DEF SignalEnd, TypeInv
  <2> QED
    BY <1>16, <2>2, <2>3 DEF SignalEnd, TypeInv, PcInv
<1> QED
  BY <1>1, <1>2, <1>6, <1>7, <1>8, <1>9, <1>10, <1>11, <1>12, <1>13, <1>14, <1>15, <1>16
     DEF Next, Process, Library

(* Steps that leave alone, or cut in another way, what is in flight. *)
LEMMA TakeKeeps ==
  ASSUME TypeInv, PcInv, TakeBatch \/ Await
  PROVE  InFlight' = InFlight
<1>1. PICK r \in 1 .. Len(rkq) :
        batch' = SubSeq(rkq, 1, r) /\ rkq' = SubSeq(rkq, r + 1, Len(rkq))
  BY DEF TakeBatch, Await, TakeUpTo
<1>2. batch = <<>> /\ rkq \in Seq(Events)
  BY DEF TakeBatch, Await, TakeUpTo, PcInv, TypeInv
<1>3. batch' \o rkq' = rkq
  BY <1>1, <1>2, ConcatSplit
<1>4. batch \o rkq = rkq
  BY <1>2, ConcatEmpty
<1> QED
  BY <1>3, <1>4 DEF InFlight

(* What is in flight stays ahead of what was given. *)
LEMMA FlightStep == BaseInv /\ FlightInv /\ [Next]_vars => FlightInv'
<1> SUFFICES ASSUME TypeInv, PcInv, FlightInv, [Next]_vars PROVE FlightInv'
  BY DEF BaseInv
<1>0. TypeInv'
  BY BaseStep DEF BaseInv
<1> USE DEF broker, sets, hist
<1>1. CASE UNCHANGED <<InFlight, hw, fetch, got, seen>>
  <2>1. \A p \in Partitions : hw[p] <= hw'[p] /\ seen'[p] \subseteq seen[p]
    BY <1>1, HwType
  <2> QED
    BY <1>0, <1>1, <2>1, FlightSame
<1>2. CASE UNCHANGED vars
  BY <1>1, <1>2 DEF vars, InFlight
<1>3. CASE TakeBatch \/ Await
  <2>1. UNCHANGED <<hw, fetch, got, seen>>
    BY <1>3 DEF TakeBatch, Await, TakeUpTo
  <2> QED
    BY <1>1, <1>3, <2>1, TakeKeeps
<1>4. CASE Handle
  <2>1. Handled /\ got' = Given(Head(batch))
    BY <1>4 DEF Handle, Handled
  <2>2. \A p \in Partitions : seen'[p] \subseteq
            seen[p] \cup (IF p = Head(batch).part THEN {Head(batch).off} ELSE {})
    BY <1>4 DEF Handle, TypeInv
  <2> QED
    BY <1>0, <2>1, <2>2, FlightTail
<1>5. CASE HandleTrue
  <2>1. Handled /\ got' = Given(Head(batch)) /\ seen' = seen
    BY <1>5 DEF HandleTrue, Handled
  <2> QED
    BY <1>0, <2>1, FlightTail
<1>6. CASE BatchDone \/ HourOver \/ Restarted
  BY <1>1, <1>6 DEF BatchDone, HourOver, Restarted, InFlight
<1>7. CASE RestartPartition
  BY <1>0, <1>7, FlightDrop
<1>8. CASE Report
  <2>1. InFlight' = InFlight /\ UNCHANGED <<fetch, got, hw>> /\ \A p \in Partitions : seen'[p] = {}
    BY <1>8 DEF Report, InFlight, All
  <2>2. \A p \in Partitions : hw[p] <= hw'[p] /\ seen'[p] \subseteq seen[p]
    BY <2>1, HwType
  <2> QED
    BY <1>0, <2>1, <2>2, FlightSame
<1>9. CASE Poll \/ HourPasses
  BY <1>1, <1>9 DEF Poll, HourPasses, vars, InFlight
<1>10. ASSUME NEW p \in Partitions, Produce(p) PROVE FlightInv'
  <2>1. InFlight' = InFlight /\ UNCHANGED <<fetch, got, seen>>
    BY <1>10 DEF Produce, InFlight
  <2>2. \A x \in Partitions : hw[x] <= hw'[x] /\ seen'[x] \subseteq seen[x]
    BY <1>10, <2>1, HwType DEF Produce, TypeInv
  <2> QED
    BY <1>0, <2>1, <2>2, FlightSame
<1>11. ASSUME NEW p \in Partitions, Library(p) PROVE FlightInv'
  BY <1>0, <1>11, FlightResolve, FlightAppend DEF Library
<1> QED
  BY <1>2, <1>3, <1>4, <1>5, <1>6, <1>7, <1>8, <1>9, <1>10, <1>11 DEF Next, Process

LEMMA FlightInit == Init => FlightInv
<1> SUFFICES ASSUME Init PROVE FlightInv
  OBVIOUS
<1>1. InFlight = <<>> /\ Len(InFlight) = 0
  BY DEF Init, InFlight
<1>2. \A p \in Partitions : got[p] = {} /\ seen[p] = {} /\ fetch[p] = Pending
  BY DEF Init, All
<1> QED
  BY <1>1, <1>2 DEF FlightInv, OrderInv, AheadInv, GotInv, SeenInv

(* MessageKafka::Process gives no message to Parser twice, nor after a     *)
(* later one of its partition, for any number of partitions, any batch     *)
(* sizes and however the hourly restart meets what is queued.              *)
THEOREM DeliveryInOrder == Spec => []AtMostOnceInOrder
<1>1. Init => BaseInv /\ FlightInv
  BY BaseInit, FlightInit
<1>2. (BaseInv /\ FlightInv) /\ [Next]_vars => (BaseInv /\ FlightInv)'
  BY BaseStep, FlightStep
<1>3. BaseInv /\ FlightInv => AtMostOnceInOrder
  BY DEF FlightInv, OrderInv, GotInv, Before, AtMostOnceInOrder, Messages
<1> QED
  BY <1>1, <1>2, <1>3, PTL DEF Spec

-----------------------------------------------------------------------------
(* Only a restart moves past a message that was not given. *)
LEMMA LossStep ==
  BaseInv /\ FlightInv /\ LossOnlyAtRestart /\ [Next]_vars => LossOnlyAtRestart'
<1> SUFFICES ASSUME TypeInv, PcInv, FlightInv, LossOnlyAtRestart, [Next]_vars,
                    NEW x \in Partitions, fetch'[x] >= 0, NEW o \in 0 .. fetch'[x] - 1,
                    o \notin got'[x], o \notin skipped'[x]
             PROVE  \E i \in Messages(x)' : InFlight'[i].off = o
  BY DEF BaseInv, LossOnlyAtRestart
<1>0. TypeInv'
  BY BaseStep DEF BaseInv
<1> USE DEF broker, sets, hist
<1>1. ASSUME fetch[x] >= 0, o \in 0 .. fetch[x] - 1, o \notin got[x], o \notin skipped[x]
      PROVE  \E i \in 1 .. Len(InFlight) :
               InFlight[i].part = x /\ ~InFlight[i].eof /\ InFlight[i].off = o
  BY <1>1 DEF LossOnlyAtRestart, Messages
<1>2. CASE InFlight' = InFlight /\ fetch' = fetch /\ got' = got /\ skipped' = skipped
  BY <1>1, <1>2 DEF Messages
<1>3. CASE UNCHANGED vars
  BY <1>2, <1>3 DEF vars, InFlight
<1>4. CASE TakeBatch \/ Await
  <2>1. UNCHANGED <<fetch, got, skipped>>
    BY <1>4 DEF TakeBatch, Await, TakeUpTo
  <2> QED
    BY <1>2, <1>4, <2>1, TakeKeeps
<1>5. CASE Handle \/ HandleTrue
  <2>1. Handled /\ got' = Given(Head(batch)) /\ skipped' = skipped
    BY <1>5 DEF Handle, HandleTrue, Handled
  <2>2. PICK e \in Events : e = Head(batch)
    BY <1>0, <2>1, HandledEvent
  <2>3. e.part \in Partitions /\ got[x] \subseteq got'[x]
        /\ (e.part = x /\ ~e.eof => e.off \in got'[x])
    <3>1. e.part \in Partitions
      BY DEF Events
    <3>2. CASE e.eof
      BY <2>1, <2>2, <3>1, <3>2 DEF Given
    <3>3. CASE ~e.eof
      <4>1. got' = [got EXCEPT ![e.part] = @ \cup {e.off}]
        BY <2>1, <2>2, <3>3 DEF Given
      <4>2. got'[x] = IF x = e.part THEN got[x] \cup {e.off} ELSE got[x]
        BY <4>1, <3>1 DEF TypeInv
      <4> QED
        BY <3>1, <4>2
    <3> QED
      BY <3>2, <3>3
  <2>4. PICK i \in 1 .. Len(InFlight) :
          InFlight[i].part = x /\ ~InFlight[i].eof /\ InFlight[i].off = o
    BY <1>1, <2>1, <2>3 DEF Handled
  <2>5. i # 1
    BY <1>0, <2>1, <2>2, <2>3, <2>4, HandledEvent
  <2>6. i - 1 \in 1 .. Len(InFlight') /\ (i - 1) + 1 = i
    BY <1>0, <2>1, <2>5, HandledEvent
  <2>7. InFlight'[i - 1] = InFlight[i]
    BY <1>0, <2>1, <2>6, HandledEvent
  <2> QED
    BY <2>4, <2>6, <2>7 DEF Messages
<1>6. CASE BatchDone \/ HourOver \/ Restarted \/ Report
  BY <1>2, <1>6 DEF BatchDone, HourOver, Restarted, Report, InFlight
<1>7. CASE RestartPartition
  <2>1. PICK h : /\ \A i \in 1 .. Len(InFlight') : InFlight'[i] = InFlight[h[i]]
                 /\ \A y \in 1 .. Len(InFlight) : InFlight[y].part # j =>
                        \E i \in 1 .. Len(InFlight') : h[i] = y
    BY <1>7, RestartKeeps
  <2>2. /\ UNCHANGED <<got, skipped>> /\ fetch' = [fetch EXCEPT ![j] = Pending]
    BY <1>7 DEF RestartPartition, RestartAt
  <2>3. x # j /\ fetch'[x] = fetch[x]
    BY <2>2 DEF TypeInv, Pending
  <2>4. PICK y \in 1 .. Len(InFlight) :
          InFlight[y].part = x /\ ~InFlight[y].eof /\ InFlight[y].off = o
    BY <1>1, <2>2, <2>3
  <2>5. PICK i \in 1 .. Len(InFlight') : h[i] = y
    BY <2>1, <2>3, <2>4
  <2> QED
    BY <2>1, <2>4, <2>5 DEF Messages
<1>8. CASE Poll \/ HourPasses
  BY <1>2, <1>8 DEF Poll, HourPasses, vars, InFlight
<1>9. ASSUME NEW p \in Partitions, Produce(p) PROVE \E i \in Messages(x)' : InFlight'[i].off = o
  BY <1>2, <1>9 DEF Produce, InFlight
<1>10. ASSUME NEW p \in Partitions, Resolve(p) PROVE \E i \in Messages(x)' : InFlight'[i].off = o
  <2>1. /\ InFlight' = InFlight /\ got' = got
        /\ fetch' = [fetch EXCEPT ![p] = hw[p]]
        /\ skipped' = [skipped EXCEPT ![p] = (0 .. hw[p] - 1) \ got[p]]
    BY <1>10 DEF Resolve, InFlight
  <2>2. x # p
    BY <2>1 DEF TypeInv
  <2>3. fetch'[x] = fetch[x] /\ skipped'[x] = skipped[x]
    BY <2>1, <2>2 DEF TypeInv
  <2> QED
    BY <1>1, <2>1, <2>3 DEF Messages
<1>11. ASSUME NEW p \in Partitions, Fetch(p) \/ SignalEnd(p)
       PROVE  \E i \in Messages(x)' : InFlight'[i].off = o
  <2>1. PICK e \in Events : rkq' = Append(rkq, e) /\ e.part = p /\ e.off = fetch[p]
          /\ (e.eof => fetch' = fetch) /\ (~e.eof => fetch' = [fetch EXCEPT ![p] = @ + 1])
    <3>1. CASE Fetch(p)
      <4>1. Event(p, FALSE) \in Events /\ ~Event(p, FALSE).eof
            /\ Event(p, FALSE).part = p /\ Event(p, FALSE).off = fetch[p]
        BY <3>1, HwType DEF Fetch, Event, Events
      <4> QED
        BY <3>1, <4>1 DEF Fetch
    <3>2. CASE SignalEnd(p)
      <4>1. Event(p, TRUE) \in Events /\ Event(p, TRUE).eof
            /\ Event(p, TRUE).part = p /\ Event(p, TRUE).off = fetch[p]
        BY <3>2, HwType DEF SignalEnd, Event, Events
      <4> QED
        BY <3>2, <4>1 DEF SignalEnd
    <3> QED
      BY <1>11, <3>1, <3>2
  <2>2. batch' = batch /\ UNCHANGED <<got, skipped>>
    BY <1>11 DEF Fetch, SignalEnd
  <2>3. InFlight' = Append(InFlight, e)
    <3>1. rkq \in Seq(Events) /\ batch \in Seq(Events)
      BY DEF TypeInv
    <3>2. batch \o Append(rkq, e) = Append(batch \o rkq, e)
      BY <3>1, ConcatAppend
    <3> QED
      BY <2>1, <2>2, <3>2 DEF InFlight
  <2>4. /\ Len(InFlight) \in Nat /\ Len(InFlight') = Len(InFlight) + 1
        /\ InFlight'[Len(InFlight) + 1] = e
        /\ \A i \in 1 .. Len(InFlight) : InFlight'[i] = InFlight[i]
    BY <2>3, FlightType
  <2>5. CASE ~e.eof /\ x = p /\ o = fetch[p]
    <3>1. Len(InFlight) + 1 \in Messages(x)'
      BY <2>1, <2>4, <2>5 DEF Messages
    <3> QED
      BY <2>1, <2>4, <2>5, <3>1
  <2>6. CASE ~(~e.eof /\ x = p /\ o = fetch[p])
    <3>1. fetch[x] >= 0 /\ o \in 0 .. fetch[x] - 1
      <4>1. CASE e.eof \/ x # p
        BY <2>1, <4>1 DEF TypeInv
      <4>2. CASE ~e.eof /\ x = p
        <5>1. fetch'[x] = fetch[x] + 1 /\ o # fetch[x] /\ fetch[x] \in Nat
          BY <2>1, <2>6, <4>2 DEF TypeInv, Events
        <5> QED
          BY <5>1
      <4> QED
        BY <4>1, <4>2
    <3>2. PICK i \in 1 .. Len(InFlight) :
            InFlight[i].part = x /\ ~InFlight[i].eof /\ InFlight[i].off = o
      BY <1>1, <2>2, <3>1
    <3> QED
      BY <2>4, <3>2 DEF Messages
  <2> QED
    BY <2>5, <2>6
<1> QED
  BY <1>3, <1>4, <1>5, <1>6, <1>7, <1>8, <1>9, <1>10, <1>11 DEF Next, Process, Library

(* What the library has fetched of a partition is given to Parser, in the  *)
(* hour's loop and after the wait alike, except what a restart at the end  *)
(* of the log passes over (message_kafka.cpp 76-135).                      *)
THEOREM LossOnlyByRestart == Spec => []LossOnlyAtRestart
<1>1. Init => BaseInv /\ FlightInv /\ LossOnlyAtRestart
  <2>1. Init => LossOnlyAtRestart
    BY DEF Init, LossOnlyAtRestart, All, Pending
  <2> QED
    BY <2>1, BaseInit, FlightInit
<1>2. (BaseInv /\ FlightInv /\ LossOnlyAtRestart) /\ [Next]_vars
        => (BaseInv /\ FlightInv /\ LossOnlyAtRestart)'
  BY BaseStep, FlightStep, LossStep
<1> QED
  BY <1>1, <1>2, PTL DEF Spec

-----------------------------------------------------------------------------
(* Every event keeps newset and lastset around the offsets of the hour. *)
LEMMA ReportStep == BaseInv /\ FlightInv /\ ReportInv /\ [Next]_vars => ReportInv'
<1> SUFFICES ASSUME TypeInv, PcInv, FlightInv, ReportInv, [Next]_vars PROVE ReportInv'
  BY DEF BaseInv
<1>0. TypeInv'
  BY BaseStep DEF BaseInv
<1> USE DEF broker, sets, hist
<1>1. CASE UNCHANGED <<seen, newset, lastset, trueset>>
  BY <1>1 DEF ReportInv, RecordInv, Bracketed, TrueInv
<1>2. CASE UNCHANGED vars
  BY <1>1, <1>2 DEF vars
(* The offset at hand is not below those of the hour. *)
<1>3. ASSUME Handled
      PROVE  /\ Head(batch).part \in Partitions /\ Head(batch).off \in Nat
             /\ Head(batch).off < LongMax
             /\ \A o \in seen[Head(batch).part] : o <= Head(batch).off
  <2>1. Head(batch) = InFlight[1] /\ 1 \in 1 .. Len(InFlight)
    BY <1>0, <1>3, HandledEvent
  <2>2. InFlight[1].part \in Partitions /\ InFlight[1].off \in Nat
    BY <2>1, FlightType
  <2>3. Ahead(InFlight[1])
    BY <2>1 DEF FlightInv, AheadInv
  <2>4. InFlight[1].off < LongMax
    BY <2>2, <2>3, HwType DEF FlightInv, AheadInv, Ahead
  <2>5. \A o \in seen[InFlight[1].part] : o <= InFlight[1].off
    BY <2>1, <2>2 DEF FlightInv, SeenInv
  <2> QED
    BY <2>1, <2>2, <2>4, <2>5
<1>4. CASE Handle
  <2>1. Handled /\ Record(Head(batch)) /\ trueset' = trueset /\ pc = "handle"
        /\ seen' = [seen EXCEPT ![Head(batch).part] = @ \cup {Head(batch).off}]
    BY <1>4 DEF Handle, Handled
  <2>2. PICK e : e = Head(batch)
    OBVIOUS
  <2>3. /\ e.part \in Partitions /\ e.off \in Nat /\ e.off < LongMax
        /\ \A o \in seen[e.part] : o <= e.off
    BY <1>3, <2>1, <2>2
  <2>4. \A p \in Partitions : seen'[p] = IF p = e.part THEN seen[p] \cup {e.off} ELSE seen[p]
    BY <2>1, <2>2, <2>3 DEF TypeInv
  <2>5. TrueInv'
    <3>1. \A p \in Partitions : trueset'[p] = LongMax /\ trueset[p] = LongMax
      BY <2>1 DEF PcInv, All
    <3>2. e.off <= LongMax
      BY <2>3, ConsumerAssumption
    <3> QED
      BY <2>4, <3>1, <3>2 DEF ReportInv, TrueInv
  <2>6. ASSUME NEW p \in Partitions, p # e.part PROVE Bracketed(p)'
    <3>1. newset'[p] = newset[p] /\ lastset'[p] = lastset[p] /\ seen'[p] = seen[p]
      BY <2>1, <2>2, <2>3, <2>4, <2>6 DEF Record, TypeInv
    <3> QED
      BY <3>1 DEF ReportInv, RecordInv, Bracketed
  <2>7. Bracketed(e.part)'
    <3> DEFINE p == e.part
    <3>1. /\ p \in Partitions /\ newset[p] \in Nat /\ lastset[p] \in Nat /\ seen[p] \subseteq Nat
          /\ seen'[p] = seen[p] \cup {e.off}
      BY <2>3, <2>4 DEF TypeInv
    <3>2. /\ newset'[p] = IF e.off < newset[p] THEN e.off ELSE newset[p]
          /\ lastset'[p] = IF ~(e.off < newset[p]) /\ e.off > lastset[p] THEN e.off ELSE lastset[p]
      BY <2>1, <2>2, <2>3 DEF Record, TypeInv
    <3>3. CASE seen[p] = {}
      <4>1. newset[p] = LongMax /\ lastset[p] = 0
        BY <3>1, <3>3 DEF ReportInv, RecordInv, Bracketed
      <4>2. newset'[p] = e.off /\ lastset'[p] = 0 /\ seen'[p] = {e.off}
        BY <2>3, <3>1, <3>2, <3>3, <4>1
      <4> QED
        BY <2>3, <4>2 DEF Bracketed
    <3>4. CASE seen[p] # {}
      <4>1. /\ newset[p] \in seen[p] /\ lastset[p] \in seen[p] \cup {0}
            /\ \A o \in seen[p] : newset[p] <= o /\ (o = newset[p] \/ o <= lastset[p])
        BY <3>1, <3>4 DEF ReportInv, RecordInv, Bracketed
      <4>2. newset[p] <= e.off
        BY <2>3, <4>1
      <4>3. newset'[p] = newset[p] /\ lastset'[p] = IF e.off > lastset[p] THEN e.off ELSE lastset[p]
        BY <2>3, <3>1, <3>2, <4>2
      <4>4. newset'[p] \in seen'[p] /\ lastset'[p] \in seen'[p] \cup {0}
        BY <3>1, <4>1, <4>3
      <4>5. ASSUME NEW o \in seen'[p]
            PROVE  newset'[p] <= o /\ (o = newset'[p] \/ o <= lastset'[p])
        <5>1. CASE o \in seen[p]
          BY <2>3, <3>1, <4>1, <4>3, <5>1
        <5>2. CASE o = e.off
          BY <2>3, <3>1, <4>2, <4>3, <5>2
        <5> QED
          BY <3>1, <5>1, <5>2
      <4>6. seen'[p] # {}
        BY <3>1
      <4> QED
        BY <4>4, <4>5, <4>6 DEF Bracketed
    <3> QED
      BY <3>3, <3>4
  <2> QED
    BY <2>5, <2>6, <2>7 DEF ReportInv, RecordInv
<1>5. CASE HandleTrue
  <2>1. Handled /\ TrueSet(Head(batch)) /\ UNCHANGED <<seen, newset, lastset>>
    BY <1>5 DEF HandleTrue, Handled
  <2>2. RecordInv'
    BY <2>1 DEF ReportInv, RecordInv, Bracketed
  <2>3. ASSUME NEW p \in Partitions, NEW o \in seen[p] PROVE o <= trueset'[p]
    <3>1. trueset'[p] \in {trueset[p], IF p = Head(batch).part THEN Head(batch).off ELSE trueset[p]}
      BY <1>3, <2>1 DEF TrueSet, TypeInv
    <3> QED
      BY <1>3, <2>1, <3>1 DEF ReportInv, TrueInv
  <2> QED
    BY <2>1, <2>2, <2>3 DEF ReportInv, TrueInv
<1>6. CASE TakeBatch \/ Await
  BY <1>1, <1>6 DEF TakeBatch, Await, TakeUpTo
<1>7. CASE BatchDone \/ HourOver \/ Restarted \/ RestartPartition
  BY <1>1, <1>7 DEF BatchDone, HourOver, Restarted, RestartPartition, RestartAt
<1>8. CASE Report
  BY <1>8 DEF Report, All, ReportInv, RecordInv, Bracketed, TrueInv
<1>9. CASE Poll \/ HourPasses
  BY <1>1, <1>9 DEF Poll, HourPasses, vars
<1>10. ASSUME NEW p \in Partitions, Produce(p) \/ Library(p) PROVE ReportInv'
  BY <1>1, <1>10 DEF Produce, Library, Resolve, Fetch, SignalEnd
<1> QED
  BY <1>2, <1>4, <1>5, <1>6, <1>7, <1>8, <1>9, <1>10 DEF Next, Process

(* From two events on lastset is the highest of them as well. *)
LEMMA InvBrackets == BaseInv /\ ReportInv => ReportBrackets
<1> SUFFICES ASSUME TypeInv, ReportInv, NEW p \in Partitions, Cardinality(seen[p]) >= 2
             PROVE  /\ newset[p] \in seen[p] /\ lastset[p] \in seen[p]
                    /\ \A o \in seen[p] : newset[p] <= o /\ o <= lastset[p]
                    /\ lastset[p] <= trueset[p]
  BY DEF BaseInv, ReportBrackets
<1>1. seen[p] # {}
  BY FS_EmptySet
<1>2. /\ newset[p] \in seen[p] /\ lastset[p] \in seen[p] \cup {0}
      /\ \A o \in seen[p] : newset[p] <= o /\ (o = newset[p] \/ o <= lastset[p])
      /\ \A o \in seen[p] : o <= trueset[p] /\ o \in Nat
      /\ lastset[p] \in Nat
  BY <1>1 DEF ReportInv, RecordInv, Bracketed, TrueInv, TypeInv
<1>3. PICK o \in seen[p] : o # newset[p]
  <2>1. ASSUME seen[p] = {newset[p]} PROVE FALSE
    BY <2>1, FS_Singleton
  <2> QED
    BY <1>1, <1>2, <2>1
<1>4. newset[p] < o /\ o <= lastset[p]
  BY <1>2, <1>3
<1>5. lastset[p] \in seen[p] /\ newset[p] <= lastset[p]
  BY <1>2, <1>4
<1> QED
  BY <1>2, <1>5

(* When the offsets file is written, newset and lastset are the first and  *)
(* the last offset of the hour for every partition with two of them, and   *)
(* trueset lies behind: the ratio written for it is at most one.  The      *)
(* order of the events, and that no offset is LONG_MAX, are what makes the *)
(* if and else-if of the loop (97-103) a minimum and a maximum.            *)
THEOREM ReportIsBracketed == Spec => []ReportBrackets
<1>1. Init => BaseInv /\ FlightInv /\ ReportInv
  <2>1. Init => ReportInv
    BY DEF Init, ReportInv, RecordInv, Bracketed, TrueInv, All
  <2> QED
    BY <2>1, BaseInit, FlightInit
<1>2. (BaseInv /\ FlightInv /\ ReportInv) /\ [Next]_vars => (BaseInv /\ FlightInv /\ ReportInv)'
  BY BaseStep, FlightStep, ReportStep
<1>3. BaseInv /\ FlightInv /\ ReportInv => ReportBrackets
  BY InvBrackets
<1> QED
  BY <1>1, <1>2, <1>3, PTL DEF Spec
=============================================================================
