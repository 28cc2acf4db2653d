------------------------- MODULE TopicTakes_proofs --------------------------
(***************************************************************************)
(* What the take verbs return and count, for every number of publishers,   *)
(* subscribers, slots and records: no way back, one deadline miss per record, *)
(* and the overwrite counter.                                              *)
(***************************************************************************)
EXTENDS TopicFan_proofs

\* A mailbox is never ahead of the last record nor behind what was read from it,
\* and equal ordinals are equal records.
LineAt(s) ==
  /\ latest[s].ordinal <= master.ordinal /\ loaded[s].ordinal <= latest[s].ordinal
  /\ latest[s].ordinal = master.ordinal => latest[s] = master
  /\ loaded[s].ordinal = latest[s].ordinal => loaded[s] = latest[s]
  /\ 0 \notin taken[s] /\ IsFiniteSet(taken[s])
  /\ IsLatest(s) => \A o \in taken[s] : /\ o <= latest[s].ordinal
                                        /\ loaded[s] # NoRecord => o <= loaded[s].ordinal

LineInv ==
  /\ \A p \in Pubs : pub_pc[p] = "master" => master.ordinal < accepted_ordinal
  /\ \A s \in Subs : LineAt(s)

\* A miss is paid for by a record no take returned before: an unlatched core has
\* one to spare, and while the latch is set every record a take can return again
\* is stale.
Stale(s, r) == now - r.stamp > sub_qos[s].deadline

MissAt(s) ==
  /\ deadline_miss_count[s] <= Cardinality(taken[s])
  /\ ~stale_latched[s] /\ taken[s] # {} => deadline_miss_count[s] < Cardinality(taken[s])
  /\ stale_latched[s] /\ IsLatest(s) =>
       \A r \in {master, latest[s], loaded[s]} : r.ordinal \in taken[s] => Stale(s, r)

MissInv == \A s \in Subs : MissAt(s)

\* Where subscriber s joined: b is the ordinal before the first one it is
\* delivered.  The counter has charged every ordinal from there to the last
\* consumed one that no take returned, and perhaps b + 1, when a take had
\* returned that one as the seed before the delivery.
Unset(s) == last_consumed_ordinal[s] = kBaselineUnset

Skipped(s, b) == ((b + 1)..last_consumed_ordinal[s]) \ taken[s]

\* b comes before the first delivery, which has happened or is under way.
Base(s, b) ==
  /\ last_consumed_ordinal[s] \in b..MaxAccepted
  /\ offered[s] = {} =>
       b + 1 = accepted_ordinal /\ \E p \in Pubs : pub_pc[p] = "store" /\ target[p] = s
  /\ offered[s] # {} => b + 1 \in offered[s] /\ \A o \in offered[s] : b + 1 <= o

\* What was shown and taken since.
Since(s, b) ==
  /\ last_consumed_ordinal[s] > b =>
       /\ last_consumed_ordinal[s] \in taken[s]
       /\ last_consumed_ordinal[s] \in offered[s] \cup {b + 1}
  /\ \A t \in taken[s] : t <= last_consumed_ordinal[s] \/ t = b + 1
  /\ latest[s].ordinal > b => latest[s].ordinal \in offered[s] \cup {b + 1}
  /\ loaded[s].ordinal > b => loaded[s].ordinal \in offered[s] \cup {b + 1}

Charged(s, b) ==
  \/ overwrite_count[s] = Cardinality(Skipped(s, b))
  \/ /\ overwrite_count[s] = Cardinality(Skipped(s, b)) + 1
     /\ b + 1 \in taken[s] /\ last_consumed_ordinal[s] > b + 1

Joined(s, b) == Base(s, b) /\ Since(s, b) /\ Charged(s, b)

OverAt(s) ==
  IsLatest(s) => \/ Unset(s) /\ offered[s] = {} /\ overwrite_count[s] = 0
                 \/ \E b \in 0..MaxAccepted : Joined(s, b)

OverInv ==
  /\ \A p \in Pubs, s \in Subs : pub_pc[p] = "store" /\ target[p] = s => ~Unset(s)
  /\ \A s \in Subs : sub_pc[s] \notin {"attached", "detached"} => Unset(s)
  /\ \A s \in Subs : OverAt(s)

-----------------------------------------------------------------------------
\* A deadline miss needs a record no take returned before.

LEMMA LineDeliver ==
  ASSUME TableInv, LossInv, LineInv, NEW p \in Pubs, Deliver(p)
  PROVE  LineInv'
<1>0. /\ TypeInv /\ pub_pc \in [Pubs -> PubStates]
      /\ UNCHANGED <<loaded, taken, sub_qos>>
      /\ Delivering(p) => \A q \in Pubs : q # p => ~Delivering(q)
  BY Fixed, Fan0, Alone DEF TableInv
<1>1. CASE StoreMaster(p)
  <2>1. /\ pub_pc[p] = "master" /\ pub_pc'[p] = "load" /\ master' = record[p] /\ latest' = latest
    BY <1>0, <1>1 DEF StoreMaster, PubGoto, boxVars
  <2>2. record[p].ordinal = accepted_ordinal /\ master.ordinal < accepted_ordinal
    BY <2>1 DEF TableInv, ConflatesInv, WriterInv, HasOrdinal, LineInv
  <2>3. \A q \in Pubs : pub_pc'[q] # "master"
    BY <1>0, <2>1, Others DEF Delivering
  <2>4. ASSUME NEW s \in Subs PROVE LineAt(s)'
    BY <1>0, <2>1, <2>2, Stamps DEF LineInv, LineAt, IsLatest
  <2> QED
    BY <2>3, <2>4 DEF LineInv
<1>2. CASE ~StoreMaster(p)
  <2>1. master' = master
    BY <1>2, MasterMoves
  <2>2. ASSUME NEW q \in Pubs, pub_pc'[q] = "master" PROVE master'.ordinal < accepted_ordinal'
    <3>1. CASE Accept(p)
      <4>1. accepted_ordinal' = accepted_ordinal + 1
        BY <3>1 DEF Accept
      <4>2. master.ordinal <= accepted_ordinal
        BY DEF TableInv, ConflatesInv, ShownInv, Drawn
      <4> QED
        BY <1>0, <2>1, <4>1, <4>2, Stamps
    <3>2. CASE ~Accept(p)
      <4>1. accepted_ordinal' = accepted_ordinal
        BY <1>2, <3>2 DEF Deliver, PublishFrom, Precheck, ReadClock, LoadSlot, StampBaseline,
           StoreLatest, Push, Count, writeVars
      <4>2. pub_pc[q] = "master"
        <5>1. pub_pc'[p] # "master"
          <6>1. CASE PublishFrom(p) \/ Precheck(p) \/ ReadClock(p) \/ Count(p)
            BY <1>0, <6>1, Early DEF Outside
          <6>2. CASE LoadSlot(p)
            BY <1>0, <6>2, LoadSlotIs
          <6>3. CASE StampBaseline(p)
            BY <1>0, <6>3 DEF StampBaseline, PubGoto
          <6>4. CASE Offers(p)
            BY <1>0, <6>4, OffersIs, Advanced
          <6> QED
            BY <1>2, <3>2, <6>1, <6>2, <6>3, <6>4 DEF Deliver, Offers
        <5> QED
          BY <1>0, <2>2, <5>1, Others
      <4> QED
        BY <2>1, <4>1, <4>2 DEF LineInv
    <3> QED
      BY <3>1, <3>2
  <2>3. ASSUME NEW s \in Subs PROVE LineAt(s)'
    <3>1. latest'[s] = latest[s] \/ latest'[s] = master
      <4>1. CASE Offers(p) /\ s = target[p]
        BY <4>1, PushIs
      <4>2. CASE Offers(p) /\ s # target[p]
        BY <1>0, <4>2, OffersIs
      <4>3. CASE ~Offers(p)
        BY <4>3 DEF Offers, Deliver, PublishFrom, Precheck, ReadClock, Accept, StoreMaster, LoadSlot,
           StampBaseline, Count, boxVars
      <4> QED
        BY <4>1, <4>2, <4>3
    <3>2. LineAt(s)
      BY DEF LineInv
    <3>3. CASE latest'[s] = latest[s]
      BY <1>0, <2>1, <3>2, <3>3 DEF LineAt, IsLatest
    <3>4. CASE latest'[s] = master
      <4>1. /\ loaded[s].ordinal <= master.ordinal /\ latest[s].ordinal <= master.ordinal
            /\ loaded[s].ordinal = master.ordinal => loaded[s] = master
            /\ \A o \in taken[s] : o <= latest[s].ordinal => o <= master.ordinal
        <5>1. taken[s] \subseteq Nat
          BY <1>0 DEF TypeInv, TakeTypes
        <5> QED
          BY <1>0, <3>2, <5>1, Stamps DEF LineAt
      <4> QED
        BY <1>0, <2>1, <3>2, <3>4, <4>1, Stamps DEF LineAt, IsLatest
    <3> QED
      BY <3>1, <3>3, <3>4
  <2> QED
    BY <2>2, <2>3 DEF LineInv
<1> QED
  BY <1>1, <1>2

LEMMA LineSeed ==
  ASSUME TableInv, LineInv, NEW t \in Subs, Seed(t), NEW s \in Subs
  PROVE  LineAt(s)'
<1>0. /\ UNCHANGED <<master, loaded, taken, sub_qos>> /\ TypeInv /\ LineAt(s)
      /\ taken[s] \subseteq Nat
  BY DEF Seed, writeVars, takeVars, TableInv, LineInv, TypeInv, TakeTypes
<1>1. latest'[s] = latest[s] \/ (latest'[s] = master /\ latest[s] = NoRecord)
  BY <1>0 DEF Seed, SeedRecord, TableInv, ConflatesInv, BornInv, TypeInv, BoxTypes
<1>2. CASE latest'[s] = latest[s]
  BY <1>0, <1>2 DEF LineAt, IsLatest
<1>3. CASE latest'[s] = master /\ latest[s] = NoRecord
  <2>1. loaded[s].ordinal = 0
    BY <1>0, <1>3, Stamps DEF LineAt, NoRecord
  <2>2. loaded[s] = NoRecord /\ (master.ordinal = 0 => master = NoRecord)
    BY <2>1 DEF TableInv, ConflatesInv, ShownInv, Drawn
  <2>3. \A o \in taken[s] : o <= latest[s].ordinal => o <= master.ordinal
    BY <1>0, <1>3, Stamps DEF NoRecord
  <2> QED
    BY <1>0, <1>3, <2>1, <2>2, <2>3, Stamps DEF LineAt, IsLatest
<1> QED
  BY <1>1, <1>2, <1>3

LEMMA TakeLatestIs ==
  ASSUME TypeInv, ConflatesInv, NEW s \in Subs, TakeLatest(s)
  PROVE  /\ IsLatest(s) /\ loaded[s] # NoRecord /\ loaded[s].ordinal # 0 /\ loaded'[s] = NoRecord
         /\ taken'[s] = taken[s] \cup {loaded[s].ordinal}
         /\ stale_latched'[s] = Stale(s, loaded[s])
         /\ deadline_miss_count'[s] = IF Stale(s, loaded[s]) /\ ~stale_latched[s]
                                      THEN deadline_miss_count[s] + 1 ELSE deadline_miss_count[s]
<1>0. /\ loaded \in [Subs -> Record] /\ taken \in [Subs -> SUBSET Nat]
      /\ stale_latched \in [Subs -> BOOLEAN] /\ deadline_miss_count \in [Subs -> Nat]
  BY DEF TypeInv, TakeTypes
<1>1. IsLatest(s) /\ loaded[s] # NoRecord /\ loaded[s].ordinal # 0
  BY DEF TakeLatest, ConflatesInv, BornInv, ShownInv, Drawn
<1>2. loaded'[s] = NoRecord /\ taken'[s] = taken[s] \cup {loaded[s].ordinal}
  BY <1>0 DEF TakeLatest
<1>3. /\ stale_latched'[s] = Stale(s, loaded[s])
      /\ deadline_miss_count'[s] = IF Stale(s, loaded[s]) /\ ~stale_latched[s]
                                   THEN deadline_miss_count[s] + 1 ELSE deadline_miss_count[s]
  BY <1>0 DEF TakeLatest, Judge, Misses, Stale
<1> QED
  BY <1>1, <1>2, <1>3

LEMMA TakeOthers ==
  ASSUME TypeInv, NEW t \in Subs, Take(t), NEW s \in Subs, s # t
  PROVE  /\ loaded'[s] = loaded[s] /\ taken'[s] = taken[s]
         /\ stale_latched'[s] = stale_latched[s] /\ deadline_miss_count'[s] = deadline_miss_count[s]
         /\ overwrite_count'[s] = overwrite_count[s]
         /\ last_consumed_ordinal'[s] = last_consumed_ordinal[s]
<1>0. /\ loaded \in [Subs -> Record] /\ taken \in [Subs -> SUBSET Nat]
      /\ stale_latched \in [Subs -> BOOLEAN] /\ deadline_miss_count \in [Subs -> Nat]
      /\ overwrite_count \in [Subs -> Nat] /\ last_consumed_ordinal \in [Subs -> 0..kBaselineUnset]
  BY DEF TypeInv, TakeTypes, BoxTypes
<1>1. CASE LoadLatest(t)
  BY <1>0, <1>1 DEF LoadLatest
<1>2. CASE TakeLatest(t)
  <2>1. loaded'[s] = loaded[s] /\ taken'[s] = taken[s]
    BY <1>0, <1>2 DEF TakeLatest
  <2>2. stale_latched'[s] = stale_latched[s] /\ deadline_miss_count'[s] = deadline_miss_count[s]
    BY <1>0, <1>2 DEF TakeLatest, Judge
  <2>3. /\ overwrite_count'[s] = overwrite_count[s]
        /\ last_consumed_ordinal'[s] = last_consumed_ordinal[s]
    BY <1>0, <1>2 DEF TakeLatest
  <2> QED
    BY <2>1, <2>2, <2>3
<1>3. CASE TryTake(t)
  BY <1>0, <1>3 DEF TryTake, Judge
<1> QED
  BY <1>1, <1>2, <1>3 DEF Take

LEMMA LineTake ==
  ASSUME TableInv, LossInv, QueueInv, StampInv, LineInv, NEW t \in Subs, Take(t), NEW s \in Subs
  PROVE  LineAt(s)'
<1>0. /\ UNCHANGED <<master, latest, sub_qos>> /\ TypeInv /\ LineAt(s) /\ ConflatesInv
      /\ (IsLatest(s)' <=> IsLatest(s)) /\ taken[s] \subseteq Nat
  BY DEF Take, takeFrame, writeVars, subVars, TableInv, LineInv, IsLatest, TypeInv, TakeTypes
<1>1. CASE s # t
  BY <1>0, <1>1, TakeOthers DEF LineAt
<1>2. CASE s = t /\ LoadLatest(t)
  <2>1. loaded'[s] = latest[s] /\ taken' = taken
    BY <1>0, <1>2 DEF LoadLatest, TypeInv, TakeTypes
  <2> QED
    BY <1>0, <2>1, Stamps DEF LineAt
<1>3. CASE s = t /\ TakeLatest(t)
  <2>1. /\ IsLatest(s) /\ loaded[s].ordinal # 0 /\ loaded'[s] = NoRecord
        /\ taken'[s] = taken[s] \cup {loaded[s].ordinal}
    BY <1>0, <1>3, TakeLatestIs
  <2>2. latest[s].ordinal # 0 /\ loaded'[s].ordinal = 0
    BY <1>0, <2>1, Stamps DEF LineAt, NoRecord
  <2>3. IsFiniteSet(taken'[s])
    BY <1>0, <2>1, FS_AddElement DEF LineAt
  <2> QED
    BY <1>0, <2>1, <2>2, <2>3, Stamps DEF LineAt
<1>4. CASE s = t /\ TryTake(t)
  <2>1. /\ taken'[s] = taken[s] \cup {Head(queue[s]).ordinal} /\ loaded' = loaded /\ ~IsLatest(s)
        /\ queue[s] # <<>>
    BY <1>0, <1>4 DEF TryTake, TypeInv, TakeTypes
  <2>2. Head(queue[s]).ordinal \in offered[s]
    <3>1. queue[s] \in Seq(Record)
      BY <1>0 DEF TypeInv, BoxTypes
    <3>2. Head(queue[s]) = queue[s][1] /\ 1 \in 1..Len(queue[s])
      BY <2>1, <3>1, Tail1
    <3> QED
      BY <3>2 DEF StampInv, RingAt
  <2>3. Head(queue[s]).ordinal # 0
    BY <1>0, <2>2, Stamps DEF LossInv, LossAt
  <2>4. IsFiniteSet(taken'[s])
    <3> DEFINE o == Head(queue[s]).ordinal
    <3>1. IsFiniteSet(taken[s]) /\ taken'[s] = taken[s] \cup {o}
      BY <1>0, <2>1 DEF LineAt
    <3> HIDE DEF o
    <3> QED
      BY <3>1, FS_AddElement
  <2> QED
    BY <1>0, <2>1, <2>3, <2>4 DEF LineAt
<1> QED
  BY <1>1, <1>2, <1>3, <1>4 DEF Take

LineContext == TableInv /\ LossInv /\ StampInv /\ QueueInv

LEMMA LineNext == LineContext /\ LineInv /\ [Next]_vars => LineInv'
<1> SUFFICES ASSUME LineContext, LineInv, [Next]_vars PROVE LineInv'
  OBVIOUS
<1> USE DEF LineContext
<1>1. ASSUME UNCHANGED <<master, latest, loaded, taken, sub_qos, accepted_ordinal>>,
             \A p \in Pubs : pub_pc'[p] = "master" => pub_pc[p] = "master"
      PROVE  LineInv'
  BY <1>1 DEF LineInv, LineAt, IsLatest
<1>2. ASSUME NEW p \in Pubs, AddPublisher(p) \/ RemovePublisher(p) PROVE LineInv'
  <2>1. \A q \in Pubs : pub_pc'[q] = "master" => pub_pc[q] = "master"
    BY <1>2, Fan0 DEF AddPublisher, RemovePublisher, PubGoto, TableInv
  <2> QED
    BY <1>1, <1>2, <2>1 DEF AddPublisher, RemovePublisher, writeVars, subVars, boxVars, takeVars
<1>3. ASSUME NEW t \in Subs, Seed(t) PROVE LineInv'
  <2>1. UNCHANGED <<pub_pc, master, accepted_ordinal>>
    BY <1>3 DEF Seed, writeVars, pubVars
  <2> QED
    BY <1>3, <2>1, LineSeed DEF LineInv
<1>4. ASSUME NEW t \in Subs, Attach(t) \/ RemoveSubscriber(t) PROVE LineInv'
  BY <1>1, <1>4 DEF Attach, RemoveSubscriber, writeVars, pubVars, boxVars, takeVars
<1>5. ASSUME NEW t \in Subs, Take(t) PROVE LineInv'
  <2>1. UNCHANGED <<pub_pc, master, accepted_ordinal>>
    BY <1>5 DEF Take, takeFrame, writeVars, pubVars
  <2> QED
    BY <1>5, <2>1, LineTake DEF LineInv
<1>6. CASE Tick \/ UNCHANGED vars
  BY <1>1, <1>6 DEF Tick, vars, writeVars, pubVars, subVars, boxVars, takeVars
<1> QED
  BY <1>2, <1>3, <1>4, <1>5, <1>6, LineDeliver DEF Next

LEMMA LineInvariant == Spec => [](LineContext /\ LineInv)
<1>1. Init => LineInv
  BY FS_EmptySet DEF Init, LineInv, LineAt, NoRecord
<1> QED
  BY <1>1, LineNext, LossInvariant, StampInvariant, QueueInvariant, PTL DEF Spec, LineContext

\* Only a take's return adds a record, the one it holds.
LEMMA Forward ==
  ASSUME TypeInv, ConflatesInv, LineInv, [Next]_vars, NEW s \in Subs
  PROVE  LET old == IF IsLatest(s) THEN taken[s] ELSE {}
             new == (IF IsLatest(s) THEN taken[s] ELSE {})'
         IN  \A o \in new \ old : \A t \in old : o > t
<1> DEFINE Old == IF IsLatest(s) THEN taken[s] ELSE {}
<1>1. Box(s)!Step
  BY StepNext
<1>2. CASE Box(s)!Return
  <2>1. loaded[s].ordinal # 0 /\ Old' = Old \cup {loaded[s].ordinal}
    BY <1>2 DEF Box!Return
  <2>2. loaded[s] # NoRecord /\ loaded[s].ordinal \in Nat /\ taken[s] \subseteq Nat
    BY <2>1, Stamps DEF NoRecord, TypeInv, TakeTypes
  <2>3. \A t \in Old : t <= loaded[s].ordinal /\ t \in Nat
    BY <2>2 DEF LineInv, LineAt
  <2> HIDE DEF Old
  <2>4. \A o \in Old' \ Old : \A t \in Old : o > t
    BY <2>1, <2>2, <2>3
  <2> QED
    BY <2>4 DEF Old
<1>3. CASE ~Box(s)!Return
  BY <1>1, <1>3 DEF Box!Step, Box!Next, Box!Post, Box!Read, Box!vars
<1> QED
  BY <1>2, <1>3

\* A subscriber of an in-process topic never goes back, for any number of
\* publishers, subscribers and slots: a record a latest-only take returns for the
\* first time is newer than all it returned before (in_process.hpp's TakeLatest).
THEOREM NeverBackAlways ==
  ASSUME NEW s \in Subs
  PROVE  Spec => Box(s)!NeverBack
<1>1. TypeInv /\ ConflatesInv /\ LineInv /\ [Next]_vars
      => [\A o \in (IF IsLatest(s) THEN taken[s] ELSE {})' \ (IF IsLatest(s) THEN taken[s] ELSE {}) :
            \A t \in IF IsLatest(s) THEN taken[s] ELSE {} : o > t]_(Box(s)!vars)
  BY Forward
<1> QED
  BY <1>1, TypeInvariant, ConflatesInvariant, LineInvariant, PTL DEF Spec, Box!NeverBack

\* The first two conjuncts of MissAt, over a take that returns ordinal o.
LEMMA MissPaid ==
  ASSUME NEW m \in Nat, NEW n, NEW T, IsFiniteSet(T), NEW o, NEW stale \in BOOLEAN, NEW latched \in BOOLEAN,
         m <= Cardinality(T), ~latched /\ T # {} => m < Cardinality(T),
         latched /\ o \in T => stale,
         stale /\ ~latched => n = m + 1, ~stale \/ latched => n = m
  PROVE  /\ n <= Cardinality(T \cup {o})
         /\ ~stale => n < Cardinality(T \cup {o})
<1>0. Cardinality(T) \in Nat
  BY FS_CardinalityType
<1>1. CASE o \in T
  <2>1. T \cup {o} = T /\ T # {}
    BY <1>1
  <2>2. CASE ~latched
    <3>1. m < Cardinality(T)
      BY <2>1, <2>2
    <3>2. n = m \/ (n = m + 1 /\ stale)
      BY <2>2
    <3> QED
      BY <1>0, <2>1, <3>1, <3>2
  <2>3. CASE latched
    <3>1. stale /\ n = m
      BY <1>1, <2>3
    <3> QED
      BY <2>1, <3>1
  <2> QED
    BY <2>2, <2>3
<1>2. CASE o \notin T
  <2>1. Cardinality(T \cup {o}) = Cardinality(T) + 1
    BY <1>2, FS_AddElement
  <2> QED
    BY <1>0, <2>1
<1> QED
  BY <1>1, <1>2

\* What takes can return may change, if what was returned before stays the same.
LEMMA MissKept ==
  ASSUME TypeInv, TypeInv', NEW s \in Subs, MissAt(s), sub_qos' = sub_qos, now <= now',
         taken'[s] = taken[s], deadline_miss_count'[s] = deadline_miss_count[s],
         stale_latched'[s] = stale_latched[s],
         \A r \in {master', latest'[s], loaded'[s]} :
           r.ordinal \in taken[s] /\ IsLatest(s) => r \in {master, latest[s], loaded[s]}
  PROVE  MissAt(s)'
<1>1. /\ now \in Nat /\ now' \in Nat
      /\ \A r \in {master', latest'[s], loaded'[s]} : r.stamp \in Nat
      /\ sub_qos[s].deadline \in Nat
  <2>1. sub_qos[s] \in SubQos
    BY DEF TypeInv, BoxTypes
  <2> QED
    BY <2>1, TopicAssumption, Stamps DEF TypeInv, TopicTypes, BoxTypes, TakeTypes, Record
<1>2. IsLatest(s)' <=> IsLatest(s)
  BY DEF IsLatest
<1>3. ASSUME stale_latched'[s], IsLatest(s)', NEW r \in {master', latest'[s], loaded'[s]},
             r.ordinal \in taken'[s]
      PROVE  now' - r.stamp > sub_qos'[s].deadline
  <2>1. now - r.stamp > sub_qos[s].deadline
    BY <1>2, <1>3 DEF MissAt, Stale
  <2> QED
    BY <1>1, <2>1
<1> QED
  BY <1>3 DEF MissAt, Stale

LEMMA MissDeliver ==
  ASSUME LineContext, TypeInv', LineInv, NEW p \in Pubs, Deliver(p), NEW s \in Subs, MissAt(s)
  PROVE  MissAt(s)'
<1>0. /\ UNCHANGED <<now, sub_qos, taken, deadline_miss_count, stale_latched, loaded>>
      /\ TypeInv /\ now \in Nat /\ LineAt(s)
  BY Fixed, Stamps DEF LineContext, TableInv, LineInv
<1>1. latest'[s] = latest[s] \/ latest'[s] = master
  <2>1. CASE Offers(p) /\ s = target[p]
    BY <2>1, PushIs DEF LineContext
  <2>2. CASE Offers(p) /\ s # target[p]
    BY <1>0, <2>2, OffersIs
  <2>3. CASE ~Offers(p)
    BY <2>3 DEF Offers, Deliver, PublishFrom, Precheck, ReadClock, Accept, StoreMaster, LoadSlot,
       StampBaseline, Count, boxVars
  <2> QED
    BY <2>1, <2>2, <2>3
<1>2. master' = master \/ (IsLatest(s) => master'.ordinal \notin taken[s])
  <2>1. CASE StoreMaster(p)
    <3>1. /\ pub_pc[p] = "master" /\ master' = record[p]
      BY <2>1 DEF StoreMaster
    <3>2. master'.ordinal = accepted_ordinal /\ master.ordinal < accepted_ordinal
      BY <3>1 DEF LineContext, TableInv, ConflatesInv, WriterInv, HasOrdinal, LineInv
    <3>3. taken[s] \subseteq Nat
      BY <1>0 DEF TypeInv, TakeTypes
    <3> QED
      BY <1>0, <3>2, <3>3, Stamps DEF LineAt
  <2>2. CASE ~StoreMaster(p)
    BY <2>2, MasterMoves
  <2> QED
    BY <2>1, <2>2
<1>3. now <= now'
  BY <1>0
<1>4. \A r \in {master', latest'[s], loaded'[s]} :
        r.ordinal \in taken[s] /\ IsLatest(s) => r \in {master, latest[s], loaded[s]}
  BY <1>0, <1>1, <1>2
<1> QED
  BY <1>0, <1>3, <1>4, MissKept

LEMMA MissTake ==
  ASSUME LineContext, TypeInv', LineInv, NEW t \in Subs, Take(t), NEW s \in Subs, MissAt(s)
  PROVE  MissAt(s)'
<1>0. /\ UNCHANGED <<now, master, latest, sub_qos>> /\ TypeInv /\ ConflatesInv /\ now \in Nat
      /\ (IsLatest(s)' <=> IsLatest(s)) /\ LineAt(s) /\ now <= now'
      /\ deadline_miss_count[s] \in Nat /\ stale_latched[s] \in BOOLEAN /\ taken[s] \subseteq Nat
  BY Stamps DEF Take, takeFrame, topicVars, writeVars, subVars, LineContext, TableInv, LineInv, IsLatest,
     TypeInv, TakeTypes
<1>1. CASE s # t
  <2>1. /\ loaded'[s] = loaded[s] /\ taken'[s] = taken[s]
        /\ stale_latched'[s] = stale_latched[s] /\ deadline_miss_count'[s] = deadline_miss_count[s]
    BY <1>0, <1>1, TakeOthers
  <2> QED
    BY <1>0, <2>1, MissKept
<1>2. CASE s = t /\ LoadLatest(t)
  <2>1. loaded'[s] = latest[s] /\ UNCHANGED <<taken, stale_latched, deadline_miss_count>>
    BY <1>0, <1>2 DEF LoadLatest, TypeInv, TakeTypes
  <2> QED
    BY <1>0, <2>1, MissKept
<1>3. CASE s = t /\ TakeLatest(t)
  <2> DEFINE r == loaded[s]
             T == taken[s]
  <2>1. /\ IsLatest(s) /\ r # NoRecord /\ r.ordinal # 0 /\ loaded'[s] = NoRecord
        /\ taken'[s] = T \cup {r.ordinal} /\ stale_latched'[s] = Stale(s, r)
        /\ deadline_miss_count'[s] = IF Stale(s, r) /\ ~stale_latched[s]
                                     THEN deadline_miss_count[s] + 1 ELSE deadline_miss_count[s]
    BY <1>0, <1>3, TakeLatestIs
  <2>2. stale_latched[s] /\ r.ordinal \in T => Stale(s, r)
    BY <2>1 DEF MissAt
  <2>3. /\ deadline_miss_count'[s] <= Cardinality(taken'[s])
        /\ ~stale_latched'[s] => deadline_miss_count'[s] < Cardinality(taken'[s])
    <3>1. /\ deadline_miss_count[s] <= Cardinality(T)
          /\ ~stale_latched[s] /\ T # {} => deadline_miss_count[s] < Cardinality(T)
          /\ IsFiniteSet(T)
      BY <1>0 DEF MissAt, LineAt
    <3>2. Stale(s, r) \in BOOLEAN
      BY DEF Stale
    <3> HIDE DEF r, T
    <3> QED
      BY <1>0, <2>1, <2>2, <3>1, <3>2, MissPaid
  <2>4. ASSUME NEW x \in {master, latest[s]}, x.ordinal \in taken'[s] PROVE x = r
    <3>1. x.ordinal \in Nat /\ r.ordinal \in Nat /\ r.ordinal <= x.ordinal
      BY <1>0, Stamps DEF LineAt
    <3>2. x.ordinal <= r.ordinal
      BY <1>0, <2>1, <2>4, <3>1 DEF LineAt
    <3>3. x.ordinal = r.ordinal
      BY <3>1, <3>2
    <3>4. /\ latest[s].ordinal \in Nat /\ master.ordinal \in Nat
          /\ r.ordinal <= latest[s].ordinal /\ latest[s].ordinal <= master.ordinal
      BY <1>0, Stamps DEF LineAt
    <3>5. latest[s].ordinal = r.ordinal /\ (x = master => latest[s].ordinal = master.ordinal)
      BY <3>1, <3>3, <3>4, <2>4
    <3>6. latest[s] = r /\ (x = master => latest[s] = master)
      BY <1>0, <3>5 DEF LineAt
    <3> QED
      BY <2>4, <3>6
  <2>5. NoRecord.ordinal \notin taken'[s]
    BY <1>0, <2>1 DEF LineAt, NoRecord
  <2>6. ASSUME stale_latched'[s], NEW x \in {master', latest'[s], loaded'[s]}, x.ordinal \in taken'[s]
        PROVE  now' - x.stamp > sub_qos'[s].deadline
    <3>1. x = r
      BY <1>0, <2>1, <2>4, <2>5, <2>6
    <3>2. Stale(s, r)
      BY <2>1, <2>6
    <3> QED
      BY <1>0, <3>1, <3>2 DEF Stale
  <2> QED
    BY <2>3, <2>6 DEF MissAt, Stale
<1>4. CASE s = t /\ TryTake(t)
  <2> DEFINE r == Head(queue[s])
  <2>1. /\ ~IsLatest(s) /\ r.ordinal \notin taken[s] /\ IsFiniteSet(taken[s])
        /\ taken'[s] = taken[s] \cup {r.ordinal}
    BY <1>4, FreshTake DEF TryTake, LineContext
  <2>2. /\ stale_latched'[s] = Stale(s, r)
        /\ deadline_miss_count'[s] = IF Stale(s, r) /\ ~stale_latched[s]
                                     THEN deadline_miss_count[s] + 1 ELSE deadline_miss_count[s]
    BY <1>0, <1>4 DEF TryTake, Judge, Misses, Stale, TypeInv, TakeTypes
  <2>3. /\ deadline_miss_count[s] <= Cardinality(taken[s])
        /\ ~stale_latched[s] /\ taken[s] # {} => deadline_miss_count[s] < Cardinality(taken[s])
        /\ Stale(s, r) \in BOOLEAN
    BY DEF MissAt, Stale
  <2> HIDE DEF r
  <2>4. /\ deadline_miss_count'[s] <= Cardinality(taken'[s])
        /\ ~stale_latched'[s] => deadline_miss_count'[s] < Cardinality(taken'[s])
    BY <1>0, <2>1, <2>2, <2>3, MissPaid
  <2> QED
    BY <1>0, <2>1, <2>4 DEF MissAt
<1> QED
  BY <1>1, <1>2, <1>3, <1>4 DEF Take

LEMMA MissNext == LineContext /\ TypeInv' /\ LineInv /\ MissInv /\ [Next]_vars => MissInv'
<1> SUFFICES ASSUME LineContext, TypeInv', LineInv, MissInv, [Next]_vars, NEW s \in Subs
             PROVE  MissAt(s)'
  BY DEF MissInv
<1>0. MissAt(s) /\ TypeInv /\ now \in Nat
  BY Stamps DEF MissInv, LineContext, TableInv
<1>1. ASSUME UNCHANGED <<master, loaded, taken, deadline_miss_count, stale_latched, sub_qos>>,
             now' \in {now, now + 1}, latest'[s] \in {latest[s], master}
      PROVE  MissAt(s)'
  <2>1. now <= now'
    BY <1>0, <1>1
  <2> QED
    BY <1>0, <1>1, <2>1, MissKept
<1>2. ASSUME NEW p \in Pubs, AddPublisher(p) \/ RemovePublisher(p) PROVE MissAt(s)'
  BY <1>1, <1>2 DEF AddPublisher, RemovePublisher, writeVars, subVars, boxVars, takeVars
<1>3. ASSUME NEW t \in Subs, Seed(t) \/ Attach(t) \/ RemoveSubscriber(t) PROVE MissAt(s)'
  <2>1. UNCHANGED <<now, master, loaded, taken, deadline_miss_count, stale_latched, sub_qos>>
    BY <1>3 DEF Seed, Attach, RemoveSubscriber, writeVars, takeVars
  <2>2. latest'[s] \in {latest[s], master}
    BY <1>0, <1>3 DEF Seed, SeedRecord, Attach, RemoveSubscriber, boxVars, TypeInv, BoxTypes
  <2> QED
    BY <1>1, <2>1, <2>2
<1>4. CASE Tick \/ UNCHANGED vars
  BY <1>1, <1>4 DEF Tick, vars, topicVars, writeVars, subVars, boxVars, takeVars
<1> QED
  BY <1>0, <1>2, <1>3, <1>4, MissDeliver, MissTake DEF Next

\* D3 for any deadlines and number of takes: re-reading a record that went stale
\* is not a second miss, although the mailbox may be filled again between takes.
THEOREM OneMissPerRecordAlways == Spec => []OneMissPerRecord
<1>1. Init => MissInv
  BY FS_EmptySet DEF Init, MissInv, MissAt
<1>2. MissInv => OneMissPerRecord
  BY DEF MissInv, MissAt, OneMissPerRecord
<1> QED
  BY <1>1, <1>2, MissNext, LineInvariant, TypeInvariant, PTL DEF Spec

-----------------------------------------------------------------------------
\* The overwrite counter.

\* A take moves the last consumed ordinal from c to k; T was taken before.
Moves(b, c, k, T) == b <= c /\ c < k /\ \A t \in T : t <= c \/ t = b + 1

Grows(b, c, k, T) ==
  LET A == ((b + 1)..c) \ T
      S == ((b + 1)..k) \ (T \cup {k})
  IN /\ Cardinality(A) \in Nat
     /\ c > b \/ b + 1 \notin T \/ k = b + 1 => Cardinality(S) = Cardinality(A) + (k - c - 1)
     /\ c = b /\ b + 1 \in T /\ k > b + 1 => Cardinality(A) = 0 /\ Cardinality(S) + 1 = k - c - 1

LEMMA CountSkipped ==
  ASSUME NEW b \in Nat, NEW c \in Nat, NEW k \in Nat, NEW T, Moves(b, c, k, T)
  PROVE  Grows(b, c, k, T)
<1> DEFINE A == ((b + 1)..c) \ T
           S == ((b + 1)..k) \ (T \cup {k})
           B == (c + 1)..(k - 1)
<1> USE DEF Moves
<1>1. /\ IsFiniteSet((b + 1)..c) /\ IsFiniteSet(B)
      /\ Cardinality(B) = k - c - 1
  <2>1. /\ IsFiniteSet(B)
        /\ Cardinality(B) = IF c + 1 > k - 1 THEN 0 ELSE (k - 1) - (c + 1) + 1
    BY FS_Interval
  <2> QED
    BY <2>1, FS_Interval
<1>2. IsFiniteSet(A) /\ Cardinality(A) \in Nat
  BY <1>1, FS_Subset, FS_CardinalityType
<1>3. ASSUME c > b \/ b + 1 \notin T \/ k = b + 1 PROVE Cardinality(S) = Cardinality(A) + (k - c - 1)
  <2>1. B \cap T = {}
    <3> SUFFICES ASSUME NEW t \in B, t \in T PROVE FALSE
      OBVIOUS
    <3>1. t = b + 1 /\ c + 1 <= t /\ t <= k - 1
      OBVIOUS
    <3> QED
      BY <1>3, <3>1
  <2>2. S = A \cup B
    <3>1. ASSUME NEW x \in S PROVE x \in A \cup B
      BY <3>1
    <3>2. ASSUME NEW x \in A PROVE x \in S
      BY <3>2
    <3>3. ASSUME NEW x \in B PROVE x \in S
      BY <2>1, <3>3
    <3> QED
      BY <3>1, <3>2, <3>3
  <2>3. A \cap B = {}
    OBVIOUS
  <2>4. Cardinality({}) = 0
    BY FS_EmptySet
  <2> HIDE DEF A, B, S
  <2>5. Cardinality(A \cup B) = Cardinality(A) + Cardinality(B) - Cardinality(A \cap B)
    BY <1>1, <1>2, FS_Union
  <2>6. Cardinality(S) = Cardinality(A \cup B) /\ Cardinality(A \cap B) = 0
    BY <2>2, <2>3, <2>4
  <2> QED
    BY <1>1, <1>2, <2>5, <2>6
<1>4. ASSUME c = b, b + 1 \in T, k > b + 1
      PROVE  Cardinality(A) = 0 /\ Cardinality(S) + 1 = k - c - 1
  <2>1. A = {}
    BY <1>4
  <2>2. S = (b + 2)..(k - 1)
    <3>1. ASSUME NEW x \in S PROVE x \in (b + 2)..(k - 1)
      BY <1>4, <3>1
    <3>2. ASSUME NEW x \in (b + 2)..(k - 1) PROVE x \in S
      BY <1>4, <3>2
    <3> QED
      BY <3>1, <3>2
  <2>3. Cardinality((b + 2)..(k - 1)) = IF b + 2 > k - 1 THEN 0 ELSE (k - 1) - (b + 2) + 1
    BY FS_Interval
  <2>4. Cardinality({}) = 0
    BY FS_EmptySet
  <2> HIDE DEF A, S
  <2> QED
    BY <1>4, <2>1, <2>2, <2>3, <2>4
<1> QED
  BY <1>2, <1>3, <1>4 DEF Grows

\* Ordinals and the mark of a core that was never delivered to.
LEMMA Ordinals ==
  /\ \A b \in 0..MaxAccepted : \A x \in b..MaxAccepted : x # kBaselineUnset
  /\ \A x \in 0..MaxAccepted : x \in x..MaxAccepted /\ (x # 0 => x - 1 \in 0..MaxAccepted)
  /\ \A x \in 0..MaxAccepted : x \in Nat /\ x # kBaselineUnset /\ ~(x > kBaselineUnset) /\ ~(0 > x)
  /\ \A x \in 0..MaxAccepted : ~(x > x) /\ (x + 1)..x = {}
  /\ \A b, k \in 0..MaxAccepted : \A c \in b..MaxAccepted :
       c \in Nat /\ b <= c /\ (k > c => c < k /\ k \in b..MaxAccepted)
BY TopicAssumption DEF kBaselineUnset

LEMMA Counts ==
  \A n \in Nat : n \in n..(n + 0) /\ n \in n..(n + 1) /\ n + 1 \in n..(n + 1)
OBVIOUS

\* Consuming k after c charges what lies between, counted from the join at b.
LEMMA Charge ==
  ASSUME NEW b \in Nat, NEW c \in Nat, NEW k \in Nat, NEW w \in Nat, NEW A \in Nat, NEW S, NEW T,
         b <= c, c < k,
         c > b \/ b + 1 \notin T \/ k = b + 1 => S = A + (k - c - 1),
         c = b /\ b + 1 \in T /\ k > b + 1 => A = 0 /\ S + 1 = k - c - 1,
         w = A \/ (w = A + 1 /\ b + 1 \in T /\ c > b + 1)
  PROVE  \/ w + (k - c - 1) = S
         \/ w + (k - c - 1) = S + 1 /\ b + 1 \in T /\ k > b + 1
<1>1. CASE c > b \/ b + 1 \notin T \/ k = b + 1
  BY <1>1
<1>2. CASE ~(c > b \/ b + 1 \notin T \/ k = b + 1)
  <2>1. c = b /\ b + 1 \in T /\ k > b + 1
    BY <1>2
  <2> QED
    BY <2>1
<1> QED
  BY <1>1, <1>2

LEMMA OverTypes ==
  ASSUME TypeInv, NEW s \in Subs
  PROVE  /\ last_consumed_ordinal \in [Subs -> 0..kBaselineUnset]
         /\ last_consumed_ordinal[s] \in 0..(MaxAccepted + 1) /\ last_consumed_ordinal[s] \in Nat
         /\ overwrite_count \in [Subs -> Nat] /\ overwrite_count[s] \in Nat
         /\ taken[s] \subseteq Nat /\ offered[s] \subseteq Nat
         /\ latest[s].ordinal \in 0..MaxAccepted /\ loaded[s].ordinal \in 0..MaxAccepted
         /\ accepted_ordinal \in 0..MaxAccepted /\ MaxAccepted \in Nat
<1>1. MaxAccepted \in Nat /\ accepted_ordinal \in 0..MaxAccepted
  BY TopicAssumption DEF TypeInv, TopicTypes
<1>2. last_consumed_ordinal \in [Subs -> 0..kBaselineUnset] /\ offered[s] \subseteq Nat
  BY DEF TypeInv, BoxTypes
<1>3. last_consumed_ordinal[s] \in 0..(MaxAccepted + 1) /\ last_consumed_ordinal[s] \in Nat
  BY <1>1, <1>2 DEF kBaselineUnset
<1>4. overwrite_count \in [Subs -> Nat] /\ overwrite_count[s] \in Nat /\ taken[s] \subseteq Nat
  BY DEF TypeInv, TakeTypes
<1>5. latest[s] \in Record /\ loaded[s] \in Record
  BY DEF TypeInv, BoxTypes, TakeTypes
<1>6. latest[s].ordinal \in 0..MaxAccepted /\ loaded[s].ordinal \in 0..MaxAccepted
  BY <1>5 DEF Record
<1> QED
  BY <1>1, <1>2, <1>3, <1>4, <1>6

\* A step that leaves all that is counted alone.
LEMMA JoinedKept ==
  ASSUME NEW s \in Subs, NEW b \in 0..MaxAccepted, Joined(s, b),
         last_consumed_ordinal'[s] = last_consumed_ordinal[s], offered'[s] = offered[s],
         overwrite_count'[s] = overwrite_count[s], taken'[s] = taken[s], latest'[s] = latest[s],
         loaded'[s] = loaded[s] \/ loaded'[s] = latest[s],
         offered[s] = {} => /\ accepted_ordinal' = accepted_ordinal
                            /\ \E p \in Pubs : pub_pc'[p] = "store" /\ target'[p] = s
  PROVE  Joined(s, b)'
<1>1. Base(s, b)'
  BY DEF Joined, Base
<1>2. Since(s, b)'
  BY DEF Joined, Since
<1>3. Charged(s, b)'
  BY DEF Joined, Charged, Skipped
<1> QED
  BY <1>1, <1>2, <1>3 DEF Joined

LEMMA OverKept ==
  ASSUME NEW s \in Subs, OverAt(s), sub_qos' = sub_qos,
         last_consumed_ordinal'[s] = last_consumed_ordinal[s], offered'[s] = offered[s],
         overwrite_count'[s] = overwrite_count[s], taken'[s] = taken[s],
         ~Unset(s) => latest'[s] = latest[s],
         loaded'[s] = loaded[s] \/ loaded'[s] = latest[s],
         offered[s] = {} /\ (\E p \in Pubs : pub_pc[p] = "store" /\ target[p] = s) =>
                            /\ accepted_ordinal' = accepted_ordinal
                            /\ \E p \in Pubs : pub_pc'[p] = "store" /\ target'[p] = s
  PROVE  OverAt(s)'
<1> SUFFICES ASSUME IsLatest(s)'
             PROVE  \/ Unset(s)' /\ offered'[s] = {} /\ overwrite_count'[s] = 0
                    \/ \E b \in 0..MaxAccepted : Joined(s, b)'
  BY DEF OverAt
<1>0. IsLatest(s) /\ (Unset(s)' <=> Unset(s))
  BY DEF IsLatest, Unset
<1>1. CASE Unset(s) /\ offered[s] = {} /\ overwrite_count[s] = 0
  BY <1>0, <1>1
<1>2. ASSUME NEW b \in 0..MaxAccepted, Joined(s, b)
      PROVE  \E x \in 0..MaxAccepted : Joined(s, x)'
  <2>0. last_consumed_ordinal[s] \in b..MaxAccepted
    BY <1>2 DEF Joined, Base
  <2>1. ~Unset(s)
    BY <2>0, Ordinals DEF Unset
  <2>2. offered[s] = {} => \E p \in Pubs : pub_pc[p] = "store" /\ target[p] = s
    BY <1>2 DEF Joined, Base
  <2>3. Joined(s, b)'
    BY <1>2, <2>1, <2>2, JoinedKept
  <2> QED
    BY <2>3
<1> QED
  BY <1>0, <1>1, <1>2 DEF OverAt

\* A delivery under way is the business of the one writer.
LEMMA Pending ==
  ASSUME TableInv, NEW p \in Pubs, Deliver(p), NEW s \in Subs,
         NEW q \in Pubs, pub_pc[q] = "store", target[q] = s, ~(p = q /\ StoreLatest(p))
  PROVE  /\ accepted_ordinal' = accepted_ordinal /\ pub_pc'[q] = "store" /\ target'[q] = s
         /\ ~StampBaseline(p)
<1>1. p # q
  BY DEF Deliver, PublishFrom, Precheck, ReadClock, Accept, StoreMaster, LoadSlot, StampBaseline, Push,
     Count
<1>2. ~Delivering(p)
  BY <1>1, Alone DEF TableInv, Delivering
<1>3. PublishFrom(p)
  BY <1>2 DEF Deliver, Delivering, Precheck, ReadClock, Accept, StoreMaster, LoadSlot, StampBaseline,
     StoreLatest, Push, Count
<1> QED
  BY <1>1, <1>2, <1>3, Others DEF PublishFrom, writeVars, TableInv, StampBaseline, Delivering

\* The first delivery sets the base.
LEMMA OverStamp ==
  ASSUME LineContext, LineInv, NEW p \in Pubs, StampBaseline(p), Deliver(p), NEW s \in Subs,
         s = target[p], OverAt(s)
  PROVE  OverAt(s)' /\ ~Unset(s)'
<1>0. /\ TypeInv /\ pub_pc[p] = "stamp" /\ pub_pc'[p] = "store" /\ target'[p] = s
      /\ UNCHANGED <<accepted_ordinal, offered, overwrite_count, taken, latest, loaded, sub_qos>>
  BY Fixed, Fan0 DEF StampBaseline, PubGoto, writeVars, LineContext, TableInv
<1>1. last_consumed_ordinal'[s] = IF Unset(s) THEN record[p].ordinal - 1 ELSE last_consumed_ordinal[s]
  BY <1>0, OverTypes DEF StampBaseline, Unset, JoinPoint
<1>2. record[p].ordinal = accepted_ordinal /\ accepted_ordinal # 0 /\ master = record[p]
  BY <1>0 DEF LineContext, TableInv, ConflatesInv, WriterInv, FanInv, FanAt, HasOrdinal, Inside, TypeInv,
     DeliverInv
<1>3. CASE ~Unset(s)
  <2>1. ~ \E q \in Pubs : pub_pc[q] = "store" /\ target[q] = s
    BY <1>0, Pending DEF LineContext, StoreLatest
  <2>2. OverAt(s)'
    BY <1>0, <1>1, <1>3, <2>1, OverKept
  <2> QED
    BY <1>1, <1>3, <2>2 DEF Unset
<1>4. CASE Unset(s)
  <2>0. accepted_ordinal - 1 \in 0..MaxAccepted
    <3>1. accepted_ordinal \in 0..MaxAccepted
      BY <1>0, OverTypes
    <3> QED
      BY <1>2, <3>1, Ordinals
  <2>1. PICK b \in 0..MaxAccepted : b + 1 = accepted_ordinal /\ last_consumed_ordinal'[s] = b
    BY <1>0, <1>1, <1>2, <1>4, <2>0, OverTypes
  <2>2. IsLatest(s) => offered[s] = {} /\ overwrite_count[s] = 0
    <3>1. \A x \in 0..MaxAccepted : ~Joined(s, x)
      BY <1>4, Ordinals DEF Joined, Base, Unset
    <3> QED
      BY <3>1 DEF OverAt
  <2>3. ASSUME IsLatest(s) PROVE Joined(s, b)'
    <3>1. Base(s, b)'
      <4>1. last_consumed_ordinal'[s] \in b..MaxAccepted
        BY <2>1, Ordinals
      <4>2. offered'[s] = {} /\ b + 1 = accepted_ordinal'
        BY <1>0, <2>1, <2>2, <2>3
      <4>3. pub_pc'[p] = "store" /\ target'[p] = s
        BY <1>0
      <4> QED
        BY <4>1, <4>2, <4>3 DEF Base
    <3>2. /\ latest[s].ordinal <= b + 1 /\ loaded[s].ordinal <= b + 1
          /\ \A t \in taken[s] : t <= b + 1
      <4>1. LineAt(s)
        BY DEF LineInv
      <4>2. master.ordinal = b + 1
        BY <1>2, <2>1
      <4>3. latest[s].ordinal <= b + 1 /\ loaded[s].ordinal <= latest[s].ordinal
        BY <4>1, <4>2 DEF LineAt
      <4>4. \A t \in taken[s] : t <= latest[s].ordinal
        BY <2>3, <4>1 DEF LineAt
      <4>5. \A x, y \in Nat : x <= y /\ y <= b + 1 => x <= b + 1
        OBVIOUS
      <4>6. latest[s].ordinal \in Nat /\ loaded[s].ordinal \in Nat /\ taken[s] \subseteq Nat
        BY <1>0, Stamps, OverTypes
      <4> QED
        BY <4>3, <4>4, <4>5, <4>6
    <3>3. Since(s, b)'
      <4>1. /\ \A x \in Nat : x <= b + 1 => x <= b \/ x = b + 1
            /\ \A x \in 0..MaxAccepted : x <= b + 1 /\ x > b => x = b + 1
        BY TopicAssumption
      <4>2. \A t \in taken[s] : t <= b \/ t = b + 1
        BY <1>0, <3>2, <4>1, OverTypes
      <4>3. /\ latest[s].ordinal > b => latest[s].ordinal = b + 1
            /\ loaded[s].ordinal > b => loaded[s].ordinal = b + 1
        BY <1>0, <3>2, <4>1, OverTypes
      <4>4. last_consumed_ordinal'[s] = b /\ ~(b > b)
        BY <2>1, Ordinals
      <4> QED
        BY <1>0, <4>2, <4>3, <4>4 DEF Since
    <3>4. Charged(s, b)'
      <4>1. (b + 1)..b = {}
        BY Ordinals
      <4> QED
        BY <1>0, <2>1, <2>2, <2>3, <4>1, FS_EmptySet DEF Charged, Skipped
    <3> QED
      BY <3>1, <3>3, <3>4 DEF Joined
  <2>4. IsLatest(s)' <=> IsLatest(s)
    BY <1>0 DEF IsLatest
  <2>5. ~Unset(s)'
    BY <2>1, Ordinals DEF Unset
  <2> QED
    BY <2>1, <2>3, <2>4, <2>5 DEF OverAt
<1> QED
  BY <1>3, <1>4

LEMMA OverStore ==
  ASSUME LineContext, OverInv, NEW p \in Pubs, StoreLatest(p), Deliver(p), NEW s \in Subs, s = target[p]
  PROVE  OverAt(s)'
<1>0. /\ TypeInv /\ pub_pc[p] = "store" /\ OverAt(s) /\ ~Unset(s)
      /\ UNCHANGED <<accepted_ordinal, overwrite_count, taken, loaded, sub_qos, last_consumed_ordinal>>
  BY Fixed DEF StoreLatest, writeVars, LineContext, TableInv, OverInv
<1> DEFINE a == accepted_ordinal
<1>1. /\ offered'[s] = offered[s] \cup {a} /\ a \notin offered[s] /\ offered[s] \subseteq 1..a
      /\ IsLatest(s) => latest'[s].ordinal = a
  BY PushIs DEF LineContext, Offers
<1>2. ASSUME IsLatest(s) PROVE \E b \in 0..MaxAccepted : Joined(s, b)'
  <2>1. PICK b \in 0..MaxAccepted : Joined(s, b)
    BY <1>0, <1>2 DEF OverAt
  <2>2. b + 1 \in offered'[s] /\ \A o \in offered'[s] : b + 1 <= o
    <3>1. CASE offered[s] = {}
      <4>1. b + 1 = a /\ a \in Nat
        BY <1>0, <2>1, <3>1, OverTypes, Ordinals DEF Joined, Base
      <4>2. offered'[s] = {a} /\ a <= a
        BY <1>1, <3>1, <4>1, NatOrder
      <4> QED
        BY <4>1, <4>2
    <3>2. CASE offered[s] # {}
      <4>1. b + 1 \in offered[s] /\ \A o \in offered[s] : b + 1 <= o
        BY <2>1, <3>2 DEF Joined, Base
      <4>2. \A x, y \in Nat : x \in 1..y => x <= y
        OBVIOUS
      <4>3. b + 1 <= a
        <5>1. b + 1 \in 1..a /\ a \in Nat /\ b + 1 \in Nat
          BY <1>0, <1>1, <4>1, OverTypes, Ordinals, NatOrder
        <5> QED
          BY <4>2, <5>1
      <4> QED
        BY <1>1, <4>1, <4>3
    <3> QED
      BY <3>1, <3>2
  <2>3. Base(s, b)'
    BY <1>0, <2>1, <2>2 DEF Joined, Base
  <2>4. Since(s, b)'
    BY <1>0, <1>1, <1>2, <2>1 DEF Joined, Since
  <2>5. Charged(s, b)'
    BY <1>0, <2>1 DEF Joined, Charged, Skipped
  <2> QED
    BY <2>3, <2>4, <2>5 DEF Joined
<1> QED
  BY <1>0, <1>2 DEF OverAt, IsLatest

LEMMA OverDeliver ==
  ASSUME LineContext, LineInv, OverInv, NEW p \in Pubs, Deliver(p)
  PROVE  OverInv'
<1>0. TypeInv /\ UNCHANGED <<overwrite_count, taken, loaded, sub_qos, sub_pc>>
  BY Fixed DEF LineContext, TableInv
<1>1. ASSUME NEW s \in Subs, ~(StampBaseline(p) /\ s = target[p])
      PROVE  last_consumed_ordinal'[s] = last_consumed_ordinal[s]
  <2>1. CASE StampBaseline(p)
    BY <1>0, <1>1, <2>1, OverTypes DEF StampBaseline
  <2>2. CASE ~StampBaseline(p)
    BY <2>2 DEF Deliver, PublishFrom, Precheck, ReadClock, Accept, StoreMaster, LoadSlot, StoreLatest,
       Push, Count, boxVars
  <2> QED
    BY <2>1, <2>2
<1>2. ASSUME NEW s \in Subs, StampBaseline(p), s = target[p] PROVE OverAt(s)' /\ ~Unset(s)'
  BY <1>2, OverStamp DEF OverInv
<1>3. ASSUME NEW s \in Subs PROVE OverAt(s)'
  <2>1. CASE StampBaseline(p) /\ s = target[p]
    BY <1>2, <2>1
  <2>2. CASE StoreLatest(p) /\ s = target[p]
    BY <2>2, OverStore
  <2>3. CASE Push(p) /\ s = target[p]
    <3>1. ~IsLatest(s)
      BY <2>3 DEF Push, LineContext, TableInv, FanInv, FanAt, Inside
    <3> QED
      BY <1>0, <3>1 DEF OverAt, IsLatest
  <2>4. CASE ~((StampBaseline(p) \/ Offers(p)) /\ s = target[p])
    <3>1. offered'[s] = offered[s] /\ latest'[s] = latest[s]
      <4>1. CASE Offers(p)
        BY <1>0, <2>4, <4>1, OffersIs
      <4>2. CASE ~Offers(p)
        BY <4>2 DEF Offers, Deliver, PublishFrom, Precheck, ReadClock, Accept, StoreMaster, LoadSlot,
           StampBaseline, Count, boxVars
      <4> QED
        BY <4>1, <4>2
    <3>2. ASSUME NEW q \in Pubs, pub_pc[q] = "store", target[q] = s
          PROVE  accepted_ordinal' = accepted_ordinal /\ pub_pc'[q] = "store" /\ target'[q] = s
      BY <2>4, <3>2, Pending DEF LineContext, Offers
    <3> QED
      BY <1>0, <1>1, <2>4, <3>1, <3>2, OverKept DEF OverInv
  <2> QED
    BY <2>1, <2>2, <2>3, <2>4 DEF Offers
<1>4. ASSUME NEW s \in Subs, Unset(s)' PROVE Unset(s) /\ ~(StampBaseline(p) /\ s = target[p])
  BY <1>1, <1>2, <1>4 DEF Unset
<1>5. ASSUME NEW q \in Pubs, NEW s \in Subs, pub_pc'[q] = "store", target'[q] = s PROVE ~Unset(s)'
  <2>1. CASE pub_pc[q] = "store" /\ target[q] = s
    BY <1>4, <2>1 DEF OverInv
  <2>2. CASE ~(pub_pc[q] = "store" /\ target[q] = s)
    <3>1. q = p
      BY <1>0, <1>5, <2>2, Others
    <3>2. StampBaseline(p)
      <4>1. pub_pc \in [Pubs -> PubStates]
        BY <1>0, Fan0
      <4>2. ~(PublishFrom(p) \/ Precheck(p) \/ ReadClock(p) \/ Count(p))
        BY <1>0, <1>5, <3>1, Early DEF Outside
      <4>3. ~Accept(p) /\ ~StoreMaster(p)
        BY <1>5, <3>1, <4>1 DEF Accept, StoreMaster, PubGoto
      <4>4. ~LoadSlot(p)
        BY <1>0, <1>5, <3>1, LoadSlotIs
      <4>5. ~Offers(p)
        BY <1>0, <1>5, <3>1, OffersIs, Advanced
      <4> QED
        BY <4>2, <4>3, <4>4, <4>5 DEF Deliver, Offers
    <3>3. target[p] = s
      BY <1>5, <3>1, <3>2 DEF StampBaseline
    <3> QED
      BY <1>2, <3>2, <3>3
  <2> QED
    BY <2>1, <2>2
<1>6. ASSUME NEW s \in Subs, sub_pc'[s] \notin {"attached", "detached"} PROVE Unset(s)'
  <2>1. sub_pc[s] \notin {"attached", "detached"}
    BY <1>0, <1>6
  <2>2. ~(StampBaseline(p) /\ s = target[p])
    BY <1>0, <2>1, NobodysTarget DEF StampBaseline, Inside, LineContext, TableInv
  <2> QED
    BY <1>1, <2>1, <2>2 DEF OverInv, Unset
<1> QED
  BY <1>3, <1>5, <1>6 DEF OverInv

\* TakeLatest charges what lies between two consumed ordinals.
LEMMA OverTake ==
  ASSUME LineContext, LineInv, NEW s \in Subs, OverAt(s), TakeLatest(s), Take(s)
  PROVE  OverAt(s)' /\ (Unset(s)' <=> Unset(s))
<1> DEFINE k == loaded[s].ordinal
           c == last_consumed_ordinal[s]
           T == taken[s]
<1>0. /\ TypeInv /\ ConflatesInv /\ LineAt(s)
      /\ UNCHANGED <<accepted_ordinal, offered, latest, sub_qos, pub_pc, target>>
  BY DEF LineContext, TableInv, LineInv, Take, takeFrame, writeVars, pubVars, subVars
<1>1. /\ IsLatest(s) /\ loaded[s] # NoRecord /\ taken'[s] = T \cup {k} /\ loaded'[s] = NoRecord
  BY <1>0, TakeLatestIs
<1>2. /\ k \in 0..MaxAccepted /\ c \in Nat /\ T \subseteq Nat /\ overwrite_count[s] \in Nat
      /\ \A o \in T : o <= k
  BY <1>0, <1>1, OverTypes DEF LineAt
<1>3. IF k > c
      THEN /\ overwrite_count'[s] = overwrite_count[s] + (k - c - 1) /\ last_consumed_ordinal'[s] = k
      ELSE /\ overwrite_count'[s] = overwrite_count[s] /\ last_consumed_ordinal'[s] = c
  BY <1>0, OverTypes DEF TakeLatest, Gap
<1>4. CASE Unset(s) /\ offered[s] = {} /\ overwrite_count[s] = 0
  <2>1. ~(k > c)
    BY <1>2, <1>4, Ordinals DEF Unset
  <2> QED
    BY <1>0, <1>3, <1>4, <2>1 DEF OverAt, Unset
<1>5. ASSUME NEW b \in 0..MaxAccepted, Joined(s, b) PROVE Joined(s, b)' /\ ~Unset(s) /\ ~Unset(s)'
  <2>1. /\ c \in b..MaxAccepted /\ b \in Nat /\ MaxAccepted \in Nat
        /\ c > b => c \in T /\ c \in offered[s] \cup {b + 1}
        /\ \A t \in T : t <= c \/ t = b + 1
        /\ k > b => k \in offered[s] \cup {b + 1}
        /\ latest[s].ordinal > b => latest[s].ordinal \in offered[s] \cup {b + 1}
    <3>1. c \in b..MaxAccepted /\ b \in Nat /\ MaxAccepted \in Nat
      BY <1>5, TopicAssumption, Ordinals DEF Joined, Base
    <3> QED
      BY <1>5, <3>1 DEF Joined, Since
  <2>2. ~(NoRecord.ordinal > b)
    BY <1>5, Ordinals DEF NoRecord
  <2>3. CASE ~(k > c)
    <3>1. last_consumed_ordinal'[s] = c /\ overwrite_count'[s] = overwrite_count[s]
      BY <1>3, <2>3
    <3>2. ((b + 1)..c) \ (T \cup {k}) = ((b + 1)..c) \ T
      <4>1. CASE c > b
        <5>1. k = c /\ k \in T
          <6>1. c \in T /\ c <= k /\ k \in Nat /\ c \in Nat
            BY <1>2, <2>1, <4>1, Ordinals
          <6>2. \A x, y \in Nat : x <= y /\ ~(y > x) => y = x
            OBVIOUS
          <6> QED
            BY <2>3, <6>1, <6>2
        <5> QED
          BY <5>1
      <4>2. CASE c = b
        BY <2>1, <4>2
      <4>3. c > b \/ c = b
        BY <2>1
      <4> QED
        BY <4>1, <4>2, <4>3
    <3>3. \A t \in T \cup {k} : t <= c \/ t = b + 1
      BY <1>2, <2>1, <2>3
    <3>4. Base(s, b)'
      BY <1>0, <1>5, <3>1 DEF Joined, Base
    <3>5. Since(s, b)'
      BY <1>0, <1>1, <2>1, <2>2, <3>1, <3>3 DEF Since
    <3>6. Charged(s, b)'
      <4>1. Skipped(s, b)' = Skipped(s, b)
        BY <1>1, <3>1, <3>2 DEF Skipped
      <4> QED
        BY <1>1, <1>5, <3>1, <4>1 DEF Joined, Charged
    <3> QED
      <4>1. c # kBaselineUnset
        BY <1>5, <2>1, Ordinals
      <4> QED
        BY <3>1, <3>4, <3>5, <3>6, <4>1 DEF Joined, Unset
  <2>4. CASE k > c
    <3>1. last_consumed_ordinal'[s] = k /\ overwrite_count'[s] = overwrite_count[s] + (k - c - 1)
      BY <1>3, <2>4
    <3>2. Base(s, b)'
      <4>1. last_consumed_ordinal'[s] \in b..MaxAccepted
        BY <1>2, <1>5, <2>1, <2>4, <3>1, Ordinals
      <4> QED
        BY <1>0, <1>5, <4>1 DEF Joined, Base
    <3>3. Since(s, b)'
      <4>1. \A t \in T \cup {k} : t <= k
        BY <1>2
      <4> QED
        BY <1>0, <1>1, <1>2, <2>1, <2>2, <2>4, <3>1, <4>1 DEF Since
    <3>4. Charged(s, b)'
      <4> DEFINE A == ((b + 1)..c) \ T
                 S == ((b + 1)..k) \ (T \cup {k})
      <4>1. /\ Cardinality(A) \in Nat
            /\ c > b \/ b + 1 \notin T \/ k = b + 1 => Cardinality(S) = Cardinality(A) + (k - c - 1)
            /\ c = b /\ b + 1 \in T /\ k > b + 1 =>
                 Cardinality(A) = 0 /\ Cardinality(S) + 1 = k - c - 1
        <5>1. k \in Nat /\ c \in Nat /\ b \in Nat /\ Moves(b, c, k, T)
          BY <1>2, <1>5, <2>1, <2>4, Ordinals DEF Moves
        <5> HIDE DEF k, c, T
        <5>2. Grows(b, c, k, T)
          BY <5>1, CountSkipped
        <5> QED
          BY <5>2 DEF Grows
      <4>2. Skipped(s, b) = A /\ Skipped(s, b)' = S
        BY <1>1, <3>1 DEF Skipped
      <4>3. \/ overwrite_count[s] = Cardinality(A)
            \/ overwrite_count[s] = Cardinality(A) + 1 /\ b + 1 \in T /\ c > b + 1
        BY <1>5, <4>2 DEF Joined, Charged
      <4> HIDE DEF A, S, T, k, c
      <4>4. \/ overwrite_count'[s] = Cardinality(S)
            \/ overwrite_count'[s] = Cardinality(S) + 1 /\ b + 1 \in T /\ k > b + 1
        <5>1. k \in Nat /\ c \in Nat /\ b \in Nat /\ b <= c /\ c < k /\ overwrite_count[s] \in Nat
          BY <1>2, <1>5, <2>1, <2>4, Ordinals
        <5>2. \/ overwrite_count[s] + (k - c - 1) = Cardinality(S)
              \/ overwrite_count[s] + (k - c - 1) = Cardinality(S) + 1 /\ b + 1 \in T /\ k > b + 1
          BY <4>1, <4>3, <5>1, Charge
        <5> QED
          BY <3>1, <5>2
      <4> QED
        BY <1>1, <3>1, <4>2, <4>4 DEF Charged, T
    <3> QED
      <4>1. last_consumed_ordinal'[s] # kBaselineUnset /\ c # kBaselineUnset
        BY <1>2, <1>5, <2>1, <3>1, Ordinals
      <4> QED
        BY <3>2, <3>3, <3>4, <4>1 DEF Joined, Unset
  <2> QED
    BY <2>3, <2>4
<1>6. CASE \E b \in 0..MaxAccepted : Joined(s, b)
  BY <1>5, <1>6 DEF OverAt
<1> QED
  BY <1>1, <1>4, <1>6 DEF OverAt

LEMMA OverNext == LineContext /\ LineInv /\ OverInv /\ [Next]_vars => OverInv'
<1> SUFFICES ASSUME LineContext, LineInv, OverInv, [Next]_vars PROVE OverInv'
  OBVIOUS
<1>0. TypeInv
  BY DEF LineContext, TableInv
<1>1. ASSUME UNCHANGED <<last_consumed_ordinal, offered, overwrite_count, taken, loaded, sub_qos,
                         accepted_ordinal, target>>,
             \A p \in Pubs : pub_pc'[p] = "store" <=> pub_pc[p] = "store",
             \A s \in Subs : latest'[s] = latest[s] \/ sub_pc[s] \notin {"attached", "detached"},
             \A s \in Subs : sub_pc[s] \in {"attached", "detached"} => sub_pc'[s] \in {"attached", "detached"}
      PROVE  OverInv'
  <2>1. \A s \in Subs : Unset(s)' <=> Unset(s)
    BY <1>1 DEF Unset
  <2>2. ASSUME NEW s \in Subs PROVE OverAt(s)'
    <3>1. ~Unset(s) => latest'[s] = latest[s]
      BY <1>1 DEF OverInv
    <3> QED
      BY <1>1, <3>1, OverKept DEF OverInv
  <2> QED
    BY <1>1, <2>1, <2>2 DEF OverInv
<1>2. ASSUME NEW p \in Pubs, AddPublisher(p) \/ RemovePublisher(p) PROVE OverInv'
  <2>1. \A q \in Pubs : pub_pc'[q] = "store" <=> pub_pc[q] = "store"
    BY <1>0, <1>2, Fan0 DEF AddPublisher, RemovePublisher, PubGoto
  <2> QED
    BY <1>1, <1>2, <2>1 DEF AddPublisher, RemovePublisher, writeVars, subVars, boxVars, takeVars
<1>3. ASSUME NEW t \in Subs, Seed(t) \/ Attach(t) \/ RemoveSubscriber(t) PROVE OverInv'
  <2>1. UNCHANGED <<last_consumed_ordinal, offered, overwrite_count, taken, loaded, sub_qos,
                    accepted_ordinal, target, pub_pc>>
    BY <1>3 DEF Seed, Attach, RemoveSubscriber, writeVars, pubVars, boxVars, takeVars
  <2>2. \A s \in Subs : latest'[s] = latest[s] \/ sub_pc[s] \notin {"attached", "detached"}
    BY <1>0, <1>3 DEF Seed, Attach, RemoveSubscriber, boxVars, TypeInv, BoxTypes
  <2>3. \A s \in Subs : sub_pc[s] \in {"attached", "detached"} => sub_pc'[s] \in {"attached", "detached"}
    BY <1>0, <1>3, Fan0 DEF Seed, Attach, RemoveSubscriber, SubGoto
  <2> QED
    BY <1>1, <2>1, <2>2, <2>3
<1>4. ASSUME NEW t \in Subs, Take(t) PROVE OverInv'
  <2>0. UNCHANGED <<offered, latest, sub_qos, sub_pc, accepted_ordinal, target, pub_pc>>
    BY <1>4 DEF Take, takeFrame, writeVars, pubVars, subVars
  <2>1. ASSUME NEW s \in Subs PROVE OverAt(s)' /\ (Unset(s)' <=> Unset(s))
    <3>1. CASE s # t
      <4>1. /\ loaded'[s] = loaded[s] /\ taken'[s] = taken[s]
            /\ overwrite_count'[s] = overwrite_count[s]
            /\ last_consumed_ordinal'[s] = last_consumed_ordinal[s]
        BY <1>0, <1>4, <3>1, TakeOthers
      <4>2. OverAt(s)'
        BY <2>0, <4>1, OverKept DEF OverInv
      <4> QED
        BY <4>1, <4>2 DEF Unset
    <3>2. CASE s = t /\ LoadLatest(t)
      <4>1. /\ loaded'[s] = latest[s] /\ UNCHANGED <<taken, overwrite_count, last_consumed_ordinal>>
        BY <1>0, <3>2 DEF LoadLatest, TypeInv, TakeTypes
      <4>2. OverAt(s)'
        BY <2>0, <4>1, OverKept DEF OverInv
      <4> QED
        BY <4>1, <4>2 DEF Unset
    <3>3. CASE s = t /\ TakeLatest(t)
      BY <1>4, <3>3, OverTake DEF OverInv
    <3>4. CASE s = t /\ TryTake(t)
      BY <2>0, <3>4 DEF TryTake, OverAt, IsLatest, Unset
    <3> QED
      BY <1>4, <3>1, <3>2, <3>3, <3>4 DEF Take
  <2> QED
    BY <2>0, <2>1 DEF OverInv
<1>5. CASE Tick \/ UNCHANGED vars
  BY <1>1, <1>5 DEF Tick, vars, writeVars, pubVars, subVars, boxVars, takeVars
<1> QED
  BY <1>2, <1>3, <1>4, <1>5, OverDeliver DEF Next

\* What the counter has charged is what was missed.
LEMMA MissedIs ==
  ASSUME TypeInv, NEW s \in Subs, LossAt(s), NEW b \in 0..MaxAccepted, Joined(s, b)
  PROVE  Missed(s) = Skipped(s, b)
<1> DEFINE c == last_consumed_ordinal[s]
           O == offered[s]
           T == taken[s]
<1>0. /\ b \in Nat /\ c \in Nat /\ b <= c /\ O \subseteq Nat /\ T \subseteq Nat
      /\ O # {} => b + 1 \in O /\ \A o \in O : b + 1 <= o
      /\ c > b => c \in T /\ c \in O \cup {b + 1}
      /\ \A t \in T : t <= c \/ t = b + 1
      /\ \A x, y \in O : x..y \subseteq O
  <2>1. c \in Nat /\ c \in b..MaxAccepted /\ O \subseteq Nat /\ T \subseteq Nat /\ MaxAccepted \in Nat
    BY OverTypes DEF Joined, Base
  <2>2. b \in Nat /\ b <= c
    <3> HIDE DEF c
    <3> QED
      BY <2>1
  <2>3. O # {} => b + 1 \in O /\ \A o \in O : b + 1 <= o
    BY DEF Joined, Base
  <2>4. c > b => c \in T /\ c \in O \cup {b + 1}
    BY DEF Joined, Since
  <2>5. \A t \in T : t <= c \/ t = b + 1
    BY DEF Joined, Since
  <2>6. \A x, y \in O : x..y \subseteq O
    BY DEF LossAt
  <2> HIDE DEF c, O, T
  <2> QED
    BY <2>1, <2>2, <2>3, <2>4, <2>5, <2>6
<1> HIDE DEF c, O, T
<1>1. ASSUME NEW o \in O \ T, NEW t \in T, o < t PROVE o \in ((b + 1)..c) \ T
  <2>1. b + 1 <= o /\ o \in Nat /\ t \in Nat
    BY <1>0, <1>1
  <2> QED
    BY <1>0, <1>1, <2>1
<1>2. ASSUME NEW o \in ((b + 1)..c) \ T PROVE o \in O \ T /\ c \in T /\ o < c
  <2>1. c > b /\ c \in T /\ o # c /\ o < c /\ b + 1 < c
    BY <1>0, <1>2
  <2>2. c \in O /\ b + 1 \in O
    BY <1>0, <2>1
  <2>3. o \in (b + 1)..c /\ (b + 1)..c \subseteq O
    BY <1>0, <1>2, <2>2
  <2> QED
    BY <1>2, <2>1, <2>3
<1> QED
  BY <1>1, <1>2 DEF Missed, Skipped, c, O, T

\* D9 for any number of records: overwrite_count is the number of delivered
\* records a take skipped, never a pre-join one; one more only when the first
\* delivered record had been read as the seed.
THEOREM OverwriteCountAlways == Spec => []OverwriteCount
<1>1. Init => OverInv
  BY DEF Init, OverInv, OverAt, Unset
<1>2. LineContext /\ OverInv => OverwriteCount
  <2> SUFFICES ASSUME LineContext, OverInv, NEW s \in Subs, IsLatest(s)
               PROVE  LET seedRead == \E f \in offered[s] \cap taken[s] : \A o \in offered[s] : f <= o
                      IN overwrite_count[s] \in Cardinality(Missed(s)) ..
                                                Cardinality(Missed(s)) + (IF seedRead THEN 1 ELSE 0)
    BY DEF OverwriteCount
  <2> DEFINE seedRead == \E f \in offered[s] \cap taken[s] : \A o \in offered[s] : f <= o
  <2>0. TypeInv /\ LossAt(s) /\ OverAt(s) /\ overwrite_count[s] \in Nat
    BY OverTypes DEF LineContext, TableInv, LossInv, OverInv
  <2>1. CASE offered[s] = {} /\ overwrite_count[s] = 0
    <3>1. Missed(s) = {}
      BY <2>1 DEF Missed
    <3>2. Cardinality(Missed(s)) = 0 /\ 0 \in Nat
      BY <3>1, FS_EmptySet
    <3> HIDE DEF seedRead
    <3> QED
      BY <2>1, <3>2, Counts
  <2>2. ASSUME NEW b \in 0..MaxAccepted, Joined(s, b)
        PROVE  overwrite_count[s] \in Cardinality(Missed(s)) ..
                                      Cardinality(Missed(s)) + (IF seedRead THEN 1 ELSE 0)
    <3>1. Missed(s) = Skipped(s, b)
      BY <2>0, <2>2, MissedIs
    <3>2. Cardinality(Skipped(s, b)) \in Nat
      <4>1. IsFiniteSet((b + 1)..last_consumed_ordinal[s])
        BY <2>0, <2>2, OverTypes, FS_Interval
      <4> QED
        BY <4>1, FS_Subset, FS_CardinalityType DEF Skipped
    <3>3. CASE overwrite_count[s] = Cardinality(Skipped(s, b))
      <4> HIDE DEF seedRead
      <4> QED
        BY <3>1, <3>2, <3>3, Counts
    <3>4. CASE /\ overwrite_count[s] = Cardinality(Skipped(s, b)) + 1
               /\ b + 1 \in taken[s] /\ last_consumed_ordinal[s] > b + 1
      <4>1. offered[s] # {}
        <5>1. \A x, y \in Nat : x > y + 1 => x > y /\ x # y + 1
          OBVIOUS
        <5>2. last_consumed_ordinal[s] > b /\ last_consumed_ordinal[s] # b + 1
          BY <2>0, <2>2, <3>4, <5>1, OverTypes, Ordinals
        <5>3. last_consumed_ordinal[s] \in offered[s] \cup {b + 1}
          BY <2>2, <5>2 DEF Joined, Since
        <5> QED
          BY <5>2, <5>3
      <4>2. seedRead
        BY <2>2, <3>4, <4>1 DEF Joined, Base
      <4> HIDE DEF seedRead
      <4> QED
        BY <3>1, <3>2, <3>4, <4>2, Counts
    <3> QED
      BY <2>2, <3>3, <3>4 DEF Joined, Charged
  <2> QED
    BY <2>0, <2>1, <2>2 DEF OverAt
<1> QED
  BY <1>1, <1>2, OverNext, LineInvariant, PTL DEF Spec
=============================================================================
