---------------------------- MODULE Topic_proofs ----------------------------
(***************************************************************************)
(* Proofs about Topic for every number of publishers, subscribers, slots   *)
(* and records: types, ownership, the refinement of LatestBox, the counters *)
(* of the table, and the invariant of the fan-out that TopicFan_proofs and *)
(* TopicTakes_proofs build on.                                             *)
(***************************************************************************)
EXTENDS Topic, FiniteSetTheorems, TLAPS

-----------------------------------------------------------------------------
\* Type correctness.

\* A record being delivered has its ordinal, and the fan-out a target.
DeliverInv ==
  \A p \in Pubs :
    /\ HasOrdinal(p) => record[p].ordinal # 0
    /\ pub_pc[p] \in {"stamp", "store", "push"} => target[p] # None

TypeInv == TopicTypes /\ PubTypes /\ DeliverInv /\ BoxTypes /\ TakeTypes

LEMMA RecordFacts ==
  /\ NoRecord \in Record
  /\ \A r \in Record : r.ordinal \in 0..MaxAccepted /\ r.stamp \in Nat
  /\ \A o \in 0..MaxAccepted, t \in Nat : [ordinal |-> o, stamp |-> t] \in Record
BY TopicAssumption DEF Record, NoRecord

LEMMA SlotFacts ==
  /\ 1 \in Slots
  /\ \A i \in Slots : i # kMaxSubscribers => i + 1 \in Slots
BY TopicAssumption DEF Slots

LEMMA SlotOrder ==
  \A i, j \in Slots :
    /\ i >= 1 /\ ~(i > kMaxSubscribers) /\ ~(i > i)
    /\ (i >= j) <=> (i = j \/ i > j)
    /\ (i >= j + 1) <=> (i > j)
BY TopicAssumption DEF Slots

\* A step that leaves a group of variables alone preserves their types.
LEMMA KeepTopic == TopicTypes /\ UNCHANGED <<topicVars, writeVars>> => TopicTypes'
BY DEF TopicTypes, topicVars, writeVars

LEMMA KeepPub == PubTypes /\ UNCHANGED pubVars => PubTypes'
BY DEF PubTypes, pubVars

LEMMA KeepDeliver == DeliverInv /\ UNCHANGED pubVars => DeliverInv'
BY DEF DeliverInv, HasOrdinal, pubVars

LEMMA KeepBox == BoxTypes /\ UNCHANGED <<subVars, boxVars>> => BoxTypes'
BY DEF BoxTypes, subVars, boxVars

LEMMA KeepTake == TakeTypes /\ UNCHANGED takeVars => TakeTypes'
BY DEF TakeTypes, takeVars

LEMMA TypeInit == Init => TypeInv
<1> SUFFICES ASSUME Init PROVE TypeInv
  OBVIOUS
<1> USE TopicAssumption, RecordFacts, SlotFacts DEF Init
<1>1. TopicTypes
  BY DEF TopicTypes
<1>2. PubTypes
  BY DEF PubTypes, PubStates
<1>3. DeliverInv
  BY DEF DeliverInv, HasOrdinal
<1>4. BoxTypes
  BY DEF BoxTypes, SubStates, kBaselineUnset
<1>5. TakeTypes
  BY DEF TakeTypes
<1> QED
  BY <1>1, <1>2, <1>3, <1>4, <1>5 DEF TypeInv

LEMMA TypeDeliver ==
  ASSUME TypeInv, NEW p \in Pubs, Deliver(p)
  PROVE  TypeInv'
<1>0. TopicTypes /\ PubTypes /\ DeliverInv /\ BoxTypes /\ TakeTypes /\ UNCHANGED deliverFrame
  BY DEF TypeInv, Deliver
<1>1. CASE PublishFrom(p)
  <2>1. PubTypes'
    BY <1>0, <1>1 DEF PublishFrom, deliverFrame, PubGoto, PubTypes, PubStates
  <2>2. DeliverInv'
    BY <1>0, <1>1 DEF PublishFrom, deliverFrame, PubGoto, PubTypes, DeliverInv,
      HasOrdinal
  <2>3. TopicTypes' /\ BoxTypes' /\ TakeTypes'
    BY <1>0, <1>1, KeepTopic, KeepBox, KeepTake DEF PublishFrom, deliverFrame
  <2> QED
    BY <2>1, <2>2, <2>3 DEF TypeInv
<1>2. CASE Precheck(p)
  <2>1. PubTypes'
    BY <1>0, <1>2, SlotFacts, RecordFacts DEF Precheck, deliverFrame, Return, PubGoto,
      PubTypes, PubStates
  <2>2. DeliverInv'
    BY <1>0, <1>2 DEF Precheck, deliverFrame, Return, PubGoto, PubTypes, DeliverInv,
      HasOrdinal
  <2>3. TopicTypes' /\ BoxTypes' /\ TakeTypes'
    BY <1>0, <1>2, KeepTopic, KeepBox, KeepTake DEF Precheck, deliverFrame
  <2> QED
    BY <2>1, <2>2, <2>3 DEF TypeInv
<1>3. CASE ReadClock(p)
  <2>1. PubTypes'
    <3>1. [ordinal |-> 0, stamp |-> now] \in Record
      BY <1>0, TopicAssumption, RecordFacts DEF TopicTypes
    <3> QED
      BY <1>0, <1>3, <3>1 DEF ReadClock, deliverFrame, PubGoto, PubTypes, PubStates
  <2>2. DeliverInv'
    BY <1>0, <1>3 DEF ReadClock, deliverFrame, PubGoto, PubTypes, DeliverInv, HasOrdinal
  <2>3. TopicTypes' /\ BoxTypes' /\ TakeTypes'
    BY <1>0, <1>3, KeepTopic, KeepBox, KeepTake DEF ReadClock, deliverFrame
  <2> QED
    BY <2>1, <2>2, <2>3 DEF TypeInv
<1>4. CASE Accept(p)
  <2>1. TopicTypes'
    BY <1>0, <1>4, TopicAssumption DEF Accept, deliverFrame, topicVars, TopicTypes
  <2>2. PubTypes'
    <3>1. accepted_ordinal + 1 \in 0..MaxAccepted
      BY <1>0, <1>4, TopicAssumption DEF Accept, TopicTypes
    <3>2. record[p].stamp \in Nat
      BY <1>0, RecordFacts DEF PubTypes
    <3>3. [ordinal |-> accepted_ordinal + 1, stamp |-> record[p].stamp] \in Record
      BY <3>1, <3>2, RecordFacts
    <3> QED
      BY <1>0, <1>4, <3>3 DEF Accept, deliverFrame, PubGoto, PubTypes, PubStates
  <2>3. DeliverInv'
    BY <1>0, <1>4, TopicAssumption DEF Accept, deliverFrame, PubGoto, TopicTypes,
      PubTypes, DeliverInv, HasOrdinal
  <2>4. BoxTypes' /\ TakeTypes'
    BY <1>0, <1>4, KeepBox, KeepTake DEF Accept, deliverFrame
  <2> QED
    BY <2>1, <2>2, <2>3, <2>4 DEF TypeInv
<1>5. CASE StoreMaster(p)
  <2>1. TopicTypes'
    BY <1>0, <1>5 DEF StoreMaster, deliverFrame, topicVars, PubTypes, TopicTypes
  <2>2. PubTypes'
    BY <1>0, <1>5 DEF StoreMaster, deliverFrame, PubGoto, PubTypes, PubStates
  <2>3. DeliverInv'
    BY <1>0, <1>5 DEF StoreMaster, deliverFrame, PubGoto, PubTypes, DeliverInv,
      HasOrdinal
  <2>4. BoxTypes' /\ TakeTypes'
    BY <1>0, <1>5, KeepBox, KeepTake DEF StoreMaster, deliverFrame
  <2> QED
    BY <2>1, <2>2, <2>3, <2>4 DEF TypeInv
<1>6. CASE LoadSlot(p)
  <2>1. PubTypes'
    BY <1>0, <1>6, SlotFacts DEF LoadSlot, deliverFrame, Advance, LastSlot, PubGoto,
      TopicTypes, PubTypes, PubStates
  <2>2. DeliverInv'
    BY <1>0, <1>6 DEF LoadSlot, deliverFrame, Advance, PubGoto, PubTypes, DeliverInv,
      HasOrdinal
  <2>3. TopicTypes' /\ BoxTypes' /\ TakeTypes'
    BY <1>0, <1>6, KeepTopic, KeepBox, KeepTake DEF LoadSlot, deliverFrame
  <2> QED
    BY <2>1, <2>2, <2>3 DEF TypeInv
<1>7. CASE StampBaseline(p)
  <2>1. PubTypes'
    BY <1>0, <1>7 DEF StampBaseline, deliverFrame, PubGoto, PubTypes, PubStates
  <2>2. DeliverInv'
    BY <1>0, <1>7 DEF StampBaseline, deliverFrame, PubGoto, PubTypes, DeliverInv,
      HasOrdinal
  <2>3. BoxTypes'
    BY <1>0, <1>7, RecordFacts, TopicAssumption DEF StampBaseline, deliverFrame,
      JoinPoint, subVars, PubTypes, DeliverInv, HasOrdinal, kBaselineUnset, BoxTypes,
      SubStates
  <2>4. TopicTypes' /\ TakeTypes'
    BY <1>0, <1>7, KeepTopic, KeepTake DEF StampBaseline, deliverFrame
  <2> QED
    BY <2>1, <2>2, <2>3, <2>4 DEF TypeInv
<1>8. CASE StoreLatest(p)
  <2>1. PubTypes'
    BY <1>0, <1>8, SlotFacts DEF StoreLatest, deliverFrame, Advance, LastSlot, PubGoto,
      PubTypes, PubStates
  <2>2. DeliverInv'
    BY <1>0, <1>8 DEF StoreLatest, deliverFrame, Advance, PubGoto, PubTypes, DeliverInv,
      HasOrdinal
  <2>3. BoxTypes'
    BY <1>0, <1>8, RecordFacts DEF StoreLatest, deliverFrame, subVars, PubTypes,
      DeliverInv, BoxTypes, SubStates
  <2>4. TopicTypes' /\ TakeTypes'
    BY <1>0, <1>8, KeepTopic, KeepTake DEF StoreLatest, deliverFrame
  <2> QED
    BY <2>1, <2>2, <2>3, <2>4 DEF TypeInv
<1>9. CASE Push(p)
  <2>1. PubTypes'
    <3>1. Advance(p) /\ UNCHANGED <<pub_qos, record, shared_write_mutex>>
      BY <1>0, <1>9 DEF Push, deliverFrame
    <3> QED
      BY <1>0, <3>1, SlotFacts DEF Advance, LastSlot, PubGoto, PubTypes, PubStates
  <2>2. DeliverInv'
    BY <1>0, <1>9 DEF Push, deliverFrame, Advance, PubGoto, PubTypes, DeliverInv,
      HasOrdinal
  <2>3. BoxTypes'
    <3>1. target[p] \in Subs /\ record[p] \in Record
      BY <1>0, <1>9 DEF Push, PubTypes, DeliverInv
    <3>2. Append(queue[target[p]], record[p]) \in Seq(Record) /\ record[p].ordinal \in Nat
      BY <1>0, <3>1, RecordFacts DEF BoxTypes
    <3>3. queue' \in [Subs -> Seq(Record)] /\ drop_count' \in [Subs -> Nat]
      <4>1. CASE Full(target[p])
        BY <1>0, <1>9, <3>1, <4>1 DEF Push, Drop, BoxTypes
      <4>2. CASE ~Full(target[p])
        BY <1>0, <1>9, <3>1, <3>2, <4>2 DEF Push, BoxTypes
      <4> QED
        BY <4>1, <4>2
    <3>4. offered' \in [Subs -> SUBSET Nat]
      BY <1>0, <1>9, <3>1, <3>2 DEF Push, BoxTypes
    <3> QED
      BY <1>0, <1>9, <3>3, <3>4 DEF Push, deliverFrame, subVars, BoxTypes
  <2>4. TopicTypes' /\ TakeTypes'
    BY <1>0, <1>9, KeepTopic, KeepTake DEF Push, deliverFrame
  <2> QED
    BY <2>1, <2>2, <2>3, <2>4 DEF TypeInv
<1>10. CASE Count(p)
  <2>1. PubTypes'
    BY <1>0, <1>10, SlotFacts, RecordFacts DEF Count, deliverFrame, Return, PubGoto,
      PubTypes, PubStates
  <2>2. DeliverInv'
    BY <1>0, <1>10 DEF Count, deliverFrame, Return, PubGoto, PubTypes, DeliverInv,
      HasOrdinal
  <2>3. TopicTypes' /\ BoxTypes' /\ TakeTypes'
    BY <1>0, <1>10, KeepTopic, KeepBox, KeepTake DEF Count, deliverFrame
  <2> QED
    BY <2>1, <2>2, <2>3 DEF TypeInv
<1> QED
  BY <1>1, <1>2, <1>3, <1>4, <1>5, <1>6, <1>7, <1>8, <1>9, <1>10 DEF Deliver

LEMMA TypeTake ==
  ASSUME TypeInv, NEW s \in Subs, Take(s)
  PROVE  TypeInv'
<1>0. TopicTypes /\ PubTypes /\ DeliverInv /\ BoxTypes /\ TakeTypes /\ UNCHANGED takeFrame
  BY DEF TypeInv, Take
<1>1. CASE LoadLatest(s)
  <2>1. TakeTypes'
    BY <1>0, <1>1 DEF LoadLatest, takeFrame, BoxTypes, TakeTypes
  <2>2. TopicTypes' /\ PubTypes' /\ DeliverInv' /\ BoxTypes'
    BY <1>0, <1>1, KeepTopic, KeepPub, KeepDeliver, KeepBox DEF LoadLatest, takeFrame,
      boxVars
  <2> QED
    BY <2>1, <2>2 DEF TypeInv
<1>2. CASE TakeLatest(s)
  <2> DEFINE k    == loaded[s].ordinal
             last == last_consumed_ordinal[s]
  <2>0. k \in 0..MaxAccepted /\ last \in 0..kBaselineUnset
    BY <1>0, RecordFacts DEF TakeTypes, BoxTypes
  <2>1. BoxTypes'
    <3>1. last_consumed_ordinal' \in [Subs -> 0..kBaselineUnset]
      <4>1. CASE k > last
        <5>1. last_consumed_ordinal' = [last_consumed_ordinal EXCEPT ![s] = k]
          BY <1>2, <4>1 DEF TakeLatest
        <5>2. k \in 0..kBaselineUnset
          BY <2>0, TopicAssumption DEF kBaselineUnset
        <5> QED
          BY <1>0, <5>1, <5>2 DEF BoxTypes
      <4>2. CASE ~(k > last)
        BY <1>0, <1>2, <4>2 DEF TakeLatest, BoxTypes
      <4> QED
        BY <4>1, <4>2
    <3> QED
      BY <1>0, <1>2, <3>1 DEF TakeLatest, takeFrame, subVars, BoxTypes
  <2>2. TakeTypes'
    <3>1. overwrite_count' \in [Subs -> Nat]
      BY <1>0, <1>2, <2>0, TopicAssumption DEF TakeLatest, Gap, TakeTypes, kBaselineUnset
    <3>2. deadline_miss_count' \in [Subs -> Nat] /\ stale_latched' \in [Subs -> BOOLEAN]
      BY <1>0, <1>2 DEF TakeLatest, Judge, TakeTypes
    <3>3. taken' \in [Subs -> SUBSET Nat] /\ loaded' \in [Subs -> Record]
      BY <1>0, <1>2, <2>0, RecordFacts, TopicAssumption DEF TakeLatest, TakeTypes
    <3> QED
      BY <1>0, <1>2, <3>1, <3>2, <3>3 DEF TakeLatest, TakeTypes
  <2>3. TopicTypes' /\ PubTypes' /\ DeliverInv'
    BY <1>0, <1>2, KeepTopic, KeepPub, KeepDeliver DEF TakeLatest, takeFrame
  <2> QED
    BY <2>1, <2>2, <2>3 DEF TypeInv
<1>3. CASE TryTake(s)
  <2>1. BoxTypes'
    BY <1>0, <1>3 DEF TryTake, takeFrame, subVars, BoxTypes, SubStates
  <2>2. TakeTypes'
    BY <1>0, <1>3, RecordFacts DEF TryTake, takeFrame, Judge, BoxTypes, TakeTypes
  <2>3. TopicTypes' /\ PubTypes' /\ DeliverInv'
    BY <1>0, <1>3, KeepTopic, KeepPub, KeepDeliver DEF TryTake, takeFrame
  <2> QED
    BY <2>1, <2>2, <2>3 DEF TypeInv
<1> QED
  BY <1>1, <1>2, <1>3 DEF Take

LEMMA TypeNext == TypeInv /\ [Next]_vars => TypeInv'
<1> SUFFICES ASSUME TypeInv, [Next]_vars PROVE TypeInv'
  OBVIOUS
<1>0. TopicTypes /\ PubTypes /\ DeliverInv /\ BoxTypes /\ TakeTypes
  BY DEF TypeInv
<1>1. ASSUME NEW p \in Pubs, AddPublisher(p) PROVE TypeInv'
  <2>1. TopicTypes'
    BY <1>0, <1>1, TopicAssumption DEF AddPublisher, topicVars, writeVars, PubTypes,
      TopicTypes
  <2>2. PubTypes'
    BY <1>0, <1>1 DEF AddPublisher, PubGoto, PubTypes, PubStates
  <2>3. DeliverInv'
    BY <1>0, <1>1 DEF AddPublisher, PubGoto, PubTypes, DeliverInv, HasOrdinal
  <2>4. BoxTypes' /\ TakeTypes'
    BY <1>0, <1>1, KeepBox, KeepTake DEF AddPublisher
  <2> QED
    BY <2>1, <2>2, <2>3, <2>4 DEF TypeInv
<1>2. ASSUME NEW p \in Pubs, RemovePublisher(p) PROVE TypeInv'
  <2>1. TopicTypes'
    BY <1>0, <1>2 DEF RemovePublisher, writeVars, TopicTypes
  <2>2. PubTypes'
    BY <1>0, <1>2 DEF RemovePublisher, PubGoto, PubTypes, PubStates
  <2>3. DeliverInv'
    BY <1>0, <1>2 DEF RemovePublisher, PubGoto, PubTypes, DeliverInv, HasOrdinal
  <2>4. BoxTypes' /\ TakeTypes'
    BY <1>0, <1>2, KeepBox, KeepTake DEF RemovePublisher
  <2> QED
    BY <2>1, <2>2, <2>3, <2>4 DEF TypeInv
<1>3. ASSUME NEW s \in Subs, Seed(s) PROVE TypeInv'
  <2>1. TopicTypes'
    BY <1>0, <1>3 DEF Seed, writeVars, TopicTypes
  <2>2. BoxTypes'
    BY <1>0, <1>3 DEF Seed, TopicTypes, SubGoto, SeedRecord, BoxTypes, SubStates
  <2>3. PubTypes' /\ DeliverInv' /\ TakeTypes'
    BY <1>0, <1>3, KeepPub, KeepDeliver, KeepTake DEF Seed
  <2> QED
    BY <2>1, <2>2, <2>3 DEF TypeInv
<1>4. ASSUME NEW s \in Subs, Attach(s) PROVE TypeInv'
  <2>1. TopicTypes'
    BY <1>0, <1>4 DEF Attach, writeVars, TopicTypes
  <2>2. BoxTypes'
    BY <1>0, <1>4 DEF Attach, boxVars, SubGoto, BoxTypes, SubStates
  <2>3. PubTypes' /\ DeliverInv' /\ TakeTypes'
    BY <1>0, <1>4, KeepPub, KeepDeliver, KeepTake DEF Attach
  <2> QED
    BY <2>1, <2>2, <2>3 DEF TypeInv
<1>5. ASSUME NEW s \in Subs, RemoveSubscriber(s) PROVE TypeInv'
  <2>1. TopicTypes'
    BY <1>0, <1>5 DEF RemoveSubscriber, writeVars, Vacated, TopicTypes
  <2>2. BoxTypes'
    BY <1>0, <1>5 DEF RemoveSubscriber, boxVars, SubGoto, BoxTypes, SubStates
  <2>3. PubTypes' /\ DeliverInv' /\ TakeTypes'
    BY <1>0, <1>5, KeepPub, KeepDeliver, KeepTake DEF RemoveSubscriber
  <2> QED
    BY <2>1, <2>2, <2>3 DEF TypeInv
<1>6. CASE Tick
  <2>1. TopicTypes'
    BY <1>0, <1>6 DEF Tick, TopicTypes, writeVars
  <2>2. PubTypes' /\ DeliverInv' /\ BoxTypes' /\ TakeTypes'
    BY <1>0, <1>6, KeepPub, KeepDeliver, KeepBox, KeepTake DEF Tick
  <2> QED
    BY <2>1, <2>2 DEF TypeInv
<1>7. CASE UNCHANGED vars
  BY <1>0, <1>7, KeepTopic, KeepPub, KeepDeliver, KeepBox, KeepTake DEF vars, TypeInv
<1> QED
  BY <1>1, <1>2, <1>3, <1>4, <1>5, <1>6, <1>7, TypeDeliver, TypeTake DEF Next

LEMMA TypeInvariant == Spec => []TypeInv
BY TypeInit, TypeNext, PTL DEF Spec

\* Every variable keeps its type in every behaviour of the topic: the cursor of
\* a fan-out never leaves the table and a take accounts only for drawn ordinals.
THEOREM TypeCorrect == Spec => []TypeOK
<1>1. TypeInv => TypeOK
  BY DEF TypeInv, TypeOK
<1> QED
  BY <1>1, TypeInvariant, PTL

-----------------------------------------------------------------------------
\* Ownership.  SingleWriter is not inductive: it needs to know that two
\* registered publishers have both declared kShared, which the gate of
\* AddPublisher sees only through publisher_count and declared_ownership, and
\* that a shared publisher inside Deliver holds the mutex.

CountInv == IsFiniteSet(Registered) /\ publisher_count = Cardinality(Registered)

DeclaredInv ==
  /\ \A p \in Registered : declared_ownership = pub_qos[p].ownership
  /\ \A p, q \in Registered : p # q => Shared(p) /\ Shared(q)

MutexInv == \A p \in Pubs : Delivering(p) /\ Shared(p) => shared_write_mutex = p

OwnershipInv == CountInv /\ DeclaredInv /\ MutexInv

\* A publisher that moves on inside Deliver.
LEMMA OwnershipMove ==
  ASSUME TypeInv, OwnershipInv, NEW p \in Pubs, Delivering(p),
         NEW x \in PubStates \ {"unborn", "refused", "idle", "closed"},
         pub_pc' = [pub_pc EXCEPT ![p] = x],
         UNCHANGED <<publisher_count, declared_ownership, pub_qos,
                     shared_write_mutex>>
  PROVE  OwnershipInv'
<1>0. pub_pc \in [Pubs -> PubStates]
  BY DEF TypeInv, PubTypes
<1>1. Registered' = Registered
  BY <1>0 DEF Registered, Delivering
<1>2. \A q \in Pubs : Delivering(q)' <=> Delivering(q)
  BY <1>0 DEF Delivering
<1> QED
  BY <1>1, <1>2 DEF OwnershipInv, CountInv, DeclaredInv, MutexInv, Shared

\* A publisher that leaves Deliver releases what it held.
LEMMA OwnershipReturn ==
  ASSUME TypeInv, OwnershipInv, NEW p \in Pubs, Delivering(p), Return(p),
         UNCHANGED <<publisher_count, declared_ownership, pub_qos>>
  PROVE  OwnershipInv'
<1>0. pub_pc \in [Pubs -> PubStates]
  BY DEF TypeInv, PubTypes
<1>1. Registered' = Registered
  BY <1>0 DEF Registered, Delivering, Return, PubGoto
<1>2. \A q \in Pubs : Delivering(q)' => Delivering(q) /\ q # p
  BY <1>0 DEF Delivering, Return, PubGoto
<1>3. MutexInv'
  BY <1>2 DEF OwnershipInv, MutexInv, Shared, Return, Locks
<1> QED
  BY <1>1, <1>3 DEF OwnershipInv, CountInv, DeclaredInv, Shared

LEMMA OwnershipAdd ==
  ASSUME TypeInv, OwnershipInv, NEW p \in Pubs, AddPublisher(p)
  PROVE  OwnershipInv'
<1>0. pub_pc \in [Pubs -> PubStates] /\ pub_qos' = pub_qos /\ pub_pc[p] = "unborn"
  BY DEF TypeInv, PubTypes, AddPublisher
<1>1. MutexInv'
  BY <1>0 DEF AddPublisher, PubGoto, OwnershipInv, MutexInv, Delivering, Shared
<1>2. CASE OwnershipRefused(p)
  <2>1. /\ pub_pc' = [pub_pc EXCEPT ![p] = "refused"]
        /\ UNCHANGED <<publisher_count, declared_ownership>>
    BY <1>2 DEF AddPublisher, PubGoto
  <2>2. Registered' = Registered
    BY <1>0, <2>1 DEF Registered
  <2> QED
    BY <1>0, <1>1, <2>1, <2>2 DEF OwnershipInv, CountInv, DeclaredInv, Shared
<1>3. CASE ~OwnershipRefused(p)
  <2>1. /\ pub_pc' = [pub_pc EXCEPT ![p] = "idle"]
        /\ publisher_count' = publisher_count + 1
        /\ declared_ownership' = pub_qos[p].ownership
    BY <1>3 DEF AddPublisher, PubGoto
  <2>2. Registered' = Registered \cup {p} /\ p \notin Registered
    BY <1>0, <2>1 DEF Registered
  <2>3. CountInv'
    BY <2>1, <2>2, FS_AddElement DEF OwnershipInv, CountInv
  <2>4. Registered # {} => declared_ownership = "kShared" /\ Shared(p)
    <3>1. ASSUME Registered # {} PROVE publisher_count > 0
      BY <3>1, FS_EmptySet, FS_CardinalityType DEF OwnershipInv, CountInv
    <3>2. declared_ownership \in {"kExclusive", "kShared"}
      BY DEF TypeInv, TopicTypes
    <3> QED
      BY <1>3, <3>1, <3>2 DEF OwnershipRefused
  <2>5. DeclaredInv'
    BY <1>0, <2>1, <2>2, <2>4 DEF OwnershipInv, DeclaredInv, Shared
  <2> QED
    BY <1>1, <2>3, <2>5 DEF OwnershipInv
<1> QED
  BY <1>2, <1>3

LEMMA OwnershipRemove ==
  ASSUME TypeInv, OwnershipInv, NEW p \in Pubs, RemovePublisher(p)
  PROVE  OwnershipInv'
<1>0. pub_pc \in [Pubs -> PubStates]
  BY DEF TypeInv, PubTypes
<1>1. Registered' = Registered \ {p} /\ p \in Registered
  BY <1>0 DEF RemovePublisher, PubGoto, Registered
<1>2. CountInv'
  BY <1>1, FS_RemoveElement DEF OwnershipInv, CountInv, RemovePublisher
<1>3. DeclaredInv'
  BY <1>1 DEF OwnershipInv, DeclaredInv, Shared, RemovePublisher
<1>4. MutexInv'
  BY <1>0 DEF OwnershipInv, MutexInv, Shared, Delivering, RemovePublisher, PubGoto
<1> QED
  BY <1>2, <1>3, <1>4 DEF OwnershipInv

LEMMA OwnershipEnter ==
  ASSUME TypeInv, OwnershipInv, NEW p \in Pubs, PublishFrom(p), UNCHANGED deliverFrame
  PROVE  OwnershipInv'
<1>0. pub_pc \in [Pubs -> PubStates]
  BY DEF TypeInv, PubTypes
<1>1. Registered' = Registered
  BY <1>0 DEF PublishFrom, PubGoto, Registered
<1>2. \A q \in Pubs : Delivering(q)' => Delivering(q) \/ q = p
  BY <1>0 DEF PublishFrom, PubGoto, Delivering
<1>3. MutexInv'
  BY <1>2, TopicAssumption DEF OwnershipInv, MutexInv, Shared, PublishFrom, Locks,
     deliverFrame
<1>4. UNCHANGED <<publisher_count, declared_ownership, pub_qos>>
  BY DEF deliverFrame, topicVars
<1> QED
  BY <1>1, <1>3, <1>4 DEF OwnershipInv, CountInv, DeclaredInv, Shared

LEMMA OwnershipDeliver ==
  ASSUME TypeInv, OwnershipInv, NEW p \in Pubs, Deliver(p)
  PROVE  OwnershipInv'
<1>0. UNCHANGED deliverFrame /\ UNCHANGED <<publisher_count, declared_ownership, pub_qos>>
  BY DEF Deliver, deliverFrame, topicVars
<1> DEFINE Moving == \/ ReadClock(p) \/ Accept(p) \/ StoreMaster(p) \/ LoadSlot(p)
                     \/ StampBaseline(p) \/ StoreLatest(p) \/ Push(p)
<1>1. CASE Moving
  <2>1. Delivering(p) /\ UNCHANGED shared_write_mutex
    BY <1>1 DEF ReadClock, Accept, StoreMaster, LoadSlot, StampBaseline, StoreLatest,
       Push, Delivering
  <2>2. \E x \in PubStates \ {"unborn", "refused", "idle", "closed"} :
          pub_pc' = [pub_pc EXCEPT ![p] = x]
    BY <1>1 DEF ReadClock, Accept, StoreMaster, LoadSlot, StampBaseline, StoreLatest,
       Push, Advance, PubGoto, PubStates
  <2> QED
    BY <1>0, <2>1, <2>2, OwnershipMove
<1>2. CASE Precheck(p)
  <2>1. Delivering(p)
    BY <1>2 DEF Precheck, Delivering
  <2>2. CASE Return(p)
    BY <1>0, <2>1, <2>2, OwnershipReturn
  <2>3. CASE ~Return(p)
    <3>1. /\ shared_write_mutex' = shared_write_mutex
          /\ \E x \in {"clock", "precheck"} : pub_pc' = [pub_pc EXCEPT ![p] = x]
      BY <1>2, <2>3 DEF Precheck, PubGoto, TypeInv, PubTypes
    <3> QED
      BY <1>0, <2>1, <3>1, OwnershipMove DEF PubStates
  <2> QED
    BY <2>2, <2>3
<1>3. CASE Count(p)
  BY <1>0, <1>3, OwnershipReturn DEF Count, Delivering
<1>4. CASE PublishFrom(p)
  BY <1>0, <1>4, OwnershipEnter
<1> QED
  BY <1>1, <1>2, <1>3, <1>4 DEF Deliver

LEMMA OwnershipNext == TypeInv /\ OwnershipInv /\ [Next]_vars => OwnershipInv'
<1> SUFFICES ASSUME TypeInv, OwnershipInv, [Next]_vars PROVE OwnershipInv'
  OBVIOUS
<1>1. ASSUME UNCHANGED <<publisher_count, declared_ownership, pub_pc, pub_qos,
                         shared_write_mutex>>
      PROVE  OwnershipInv'
  BY <1>1 DEF OwnershipInv, CountInv, DeclaredInv, MutexInv, Registered, Shared, Delivering
<1>2. ASSUME NEW s \in Subs, Seed(s) \/ Attach(s) \/ RemoveSubscriber(s) \/ Take(s)
      PROVE  OwnershipInv'
  BY <1>1, <1>2 DEF Seed, Attach, RemoveSubscriber, Take, takeFrame, topicVars, pubVars
<1>3. CASE Tick
  BY <1>1, <1>3 DEF Tick, pubVars
<1>4. CASE UNCHANGED vars
  BY <1>1, <1>4 DEF vars, topicVars, pubVars
<1> QED
  BY <1>2, <1>3, <1>4, OwnershipAdd, OwnershipRemove, OwnershipDeliver DEF Next

LEMMA OwnershipInit == Init => OwnershipInv
<1> SUFFICES ASSUME Init PROVE OwnershipInv
  OBVIOUS
<1>1. Registered = {} /\ \A p \in Pubs : ~Delivering(p)
  BY DEF Init, Registered, Delivering
<1> QED
  BY <1>1, FS_EmptySet DEF Init, OwnershipInv, CountInv, DeclaredInv, MutexInv

LEMMA OwnershipInvariant == Spec => []OwnershipInv
BY OwnershipInit, OwnershipNext, TypeInvariant, PTL DEF Spec

\* D15 for any number of publishers: whatever they declare and however they
\* come and go, at most one is inside Deliver, so mailboxes and rings keep the
\* single writer their lock-free algorithms need.
THEOREM SingleWriterAlways == Spec => []SingleWriter
<1>1. OwnershipInv => SingleWriter
  BY DEF OwnershipInv, DeclaredInv, MutexInv, SingleWriter, Registered, Delivering
<1> QED
  BY <1>1, OwnershipInvariant, PTL

-----------------------------------------------------------------------------
\* A latest-only subscriber sees what LatestBox lets it see.

\* A record that was drawn, or none.
Drawn(r) == r.ordinal <= accepted_ordinal /\ (r.ordinal = 0 => r = NoRecord)

\* The one writer carries the newest ordinal.
WriterInv == \A p \in Pubs : HasOrdinal(p) => record[p].ordinal = accepted_ordinal

ShownInv ==
  /\ Drawn(master)
  /\ \A s \in Subs : Drawn(latest[s]) /\ Drawn(loaded[s])

\* The fan-out reaches no core before its mailbox is seeded, and only a
\* latest-only core reads one.
BornInv ==
  /\ \A s \in Subs : sub_pc[s] = "unborn" => latest[s] = NoRecord
  /\ \A i \in Slots : sub_slots[i] # None => sub_pc[sub_slots[i]] # "unborn"
  /\ \A p \in Pubs : target[p] # None => sub_pc[target[p]] # "unborn"
  /\ \A s \in Subs : ~IsLatest(s) => loaded[s] = NoRecord

ConflatesInv == WriterInv /\ ShownInv /\ BornInv

LEMMA ConflatesInit == Init => ConflatesInv
<1> SUFFICES ASSUME Init PROVE ConflatesInv
  OBVIOUS
<1>1. WriterInv
  BY DEF Init, WriterInv, HasOrdinal
<1>2. ShownInv
  BY DEF Init, ShownInv, Drawn, NoRecord
<1>3. BornInv
  BY DEF Init, BornInv
<1> QED
  BY <1>1, <1>2, <1>3 DEF ConflatesInv

-----------------------------------------------------------------------------
\* The invariant is inductive.

\* Only Accept draws an ordinal, and its caller is then the only writer.
LEMMA WriterDeliver ==
  ASSUME TypeInv, OwnershipInv, WriterInv, NEW p \in Pubs, Deliver(p)
  PROVE  WriterInv'
<1>0. /\ pub_pc \in [Pubs -> PubStates] /\ record \in [Pubs -> Record]
      /\ cursor \in [Pubs -> Slots] /\ accepted_ordinal \in 0..MaxAccepted
  BY DEF TypeInv, PubTypes, TopicTypes
<1>1. CASE PublishFrom(p)
  BY <1>0, <1>1 DEF PublishFrom, PubGoto, writeVars, WriterInv, HasOrdinal
<1>2. CASE Precheck(p)
  BY <1>0, <1>2 DEF Precheck, Return, PubGoto, writeVars, WriterInv, HasOrdinal
<1>3. CASE ReadClock(p)
  BY <1>0, <1>3 DEF ReadClock, PubGoto, writeVars, WriterInv, HasOrdinal
<1>4. CASE Accept(p)
  <2>1. \A q \in Pubs : HasOrdinal(q)' => q = p
    <3>1. \A q \in Pubs : Delivering(q) => q = p
      BY <1>4 DEF OwnershipInv, DeclaredInv, MutexInv, Registered, Delivering, Accept
    <3> QED
      BY <1>0, <1>4, <3>1 DEF Accept, PubGoto, HasOrdinal, Delivering
  <2> QED
    BY <1>0, <1>4, <2>1 DEF Accept, WriterInv
<1>5. CASE StoreMaster(p) \/ LoadSlot(p) \/ StampBaseline(p) \/ StoreLatest(p) \/ Push(p)
  <2>1. HasOrdinal(p) /\ UNCHANGED <<record, accepted_ordinal>>
    BY <1>5 DEF StoreMaster, LoadSlot, StampBaseline, StoreLatest, Push, HasOrdinal,
       writeVars
  <2>2. \A q \in Pubs : q # p => pub_pc'[q] = pub_pc[q]
    BY <1>0, <1>5 DEF StoreMaster, LoadSlot, StampBaseline, StoreLatest, Push, Advance,
       PubGoto
  <2> QED
    BY <2>1, <2>2 DEF WriterInv, HasOrdinal
<1>6. CASE Count(p)
  BY <1>0, <1>6 DEF Count, Return, PubGoto, writeVars, WriterInv, HasOrdinal
<1> QED
  BY <1>1, <1>2, <1>3, <1>4, <1>5, <1>6 DEF Deliver

LEMMA ShownDeliver ==
  ASSUME TypeInv, WriterInv, ShownInv, NEW p \in Pubs, Deliver(p)
  PROVE  ShownInv'
<1>0. /\ record \in [Pubs -> Record] /\ accepted_ordinal \in 0..MaxAccepted
      /\ master \in Record /\ latest \in [Subs -> Record] /\ loaded \in [Subs -> Record]
      /\ target \in [Pubs -> Subs \cup {None}]
  BY DEF TypeInv, PubTypes, TopicTypes, BoxTypes, TakeTypes
<1>1. UNCHANGED loaded
  BY DEF Deliver, deliverFrame, takeVars
<1>2. HasOrdinal(p) => Drawn(record[p])
  BY <1>0, RecordFacts, TopicAssumption DEF WriterInv, Drawn, TypeInv, DeliverInv
<1>3. CASE Accept(p)
  BY <1>0, <1>1, <1>3, RecordFacts, TopicAssumption
     DEF Accept, boxVars, ShownInv, Drawn
<1>4. CASE StoreMaster(p)
  BY <1>1, <1>2, <1>4 DEF StoreMaster, boxVars, ShownInv, Drawn, HasOrdinal
<1>5. CASE StoreLatest(p)
  BY <1>0, <1>1, <1>2, <1>5 DEF StoreLatest, writeVars, ShownInv, Drawn, HasOrdinal
<1>6. CASE UNCHANGED <<accepted_ordinal, master, latest>>
  BY <1>1, <1>6 DEF ShownInv, Drawn
<1> QED
  BY <1>3, <1>4, <1>5, <1>6 DEF Deliver, PublishFrom, Precheck, ReadClock, LoadSlot,
     StampBaseline, Push, Count, writeVars, boxVars

LEMMA BornDeliver ==
  ASSUME TypeInv, BornInv, NEW p \in Pubs, Deliver(p)
  PROVE  BornInv'
<1>0. /\ target \in [Pubs -> Subs \cup {None}] /\ cursor \in [Pubs -> Slots]
      /\ latest \in [Subs -> Record]
  BY DEF TypeInv, PubTypes, BoxTypes
<1>1. UNCHANGED <<loaded, sub_pc, sub_qos, sub_slots>>
  BY DEF Deliver, deliverFrame, takeVars, subVars, topicVars
<1>2. \A q \in Pubs : target'[q] # None => sub_pc[target'[q]] # "unborn"
  <2>1. CASE LoadSlot(p)
    <3>1. /\ target'[p] \in {None, sub_slots[cursor[p]]} /\ cursor[p] \in Slots
          /\ \A q \in Pubs : q # p => target'[q] = target[q]
      BY <1>0, <2>1 DEF LoadSlot, Advance
    <3> QED
      BY <3>1 DEF BornInv
  <2>2. CASE StoreLatest(p) \/ Push(p)
    BY <1>0, <2>2 DEF StoreLatest, Push, Advance, BornInv
  <2>3. CASE UNCHANGED target
    BY <2>3 DEF BornInv
  <2> QED
    BY <2>1, <2>2, <2>3 DEF Deliver, PublishFrom, Precheck, ReadClock, Accept,
       StoreMaster, StampBaseline, Count
<1>3. \A s \in Subs : sub_pc[s] = "unborn" => latest'[s] = NoRecord
  <2>1. CASE StoreLatest(p)
    <3>1. target[p] # None
      BY <2>1 DEF StoreLatest, TypeInv, DeliverInv
    <3> QED
      BY <1>0, <2>1, <3>1 DEF StoreLatest, BornInv
  <2>2. CASE UNCHANGED latest
    BY <2>2 DEF BornInv
  <2> QED
    BY <2>1, <2>2 DEF Deliver, PublishFrom, Precheck, ReadClock, Accept, StoreMaster,
       LoadSlot, StampBaseline, Push, Count, boxVars
<1> QED
  BY <1>1, <1>2, <1>3 DEF BornInv, IsLatest

\* The wiring of a subscriber.
LEMMA ConflatesWire ==
  ASSUME TypeInv, ConflatesInv, NEW s \in Subs, Seed(s) \/ Attach(s) \/ RemoveSubscriber(s)
  PROVE  ConflatesInv'
<1>0. /\ sub_pc \in [Subs -> SubStates] /\ latest \in [Subs -> Record]
      /\ sub_slots \in [Slots -> Subs \cup {None}]
  BY DEF TypeInv, TopicTypes, BoxTypes
<1>1. UNCHANGED <<writeVars, pubVars, sub_qos, takeVars>>
  BY DEF Seed, Attach, RemoveSubscriber
<1>2. WriterInv'
  BY <1>1 DEF ConflatesInv, WriterInv, HasOrdinal, writeVars, pubVars
<1>3. ShownInv'
  BY <1>0, <1>1 DEF ConflatesInv, ShownInv, Drawn, writeVars, takeVars, boxVars, Seed,
     SeedRecord, Attach, RemoveSubscriber
<1>4. sub_pc'[s] # "unborn" /\ \A t \in Subs \ {s} : sub_pc'[t] = sub_pc[t]
  BY <1>0 DEF Seed, Attach, RemoveSubscriber, SubGoto
<1>5. \A i \in Slots : sub_slots'[i] \in {sub_slots[i], s, None}
  BY <1>0 DEF Seed, Attach, RemoveSubscriber
<1>6. \A t \in Subs \ {s} : latest'[t] = latest[t]
  BY <1>0 DEF Seed, Attach, RemoveSubscriber, boxVars
<1>7. target' = target /\ loaded' = loaded /\ target \in [Pubs -> Subs \cup {None}]
  BY <1>1 DEF pubVars, takeVars, TypeInv, PubTypes
<1>8. BornInv'
  BY <1>0, <1>1, <1>4, <1>5, <1>6, <1>7, TopicAssumption
     DEF ConflatesInv, BornInv, IsLatest
<1> QED
  BY <1>2, <1>3, <1>8 DEF ConflatesInv

LEMMA ConflatesTake ==
  ASSUME TypeInv, ConflatesInv, NEW s \in Subs, Take(s)
  PROVE  ConflatesInv'
<1>0. /\ latest \in [Subs -> Record] /\ loaded \in [Subs -> Record]
      /\ accepted_ordinal \in 0..MaxAccepted
  BY DEF TypeInv, TopicTypes, BoxTypes, TakeTypes
<1>1. UNCHANGED <<topicVars, writeVars, pubVars, subVars, latest>>
  BY DEF Take, takeFrame
<1>2. \A t \in Subs : loaded'[t] \in {loaded[t], latest[t], NoRecord}
  BY <1>0 DEF Take, LoadLatest, TakeLatest, TryTake
<1>3. \A t \in Subs : ~IsLatest(t) => loaded'[t] \in {loaded[t], NoRecord}
  BY <1>0 DEF Take, LoadLatest, TakeLatest, TryTake
<1>4. Drawn(NoRecord)
  BY <1>0, TopicAssumption DEF Drawn, NoRecord
<1>5. WriterInv'
  BY <1>1 DEF ConflatesInv, WriterInv, HasOrdinal, writeVars, pubVars
<1>6. ShownInv'
  BY <1>1, <1>2, <1>4 DEF ConflatesInv, ShownInv, Drawn, writeVars
<1>7. BornInv'
  BY <1>1, <1>3 DEF ConflatesInv, BornInv, IsLatest, topicVars, pubVars, subVars
<1> QED
  BY <1>5, <1>6, <1>7 DEF ConflatesInv

LEMMA ConflatesNext ==
  ASSUME TypeInv, OwnershipInv, ConflatesInv, [Next]_vars
  PROVE  ConflatesInv'
<1>1. ASSUME NEW p \in Pubs, Deliver(p) PROVE ConflatesInv'
  BY <1>1, WriterDeliver, ShownDeliver, BornDeliver DEF ConflatesInv
<1>2. ASSUME NEW p \in Pubs, AddPublisher(p) \/ RemovePublisher(p) PROVE ConflatesInv'
  <2>0. pub_pc \in [Pubs -> PubStates]
    BY DEF TypeInv, PubTypes
  <2>1. UNCHANGED <<sub_slots, writeVars, record, target, subVars, boxVars, takeVars>>
    BY <1>2 DEF AddPublisher, RemovePublisher
  <2>2. \A q \in Pubs : HasOrdinal(q)' => HasOrdinal(q)
    BY <1>2, <2>0 DEF AddPublisher, RemovePublisher, PubGoto, HasOrdinal
  <2> QED
    BY <2>1, <2>2 DEF ConflatesInv, WriterInv, ShownInv, Drawn, BornInv, IsLatest,
       writeVars, subVars, boxVars, takeVars
<1>3. CASE Tick \/ UNCHANGED vars
  BY <1>3 DEF Tick, vars, topicVars, ConflatesInv, WriterInv, HasOrdinal, ShownInv, Drawn,
     BornInv, IsLatest, writeVars, pubVars, subVars, boxVars, takeVars
<1> QED
  BY <1>1, <1>2, <1>3, ConflatesWire, ConflatesTake DEF Next

LEMMA ConflatesInvariant == Spec => []ConflatesInv
BY ConflatesInit, ConflatesNext, TypeInvariant, OwnershipInvariant, PTL DEF Spec

-----------------------------------------------------------------------------
\* Every step of the topic is a step of each subscriber's mailbox.

\* A step that touches neither what a mailbox shows nor what takes hold or
\* returned is a stutter of it.
LEMMA BoxStutter ==
  ASSUME NEW s \in Subs, latest'[s].ordinal = latest[s].ordinal,
         UNCHANGED <<loaded, taken, sub_qos>>
  PROVE  Box(s)!Step
BY DEF Box!Step, Box!vars, IsLatest

\* A mailbox that shows a newer record.
LEMMA BoxPost ==
  ASSUME NEW s \in Subs, latest'[s].ordinal \in 0..MaxAccepted,
         latest[s].ordinal \in Nat, latest'[s].ordinal >= latest[s].ordinal,
         UNCHANGED <<loaded, taken, sub_qos>>
  PROVE  Box(s)!Step
<1>1. CASE latest'[s].ordinal = latest[s].ordinal
  BY <1>1, BoxStutter
<1>2. CASE latest'[s].ordinal > latest[s].ordinal
  BY <1>2 DEF Box!Step, Box!Next, Box!Post, IsLatest
<1> QED
  BY <1>1, <1>2, TopicAssumption

\* Storing is posting: the writer's record is the newest drawn.
LEMMA StepDeliver ==
  ASSUME TypeInv, ConflatesInv, NEW p \in Pubs, Deliver(p), NEW s \in Subs
  PROVE  Box(s)!Step
<1>0. latest \in [Subs -> Record] /\ record \in [Pubs -> Record]
  BY DEF TypeInv, BoxTypes, PubTypes
<1>1. UNCHANGED <<loaded, taken, sub_qos>>
  BY DEF Deliver, deliverFrame, takeVars, subVars
<1>2. CASE StoreLatest(p)
  <2>1. latest'[s] \in {latest[s], record[p]}
    BY <1>0, <1>2 DEF StoreLatest
  <2>2. record[p].ordinal >= latest[s].ordinal
    BY <1>0, <1>2, RecordFacts, TopicAssumption
       DEF StoreLatest, ConflatesInv, WriterInv, HasOrdinal, ShownInv, Drawn, TypeInv,
           TopicTypes
  <2> QED
    BY <1>0, <1>1, <2>1, <2>2, RecordFacts, TopicAssumption, BoxPost
<1>3. CASE UNCHANGED latest
  BY <1>1, <1>3, BoxStutter
<1> QED
  BY <1>2, <1>3 DEF Deliver, PublishFrom, Precheck, ReadClock, Accept, StoreMaster,
     LoadSlot, StampBaseline, Push, Count, boxVars

\* Seeding is posting into a mailbox that shows nothing.
LEMMA StepSeed ==
  ASSUME TypeInv, ConflatesInv, NEW t \in Subs, Seed(t), NEW s \in Subs
  PROVE  Box(s)!Step
<1>0. latest \in [Subs -> Record] /\ master \in Record
  BY DEF TypeInv, BoxTypes, TopicTypes
<1>1. UNCHANGED <<loaded, taken, sub_qos>>
  BY DEF Seed, takeVars
<1>2. latest'[s] = latest[s] \/ (latest'[s] = master /\ latest[s] = NoRecord)
  BY <1>0 DEF Seed, SeedRecord, ConflatesInv, BornInv
<1>3. latest[s].ordinal \in Nat /\ latest'[s].ordinal \in 0..MaxAccepted /\ NoRecord.ordinal = 0
  BY <1>0, <1>2, RecordFacts, TopicAssumption DEF NoRecord
<1>4. \A x \in 0..MaxAccepted : x >= x /\ x >= 0
  BY TopicAssumption
<1>5. latest'[s].ordinal >= latest[s].ordinal
  BY <1>2, <1>3, <1>4
<1> QED
  BY <1>1, <1>3, <1>5, BoxPost

LEMMA StepTake ==
  ASSUME TypeInv, ConflatesInv, NEW t \in Subs, Take(t), NEW s \in Subs
  PROVE  Box(s)!Step
<1>0. /\ latest \in [Subs -> Record] /\ loaded \in [Subs -> Record]
      /\ taken \in [Subs -> SUBSET Nat]
  BY DEF TypeInv, BoxTypes, TakeTypes
<1>1. UNCHANGED <<latest, sub_qos>>
  BY DEF Take, takeFrame, subVars
<1>2. CASE s # t
  <2>1. loaded'[s] = loaded[s] /\ taken'[s] = taken[s]
    BY <1>0, <1>2 DEF Take, LoadLatest, TakeLatest, TryTake
  <2> QED
    BY <1>1, <2>1 DEF Box!Step, Box!vars, IsLatest
<1>3. CASE s = t /\ LoadLatest(t)
  <2>1. /\ loaded[s].ordinal = 0 /\ latest[s].ordinal # 0
        /\ loaded'[s] = latest[s] /\ taken' = taken
    BY <1>0, <1>3 DEF LoadLatest, NoRecord, ConflatesInv, ShownInv, Drawn
  <2> QED
    BY <1>1, <2>1 DEF Box!Step, Box!Next, Box!Read, IsLatest
<1>4. CASE s = t /\ TakeLatest(t)
  <2>1. /\ loaded[s].ordinal # 0 /\ loaded'[s].ordinal = 0 /\ IsLatest(s)
        /\ taken'[s] = taken[s] \cup {loaded[s].ordinal}
    BY <1>0, <1>4 DEF TakeLatest, NoRecord, ConflatesInv, ShownInv, Drawn, BornInv
  <2> QED
    BY <1>1, <2>1 DEF Box!Step, Box!Next, Box!Return, IsLatest
<1>5. CASE s = t /\ TryTake(t)
  BY <1>1, <1>5 DEF TryTake, Box!Step, Box!vars, IsLatest
<1> QED
  BY <1>2, <1>3, <1>4, <1>5 DEF Take

LEMMA StepNext ==
  ASSUME TypeInv, ConflatesInv, [Next]_vars, NEW s \in Subs
  PROVE  Box(s)!Step
<1>1. ASSUME UNCHANGED <<latest, loaded, taken, sub_qos>> PROVE Box(s)!Step
  BY <1>1, BoxStutter
<1>2. ASSUME NEW p \in Pubs, AddPublisher(p) \/ RemovePublisher(p) PROVE Box(s)!Step
  BY <1>1, <1>2 DEF AddPublisher, RemovePublisher, boxVars, takeVars, subVars
<1>3. ASSUME NEW t \in Subs, Attach(t) \/ RemoveSubscriber(t) PROVE Box(s)!Step
  BY <1>1, <1>3 DEF Attach, RemoveSubscriber, boxVars, takeVars
<1>4. CASE Tick \/ UNCHANGED vars
  BY <1>1, <1>4 DEF Tick, vars, boxVars, takeVars, subVars
<1> QED
  BY <1>2, <1>3, <1>4, StepDeliver, StepSeed, StepTake DEF Next

\* The latest-only promise for any number of publishers and subscribers: the
\* cut-up Deliver, Seed and TakeLatest implement the one-mailbox LatestBox.
THEOREM ConflatesAlways == Spec => Conflates
<1>1. Init => \A s \in Subs : Box(s)!Init
  BY DEF Init, NoRecord, Box!Init
<1>2. TypeInv /\ ConflatesInv /\ [Next]_vars => [\A s \in Subs : Box(s)!Step]_vars
  BY StepNext
<1> QED
  BY <1>1, <1>2, TypeInvariant, ConflatesInvariant, PTL DEF Spec, Conflates

-----------------------------------------------------------------------------
\* The fan-out.  What a publisher past Accept still owes to whom decides what is
\* lost, refused and counted.

Occupied == {i \in Slots : sub_slots[i] # None}

\* Slots and cores correspond.
SlotInv ==
  /\ subscriber_count = Cardinality(Occupied)
  /\ \A i, j \in Slots : sub_slots[i] = sub_slots[j] /\ sub_slots[i] # None => i = j
  /\ \A s \in Subs : (\E i \in Slots : sub_slots[i] = s) <=> sub_pc[s] = "attached"

\* A publisher that has loaded a slot, and one that walks the table.
Inside == {"stamp", "store", "push"}
Walks  == {"precheck", "load", "count"} \cup Inside

\* The fan-out of p has yet to offer its record to s.
AheadAt(p, i) == \/ pub_pc[p] \in {"master", "load"} /\ i >= cursor[p]
                 \/ pub_pc[p] \in Inside /\ i > cursor[p]
Ahead(p, s) == \/ pub_pc[p] \in Inside /\ target[p] = s
               \/ \E i \in Slots : sub_slots[i] = s /\ AheadAt(p, i)

\* The core that p has loaded was in the slot at its cursor and is in no other.
FanAt(p) ==
  /\ pub_pc[p] \notin Walks => cursor[p] = 1
  /\ pub_pc[p] \in Inside =>
       /\ sub_pc[target[p]] \in {"attached", "detached"}
       /\ \A i \in Slots : sub_slots[i] = target[p] => i = cursor[p]
       /\ \A s \in Subs : s = target[p] => (IsLatest(s) <=> pub_pc[p] # "push")
  /\ pub_pc[p] \in {"load", "count"} \cup Inside => master = record[p]

\* Nothing is offered to a core outside the table.
NewAt(s) == sub_pc[s] \notin {"attached", "detached"} => queue[s] = <<>> /\ offered[s] = {}

FanInv == (\A p \in Pubs : FanAt(p)) /\ (\A s \in Subs : NewAt(s))

-----------------------------------------------------------------------------
\* Slots and counts.

LEMMA Fan0 ==
  ASSUME TypeInv
  PROVE  /\ pub_pc \in [Pubs -> PubStates] /\ cursor \in [Pubs -> Slots]
         /\ record \in [Pubs -> Record] /\ target \in [Pubs -> Subs \cup {None}]
         /\ sub_slots \in [Slots -> Subs \cup {None}] /\ sub_pc \in [Subs -> SubStates]
BY DEF TypeInv, TopicTypes, PubTypes, BoxTypes

LEMMA OccupiedFinite == IsFiniteSet(Occupied)
<1>1. IsFiniteSet(Slots)
  BY FS_Interval, TopicAssumption DEF Slots
<1> QED
  BY <1>1, FS_Subset DEF Occupied

LEMMA SlotAttach ==
  ASSUME TypeInv, SlotInv, NEW s \in Subs, Attach(s)
  PROVE  SlotInv'
<1>1. sub_pc[s] = "seeded" /\ \A i \in Slots : sub_slots[i] # s
  BY DEF Attach, SlotInv
<1>2. CASE \A i \in Slots : sub_slots[i] # None
  <2>1. UNCHANGED <<sub_slots, subscriber_count>> /\ sub_pc' = [sub_pc EXCEPT ![s] = "unconnected"]
    BY <1>2 DEF Attach, FirstNull, SubGoto
  <2> QED
    BY <1>1, <2>1, Fan0 DEF SlotInv, Occupied
<1>3. CASE ~ \A i \in Slots : sub_slots[i] # None
  <2>1. PICK i \in Slots : /\ sub_slots[i] = None
                           /\ sub_slots' = [sub_slots EXCEPT ![i] = s]
                           /\ subscriber_count' = subscriber_count + 1
                           /\ sub_pc' = [sub_pc EXCEPT ![s] = "attached"]
    BY <1>3 DEF Attach, FirstNull, SubGoto
  <2>2. sub_slots'[i] = s /\ \A j \in Slots : j # i => sub_slots'[j] = sub_slots[j]
    BY <2>1, Fan0
  <2>3. Occupied' = Occupied \cup {i} /\ i \notin Occupied
    BY <2>1, <2>2, TopicAssumption DEF Occupied
  <2>4. subscriber_count' = Cardinality(Occupied')
    BY <2>1, <2>3, OccupiedFinite, FS_AddElement DEF SlotInv
  <2>5. ASSUME NEW j \in Slots, NEW k \in Slots, sub_slots'[j] = sub_slots'[k], sub_slots'[j] # None
        PROVE  j = k
    BY <1>1, <2>2, <2>5 DEF SlotInv
  <2>6. ASSUME NEW t \in Subs
        PROVE  (\E j \in Slots : sub_slots'[j] = t) <=> sub_pc'[t] = "attached"
    <3>1. CASE t = s
      BY <2>1, <2>2, <3>1, Fan0
    <3>2. CASE t # s
      <4>1. sub_pc'[t] = sub_pc[t]
        BY <2>1, <3>2, Fan0
      <4>2. \A j \in Slots : sub_slots'[j] = t <=> sub_slots[j] = t
        BY <2>1, <2>2, <3>2, TopicAssumption
      <4> QED
        BY <4>1, <4>2 DEF SlotInv
    <3> QED
      BY <3>1, <3>2
  <2> QED
    BY <2>4, <2>5, <2>6 DEF SlotInv
<1> QED
  BY <1>2, <1>3

LEMMA SlotRemove ==
  ASSUME TypeInv, SlotInv, NEW s \in Subs, RemoveSubscriber(s)
  PROVE  SlotInv'
<1>1. /\ sub_pc' = [sub_pc EXCEPT ![s] = "detached"]
      /\ \A i \in Slots : sub_slots'[i] = IF sub_slots[i] = s THEN None ELSE sub_slots[i]
  BY DEF RemoveSubscriber, SubGoto
<1>2. subscriber_count' = Cardinality(Occupied')
  <2>1. CASE sub_pc[s] = "attached"
    <3>1. PICK i \in Slots : sub_slots[i] = s
      BY <2>1 DEF SlotInv
    <3>2. \A j \in Slots : sub_slots[j] = s => j = i
      BY <3>1, TopicAssumption DEF SlotInv
    <3>3. Occupied' = Occupied \ {i} /\ i \in Occupied
      BY <1>1, <3>1, <3>2, TopicAssumption DEF Occupied
    <3>4. subscriber_count' = subscriber_count - 1
      BY <2>1 DEF RemoveSubscriber, Vacated
    <3> QED
      BY <3>3, <3>4, OccupiedFinite, FS_RemoveElement DEF SlotInv
  <2>2. CASE sub_pc[s] # "attached"
    <3>1. \A i \in Slots : sub_slots[i] # s
      BY <2>2 DEF SlotInv
    <3>2. Occupied' = Occupied
      BY <1>1, <3>1 DEF Occupied
    <3>3. subscriber_count' = subscriber_count - 0
      BY <2>2 DEF RemoveSubscriber, Vacated
    <3> QED
      BY <3>2, <3>3 DEF SlotInv, TypeInv, TopicTypes
  <2> QED
    BY <2>1, <2>2
<1>3. ASSUME NEW j \in Slots, NEW k \in Slots, sub_slots'[j] = sub_slots'[k], sub_slots'[j] # None
      PROVE  j = k
  BY <1>1, <1>3 DEF SlotInv
<1>4. ASSUME NEW t \in Subs
      PROVE  (\E j \in Slots : sub_slots'[j] = t) <=> sub_pc'[t] = "attached"
  <2>1. CASE t = s
    BY <1>1, <2>1, Fan0, TopicAssumption
  <2>2. CASE t # s
    <3>1. sub_pc'[t] = sub_pc[t]
      BY <1>1, <2>2, Fan0
    <3>2. \A j \in Slots : sub_slots'[j] = t <=> sub_slots[j] = t
      BY <1>1, <2>2, TopicAssumption
    <3> QED
      BY <3>1, <3>2 DEF SlotInv
  <2> QED
    BY <2>1, <2>2
<1> QED
  BY <1>2, <1>3, <1>4 DEF SlotInv

LEMMA SlotNext == TypeInv /\ SlotInv /\ [Next]_vars => SlotInv'
<1> SUFFICES ASSUME TypeInv, SlotInv, [Next]_vars PROVE SlotInv'
  OBVIOUS
<1>1. ASSUME UNCHANGED <<sub_slots, subscriber_count, sub_pc>> PROVE SlotInv'
  BY <1>1 DEF SlotInv, Occupied
<1>2. ASSUME NEW p \in Pubs, AddPublisher(p) \/ RemovePublisher(p) PROVE SlotInv'
  BY <1>1, <1>2 DEF AddPublisher, RemovePublisher, subVars
<1>3. ASSUME NEW p \in Pubs, Deliver(p) PROVE SlotInv'
  BY <1>1, <1>3 DEF Deliver, deliverFrame, topicVars, subVars
<1>4. ASSUME NEW s \in Subs, Seed(s) PROVE SlotInv'
  <2>1. UNCHANGED <<sub_slots, subscriber_count>> /\ sub_pc' = [sub_pc EXCEPT ![s] = "seeded"]
    BY <1>4 DEF Seed, SubGoto
  <2>2. sub_pc[s] = "unborn"
    BY <1>4 DEF Seed
  <2> QED
    BY <2>1, <2>2, Fan0 DEF SlotInv, Occupied
<1>5. ASSUME NEW s \in Subs, Take(s) PROVE SlotInv'
  BY <1>1, <1>5 DEF Take, takeFrame, topicVars, subVars
<1>6. CASE Tick \/ UNCHANGED vars
  BY <1>1, <1>6 DEF Tick, vars, topicVars, subVars
<1> QED
  BY <1>2, <1>3, <1>4, <1>5, <1>6, SlotAttach, SlotRemove DEF Next

LEMMA SlotInit == Init => SlotInv
<1> SUFFICES ASSUME Init PROVE SlotInv
  OBVIOUS
<1>1. Occupied = {} /\ \A i \in Slots : sub_slots[i] = None
  BY DEF Init, Occupied
<1> QED
  BY <1>1, FS_EmptySet, TopicAssumption DEF Init, SlotInv

LEMMA SlotInvariant == Spec => []SlotInv
BY SlotInit, SlotNext, TypeInvariant, PTL DEF Spec

\* What MatchedCount reads, for any number of cores and slots: the counters are
\* the registered publishers and the occupied slots however wiring interleaves
\* with delivery, and a core sits in one slot while it is attached.
THEOREM MatchCountsAlways == Spec => []MatchCounts
<1>1. SlotInv /\ OwnershipInv => MatchCounts
  BY DEF SlotInv, Occupied, OwnershipInv, CountInv, MatchCounts
<1> QED
  BY <1>1, SlotInvariant, OwnershipInvariant, PTL

-----------------------------------------------------------------------------
\* The steps of Deliver, seen from the table.

LEMMA Alone ==
  ASSUME OwnershipInv, NEW p \in Pubs, NEW q \in Pubs, Delivering(p), Delivering(q)
  PROVE  p = q
BY DEF OwnershipInv, DeclaredInv, MutexInv, Registered, Delivering

LEMMA Others ==
  ASSUME TypeInv, NEW p \in Pubs, Deliver(p), NEW q \in Pubs, q # p
  PROVE  /\ pub_pc'[q] = pub_pc[q] /\ cursor'[q] = cursor[q]
         /\ target'[q] = target[q] /\ record'[q] = record[q]
<1>1. CASE PublishFrom(p)
  BY <1>1, Fan0 DEF PublishFrom, PubGoto
<1>2. CASE Precheck(p)
  BY <1>2, Fan0 DEF Precheck, Return, PubGoto
<1>3. CASE ReadClock(p) \/ Accept(p) \/ StoreMaster(p)
  BY <1>3, Fan0 DEF ReadClock, Accept, StoreMaster, PubGoto
<1>4. CASE LoadSlot(p)
  BY <1>4, Fan0 DEF LoadSlot, Advance, PubGoto
<1>5. CASE StampBaseline(p)
  BY <1>5, Fan0 DEF StampBaseline, PubGoto
<1>6. CASE StoreLatest(p) \/ Push(p)
  BY <1>6, Fan0 DEF StoreLatest, Push, Advance, PubGoto
<1>7. CASE Count(p)
  BY <1>7, Fan0 DEF Count, Return, PubGoto
<1> QED
  BY <1>1, <1>2, <1>3, <1>4, <1>5, <1>6, <1>7 DEF Deliver

LEMMA Fixed ==
  ASSUME NEW p \in Pubs, Deliver(p)
  PROVE  UNCHANGED <<now, sub_slots, pub_qos, sub_pc, sub_qos, loaded, taken, deadline_miss_count,
                     stale_latched, overwrite_count>>
BY DEF Deliver, deliverFrame, topicVars, subVars, takeVars

LEMMA Advanced ==
  ASSUME TypeInv, NEW p \in Pubs, Advance(p)
  PROVE  /\ target'[p] = None
         /\ \/ pub_pc'[p] = "count" /\ cursor[p] = kMaxSubscribers /\ cursor'[p] = cursor[p]
            \/ pub_pc'[p] = "load" /\ cursor[p] # kMaxSubscribers /\ cursor'[p] = cursor[p] + 1
BY Fan0 DEF Advance, LastSlot, PubGoto

\* The loop before the ordinal is drawn, and after the last slot.
Outside == {"unborn", "refused", "idle", "closed", "precheck", "clock", "accept", "count"}

LEMMA Early ==
  ASSUME TypeInv, NEW p \in Pubs,
         PublishFrom(p) \/ Precheck(p) \/ ReadClock(p) \/ Count(p)
  PROVE  /\ pub_pc[p] \in Outside /\ pub_pc'[p] \in Outside \ {"count"}
         /\ UNCHANGED <<writeVars, target, boxVars>>
<1>1. CASE PublishFrom(p)
  BY <1>1, Fan0 DEF PublishFrom, PubGoto, Outside
<1>2. CASE Precheck(p)
  BY <1>2, Fan0 DEF Precheck, Return, PubGoto, Outside
<1>3. CASE ReadClock(p)
  BY <1>3, Fan0 DEF ReadClock, PubGoto, Outside
<1>4. CASE Count(p)
  BY <1>4, Fan0 DEF Count, Return, PubGoto, Outside
<1> QED
  BY <1>1, <1>2, <1>3, <1>4

LEMMA LoadSlotIs ==
  ASSUME TypeInv, NEW p \in Pubs, LoadSlot(p)
  PROVE  /\ pub_pc[p] = "load" /\ record' = record /\ UNCHANGED <<writeVars, boxVars>>
         /\ \/ /\ sub_slots[cursor[p]] = None /\ target'[p] = None
               /\ \/ pub_pc'[p] = "count" /\ cursor[p] = kMaxSubscribers /\ cursor'[p] = cursor[p]
                  \/ pub_pc'[p] = "load" /\ cursor[p] # kMaxSubscribers /\ cursor'[p] = cursor[p] + 1
            \/ /\ sub_slots[cursor[p]] \in Subs /\ target'[p] = sub_slots[cursor[p]]
               /\ pub_pc'[p] = (IF IsLatest(sub_slots[cursor[p]]) THEN "stamp" ELSE "push")
               /\ cursor'[p] = cursor[p]
<1>1. CASE sub_slots[cursor[p]] = None
  BY <1>1, Advanced DEF LoadSlot
<1>2. CASE sub_slots[cursor[p]] # None
  BY <1>2, Fan0 DEF LoadSlot, PubGoto
<1> QED
  BY <1>1, <1>2

\* Offering: the record goes to the loaded core and the loop moves on.
Offers(p) == StoreLatest(p) \/ Push(p)

LEMMA OffersIs ==
  ASSUME TypeInv, NEW p \in Pubs, Offers(p)
  PROVE  /\ pub_pc[p] \in Inside /\ target[p] \in Subs /\ record' = record
         /\ UNCHANGED writeVars /\ Advance(p)
         /\ offered'[target[p]] = offered[target[p]] \cup {record[p].ordinal}
         /\ \A s \in Subs : s # target[p] =>
              /\ offered'[s] = offered[s] /\ latest'[s] = latest[s]
              /\ queue'[s] = queue[s] /\ drop_count'[s] = drop_count[s]
<1>0. /\ offered \in [Subs -> SUBSET Nat] /\ latest \in [Subs -> Record]
      /\ queue \in [Subs -> Seq(Record)] /\ drop_count \in [Subs -> Nat]
  BY DEF TypeInv, BoxTypes
<1>1. pub_pc[p] \in {"store", "push"} /\ target[p] \in Subs
  BY Fan0 DEF Offers, StoreLatest, Push, TypeInv, DeliverInv
<1>2. CASE StoreLatest(p)
  BY <1>0, <1>1, <1>2 DEF StoreLatest, Inside
<1>3. CASE Push(p)
  BY <1>0, <1>1, <1>3 DEF Push, Drop, Inside
<1> QED
  BY <1>2, <1>3 DEF Offers

\* Ahead depends on the publisher's place and the table only.
LEMMA AheadOther ==
  ASSUME TypeInv, NEW p \in Pubs, Deliver(p), NEW q \in Pubs, q # p, NEW s \in Subs
  PROVE  Ahead(q, s)' <=> Ahead(q, s)
<1>1. pub_pc'[q] = pub_pc[q] /\ cursor'[q] = cursor[q] /\ target'[q] = target[q]
  BY Others
<1>2. sub_slots' = sub_slots
  BY Fixed
<1> QED
  BY <1>1, <1>2 DEF Ahead, AheadAt

LEMMA NotAhead ==
  ASSUME NEW q \in Pubs, pub_pc[q] \in Outside
  PROVE  \A s \in Subs : ~Ahead(q, s)
BY DEF Ahead, AheadAt, Inside, Outside

LEMMA NotAheadNext ==
  ASSUME NEW q \in Pubs, pub_pc'[q] \in Outside
  PROVE  \A s \in Subs : ~Ahead(q, s)'
BY DEF Ahead, AheadAt, Inside, Outside

\* Past the draw of its ordinal a publisher has every attached core before it.
LEMMA AheadAccept ==
  ASSUME TypeInv, OwnershipInv, SlotInv, FanInv, NEW p \in Pubs, Accept(p), Deliver(p),
         NEW s \in Subs
  PROVE  /\ \A q \in Pubs : ~Ahead(q, s)
         /\ Ahead(p, s)' <=> sub_pc[s] = "attached"
         /\ \A q \in Pubs : q # p => ~Ahead(q, s)'
<1>1. pub_pc[p] = "accept" /\ pub_pc'[p] = "master" /\ cursor'[p] = cursor[p] /\ sub_slots' = sub_slots
  BY Fixed, Fan0 DEF Accept, PubGoto
<1>2. cursor[p] = 1
  BY <1>1 DEF FanInv, FanAt, Walks, Inside
<1>3. Ahead(p, s)' <=> \E i \in Slots : sub_slots[i] = s
  <2>1. \A i \in Slots : i >= 1
    BY SlotOrder
  <2>2. \A i \in Slots : AheadAt(p, i)'
    BY <1>1, <1>2, <2>1 DEF AheadAt
  <2> QED
    BY <1>1, <2>2 DEF Ahead, Inside
<1>4. ASSUME NEW q \in Pubs, q # p PROVE ~Ahead(q, s)
  <2>1. ~Delivering(q)
    BY <1>1, <1>4, Alone DEF Delivering
  <2> QED
    BY <2>1 DEF Ahead, AheadAt, Inside, Delivering
<1>5. ~Ahead(p, s)
  BY <1>1 DEF Ahead, AheadAt, Inside
<1> QED
  BY <1>3, <1>4, <1>5, AheadOther DEF SlotInv

\* Between the draw and the end, offering is all that takes a core from a
\* publisher's way.
LEMMA AheadMoves ==
  ASSUME TypeInv, SlotInv, FanInv, NEW p \in Pubs, Deliver(p), ~Accept(p), NEW s \in Subs
  PROVE  Ahead(p, s)' <=> Ahead(p, s) /\ ~(Offers(p) /\ s = target[p])
<1>0. sub_slots' = sub_slots /\ cursor[p] \in Slots /\ s # None
  BY Fixed, Fan0, TopicAssumption
<1>1. CASE PublishFrom(p) \/ Precheck(p) \/ ReadClock(p) \/ Count(p)
  <2>1. pub_pc[p] \in Outside /\ pub_pc'[p] \in Outside
    BY <1>1, Early
  <2> QED
    BY <2>1, NotAhead, NotAheadNext
<1>2. CASE StoreMaster(p)
  <2>1. /\ pub_pc[p] = "master" /\ pub_pc'[p] = "load" /\ cursor'[p] = cursor[p]
    BY <1>2, Fan0 DEF StoreMaster, PubGoto
  <2> QED
    BY <1>0, <2>1 DEF Ahead, AheadAt, Inside, Offers, StoreLatest, Push
<1>3. CASE LoadSlot(p)
  <2>1. pub_pc[p] = "load" /\ ~Offers(p)
    BY <1>3 DEF LoadSlot, Offers, StoreLatest, Push
  <2>2. Ahead(p, s) <=> \E i \in Slots : sub_slots[i] = s /\ i >= cursor[p]
    BY <2>1 DEF Ahead, AheadAt, Inside
  <2>3. CASE sub_slots[cursor[p]] = None
    <3>1. \/ pub_pc'[p] = "count" /\ cursor[p] = kMaxSubscribers
          \/ pub_pc'[p] = "load" /\ cursor'[p] = cursor[p] + 1
      BY <1>3, <2>3, LoadSlotIs, TopicAssumption
    <3>2. \A i \in Slots : sub_slots[i] = s /\ i >= cursor[p] => i >= cursor[p] + 1
      BY <1>0, <2>3, SlotOrder
    <3>3. CASE pub_pc'[p] = "count" /\ cursor[p] = kMaxSubscribers
      <4>1. ~Ahead(p, s)
        BY <1>0, <2>2, <3>2, <3>3, SlotOrder
      <4>2. ~Ahead(p, s)'
        BY <3>3 DEF Ahead, AheadAt, Inside
      <4> QED
        BY <4>1, <4>2
    <3>4. CASE pub_pc'[p] = "load" /\ cursor'[p] = cursor[p] + 1
      <4>1. Ahead(p, s)' <=> \E i \in Slots : sub_slots[i] = s /\ i >= cursor[p] + 1
        BY <1>0, <3>4 DEF Ahead, AheadAt, Inside
      <4>2. \A i \in Slots : i >= cursor[p] + 1 => i >= cursor[p]
        BY <1>0, SlotOrder
      <4>3. Ahead(p, s)' <=> Ahead(p, s)
        BY <2>2, <3>2, <4>1, <4>2
      <4> QED
        BY <2>1, <4>3
    <3> QED
      BY <3>1, <3>3, <3>4
  <2>4. CASE sub_slots[cursor[p]] # None
    <3>1. pub_pc'[p] \in Inside /\ target'[p] = sub_slots[cursor[p]] /\ cursor'[p] = cursor[p]
      BY <1>3, <2>4, LoadSlotIs DEF Inside
    <3>2. Ahead(p, s)' <=> \/ sub_slots[cursor[p]] = s
                           \/ \E i \in Slots : sub_slots[i] = s /\ i > cursor[p]
      BY <1>0, <3>1 DEF Ahead, AheadAt, Inside
    <3>3. \A i \in Slots : i >= cursor[p] <=> i = cursor[p] \/ i > cursor[p]
      BY <1>0, SlotOrder
    <3>4. Ahead(p, s)' <=> Ahead(p, s)
      BY <1>0, <2>2, <3>2, <3>3
    <3> QED
      BY <2>1, <3>4
  <2> QED
    BY <2>3, <2>4
<1>4. CASE StampBaseline(p)
  <2>1. /\ pub_pc[p] = "stamp" /\ pub_pc'[p] = "store" /\ cursor'[p] = cursor[p] /\ target'[p] = target[p]
    BY <1>4, Fan0 DEF StampBaseline, PubGoto
  <2> QED
    BY <1>0, <2>1 DEF Ahead, AheadAt, Inside, Offers, StoreLatest, Push
<1>5. CASE Offers(p)
  <2>1. /\ pub_pc[p] \in Inside /\ target[p] \in Subs
        /\ \/ pub_pc'[p] = "count" /\ cursor[p] = kMaxSubscribers /\ cursor'[p] = cursor[p]
           \/ pub_pc'[p] = "load" /\ cursor[p] # kMaxSubscribers /\ cursor'[p] = cursor[p] + 1
    BY <1>5, OffersIs, Advanced
  <2>2. \A i \in Slots : sub_slots[i] = target[p] => i = cursor[p]
    BY <2>1 DEF FanInv, FanAt
  <2>3. Ahead(p, s) <=> s = target[p] \/ \E i \in Slots : sub_slots[i] = s /\ i > cursor[p]
    BY <2>1 DEF Ahead, AheadAt, Inside
  <2>4. CASE pub_pc'[p] = "count" /\ cursor[p] = kMaxSubscribers
    <3>1. ~Ahead(p, s)'
      BY <2>4 DEF Ahead, AheadAt, Inside
    <3>2. ~ \E i \in Slots : sub_slots[i] = s /\ i > cursor[p]
      BY <2>4, SlotOrder
    <3> QED
      BY <1>5, <2>3, <3>1, <3>2
  <2>5. CASE pub_pc'[p] = "load" /\ cursor'[p] = cursor[p] + 1
    <3>1. Ahead(p, s)' <=> \E i \in Slots : sub_slots[i] = s /\ i >= cursor[p] + 1
      BY <1>0, <2>5 DEF Ahead, AheadAt, Inside
    <3>2. \A i \in Slots : i > cursor[p] <=> i >= cursor[p] + 1
      BY <1>0, SlotOrder
    <3>3. s = target[p] => ~ \E i \in Slots : sub_slots[i] = s /\ i > cursor[p]
      BY <1>0, <2>2, SlotOrder
    <3> QED
      BY <1>5, <2>3, <3>1, <3>2, <3>3
  <2> QED
    BY <2>1, <2>4, <2>5
<1> QED
  BY <1>1, <1>2, <1>3, <1>4, <1>5 DEF Deliver, Offers

-----------------------------------------------------------------------------
\* FanInv is inductive.

\* A subscriber that was never in a slot is nobody's target.
LEMMA NobodysTarget ==
  ASSUME TypeInv, FanInv, NEW s \in Subs, sub_pc[s] \notin {"attached", "detached"},
         NEW p \in Pubs, pub_pc[p] \in Inside
  PROVE  target[p] # s
BY DEF FanInv, FanAt

LEMMA FanDeliver ==
  ASSUME TypeInv, OwnershipInv, SlotInv, FanInv, NEW p \in Pubs, Deliver(p)
  PROVE  FanInv'
<1>0. /\ UNCHANGED <<sub_slots, sub_pc, sub_qos>>
      /\ \A s \in Subs : IsLatest(s)' <=> IsLatest(s)
  BY Fixed DEF IsLatest
<1>1. ASSUME NEW q \in Pubs, q # p PROVE FanAt(q)'
  <2>1. /\ pub_pc'[q] = pub_pc[q] /\ cursor'[q] = cursor[q]
        /\ target'[q] = target[q] /\ record'[q] = record[q]
    BY <1>1, Others
  <2>2. FanAt(q) /\ (pub_pc[q] \in Inside => target[q] \in Subs)
    BY Fan0 DEF FanInv, TypeInv, DeliverInv, Inside
  <2>3. pub_pc[q] \in {"load", "count"} \cup Inside => master' = master
    <3>1. CASE StoreMaster(p)
      BY <1>1, <3>1, Alone DEF StoreMaster, Delivering, Inside
    <3>2. CASE ~StoreMaster(p)
      BY <3>2 DEF Deliver, PublishFrom, Precheck, ReadClock, Accept, LoadSlot, StampBaseline,
         StoreLatest, Push, Count, writeVars
    <3> QED
      BY <3>1, <3>2
  <2> QED
    BY <1>0, <2>1, <2>2, <2>3 DEF FanAt, IsLatest
<1>2. FanAt(p)'
  <2>0. FanAt(p) /\ cursor[p] \in Slots
    BY Fan0 DEF FanInv
  <2>1. CASE PublishFrom(p)
    <3>1. pub_pc[p] = "idle" /\ pub_pc'[p] \in {"precheck", "clock"} /\ cursor'[p] = cursor[p]
      BY <2>1, Fan0 DEF PublishFrom, PubGoto
    <3> QED
      BY <2>0, <3>1 DEF FanAt, Walks, Inside
  <2>2. CASE Precheck(p)
    <3>1. \/ pub_pc'[p] \in {"idle", "clock"} /\ cursor'[p] = 1
          \/ pub_pc'[p] = "precheck"
      BY <2>2, Fan0 DEF Precheck, Return, PubGoto
    <3> QED
      BY <3>1 DEF FanAt, Walks, Inside
  <2>3. CASE ReadClock(p) \/ Accept(p)
    <3>1. /\ pub_pc[p] \in {"clock", "accept"} /\ pub_pc'[p] \in {"accept", "master"}
          /\ cursor'[p] = cursor[p]
      BY <2>3, Fan0 DEF ReadClock, Accept, PubGoto
    <3> QED
      BY <2>0, <3>1 DEF FanAt, Walks, Inside
  <2>4. CASE StoreMaster(p)
    <3>1. pub_pc'[p] = "load" /\ master' = record'[p]
      BY <2>4, Fan0 DEF StoreMaster, PubGoto
    <3> QED
      BY <3>1 DEF FanAt, Walks, Inside
  <2>5. CASE LoadSlot(p)
    <3>1. master' = record'[p]
      BY <2>0, <2>5 DEF LoadSlot, FanAt, writeVars
    <3>2. CASE pub_pc'[p] \in {"load", "count"}
      BY <3>1, <3>2 DEF FanAt, Walks, Inside
    <3>3. CASE pub_pc'[p] \notin {"load", "count"}
      <4> DEFINE s == sub_slots[cursor[p]]
      <4>1. /\ s \in Subs /\ target'[p] = s /\ cursor'[p] = cursor[p]
            /\ pub_pc'[p] = (IF IsLatest(s) THEN "stamp" ELSE "push")
        BY <2>5, <3>3, LoadSlotIs
      <4>2. /\ sub_pc[s] = "attached"
            /\ \A i \in Slots : sub_slots[i] = s => i = cursor[p]
        BY <2>0, <4>1, TopicAssumption DEF SlotInv
      <4> HIDE DEF s
      <4> QED
        BY <1>0, <3>1, <4>1, <4>2 DEF FanAt, Walks, Inside, IsLatest
    <3> QED
      BY <3>2, <3>3
  <2>6. CASE StampBaseline(p)
    <3>1. /\ pub_pc[p] = "stamp" /\ pub_pc'[p] = "store" /\ cursor'[p] = cursor[p]
          /\ target'[p] = target[p] /\ record' = record /\ master' = master
      BY <2>6, Fan0 DEF StampBaseline, PubGoto, writeVars
    <3>2. target[p] \in Subs
      BY <3>1, Fan0 DEF TypeInv, DeliverInv
    <3> QED
      BY <1>0, <2>0, <3>1, <3>2 DEF FanAt, Walks, Inside, IsLatest
  <2>7. CASE Offers(p)
    <3>1. pub_pc'[p] \in {"load", "count"} /\ master' = record'[p]
      BY <2>0, <2>7, OffersIs, Advanced DEF FanAt, writeVars
    <3> QED
      BY <3>1 DEF FanAt, Walks, Inside
  <2>8. CASE Count(p)
    <3>1. pub_pc'[p] = "idle" /\ cursor'[p] = 1
      BY <2>8, Fan0 DEF Count, Return, PubGoto
    <3> QED
      BY <3>1 DEF FanAt, Walks, Inside
  <2> QED
    BY <2>1, <2>2, <2>3, <2>4, <2>5, <2>6, <2>7, <2>8 DEF Deliver, Offers
<1>3. ASSUME NEW s \in Subs PROVE NewAt(s)'
  <2>1. CASE Offers(p)
    <3>1. sub_pc[s] \notin {"attached", "detached"} => s # target[p]
      BY <2>1, OffersIs, NobodysTarget
    <3> QED
      BY <1>0, <2>1, <3>1, OffersIs DEF NewAt, FanInv
  <2>2. CASE ~Offers(p)
    <3>1. UNCHANGED <<queue, offered>>
      BY <2>2 DEF Offers, Deliver, PublishFrom, Precheck, ReadClock, Accept, StoreMaster, LoadSlot,
         StampBaseline, Count, boxVars
    <3> QED
      BY <1>0, <3>1 DEF NewAt, FanInv
  <2> QED
    BY <2>1, <2>2
<1> QED
  BY <1>1, <1>2, <1>3 DEF FanInv

LEMMA FanWire ==
  ASSUME TypeInv, SlotInv, FanInv, NEW s \in Subs, Seed(s) \/ Attach(s) \/ RemoveSubscriber(s)
  PROVE  FanInv'
<1>0. /\ UNCHANGED <<pub_pc, cursor, target, record, master, sub_qos, queue, offered>>
      /\ \A t \in Subs : IsLatest(t)' <=> IsLatest(t)
  BY DEF Seed, Attach, RemoveSubscriber, writeVars, pubVars, boxVars, IsLatest
<1>1. \A t \in Subs : t # s => sub_pc'[t] = sub_pc[t]
  BY Fan0 DEF Seed, Attach, RemoveSubscriber, SubGoto
<1>2. \/ sub_pc[s] \notin {"attached", "detached"}
      \/ RemoveSubscriber(s) /\ sub_pc'[s] = "detached"
  BY Fan0 DEF Seed, Attach, RemoveSubscriber, SubGoto
<1>3. \A i \in Slots, t \in Subs : t # s /\ sub_slots'[i] = t => sub_slots[i] = t
  BY Fan0, TopicAssumption DEF Seed, Attach, RemoveSubscriber
<1>4. RemoveSubscriber(s) => \A i \in Slots : sub_slots'[i] # s
  BY TopicAssumption DEF RemoveSubscriber
<1>5. ASSUME NEW p \in Pubs PROVE FanAt(p)'
  <2>1. FanAt(p)
    BY DEF FanInv
  <2>2. CASE pub_pc[p] \notin Inside
    BY <1>0, <2>1, <2>2 DEF FanAt
  <2>3. CASE pub_pc[p] \in Inside
    <3>1. target[p] \in Subs
      BY <2>3, Fan0 DEF TypeInv, DeliverInv, Inside
    <3>2. CASE target[p] # s
      BY <1>0, <1>1, <1>3, <2>1, <2>3, <3>1, <3>2 DEF FanAt
    <3>3. CASE target[p] = s
      <4>1. sub_pc'[s] = "detached" /\ \A i \in Slots : sub_slots'[i] # s
        BY <1>2, <1>4, <2>3, <3>3, NobodysTarget
      <4> QED
        BY <1>0, <2>1, <2>3, <3>1, <3>3, <4>1 DEF FanAt
    <3> QED
      BY <3>2, <3>3
  <2> QED
    BY <2>2, <2>3
<1>6. ASSUME NEW t \in Subs PROVE NewAt(t)'
  BY <1>0, <1>1, <1>2 DEF NewAt, FanInv
<1> QED
  BY <1>5, <1>6 DEF FanInv

LEMMA FanTake ==
  ASSUME TypeInv, FanInv, NEW s \in Subs, Take(s)
  PROVE  FanInv'
<1>0. /\ UNCHANGED <<pub_pc, cursor, target, record, master, sub_qos, sub_slots, sub_pc, offered>>
      /\ \A t \in Subs : IsLatest(t)' <=> IsLatest(t)
  BY DEF Take, takeFrame, topicVars, writeVars, pubVars, subVars, IsLatest
<1>1. \A t \in Subs : queue[t] = <<>> => queue'[t] = <<>>
  BY DEF Take, LoadLatest, TakeLatest, TryTake, TypeInv, BoxTypes
<1>2. ASSUME NEW p \in Pubs PROVE FanAt(p)'
  BY <1>0 DEF FanInv, FanAt, IsLatest
<1> QED
  BY <1>0, <1>1, <1>2 DEF FanInv, NewAt

LEMMA FanNext ==
  ASSUME TypeInv, OwnershipInv, SlotInv, FanInv, [Next]_vars
  PROVE  FanInv'
<1>1. ASSUME NEW p \in Pubs, AddPublisher(p) \/ RemovePublisher(p) PROVE FanInv'
  <2>0. UNCHANGED <<cursor, target, record, master, sub_qos, sub_slots, sub_pc, queue, offered>>
    BY <1>1 DEF AddPublisher, RemovePublisher, writeVars, subVars, boxVars
  <2>1. \A q \in Pubs : /\ pub_pc'[q] \in Walks => pub_pc'[q] = pub_pc[q]
                        /\ pub_pc[q] \in Walks => pub_pc'[q] = pub_pc[q]
    BY <1>1, Fan0 DEF AddPublisher, RemovePublisher, PubGoto, Walks, Inside
  <2>2. ASSUME NEW q \in Pubs PROVE FanAt(q)'
    <3>1. FanAt(q) /\ \A x \in Subs : IsLatest(x)' <=> IsLatest(x)
      BY <2>0 DEF FanInv, IsLatest
    <3>2. CASE pub_pc'[q] \in Walks
      <4>1. pub_pc'[q] = pub_pc[q]
        BY <2>1, <3>2
      <4> QED
        BY <2>0, <3>1, <4>1 DEF FanAt
    <3>3. CASE pub_pc'[q] \notin Walks
      <4>1. pub_pc[q] \notin Walks
        BY <2>1, <3>3
      <4> QED
        BY <2>0, <3>1, <3>3, <4>1 DEF FanAt, Walks
    <3> QED
      BY <3>2, <3>3
  <2> QED
    BY <2>0, <2>2 DEF FanInv, NewAt
<1>2. CASE Tick \/ UNCHANGED vars
  <2>0. UNCHANGED <<pub_pc, cursor, target, record, master, sub_qos, sub_slots, sub_pc, queue, offered>>
    BY <1>2 DEF Tick, vars, topicVars, writeVars, pubVars, subVars, boxVars
  <2> QED
    BY <2>0 DEF FanInv, FanAt, NewAt, IsLatest
<1> QED
  BY <1>1, <1>2, FanDeliver, FanWire, FanTake DEF Next

LEMMA FanInit == Init => FanInv
<1> SUFFICES ASSUME Init PROVE FanInv
  OBVIOUS
<1>1. ASSUME NEW p \in Pubs PROVE FanAt(p)
  BY DEF Init, FanAt, Walks, Inside
<1>2. ASSUME NEW s \in Subs PROVE NewAt(s)
  BY DEF Init, NewAt
<1> QED
  BY <1>1, <1>2 DEF FanInv

TableInv == TypeInv /\ OwnershipInv /\ ConflatesInv /\ SlotInv /\ FanInv

LEMMA TableInvariant == Spec => []TableInv
<1>1. Init => FanInv
  BY FanInit
<1>2. TypeInv /\ OwnershipInv /\ SlotInv /\ FanInv /\ [Next]_vars => FanInv'
  BY FanNext
<1> QED
  BY <1>1, <1>2, TypeInvariant, OwnershipInvariant, ConflatesInvariant, SlotInvariant, PTL
     DEF Spec, TableInv
=============================================================================
