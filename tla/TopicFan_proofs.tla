-------------------------- MODULE TopicFan_proofs ---------------------------
(***************************************************************************)
(* What Deliver guarantees the cores it reaches, for every number of       *)
(* publishers, subscribers, slots and records and every ring depth: no loss, *)
(* room for reliable records, stamps in order, and the account of a ring.  *)
(***************************************************************************)
EXTENDS Topic_proofs

\* A core that was offered something was offered all since, up to the record of
\* the publisher that has yet to reach it.
LossAt(s) ==
  /\ offered[s] \subseteq 1..accepted_ordinal
  /\ \A a, b \in offered[s] : a..b \subseteq offered[s]
  /\ \A p \in Pubs : Ahead(p, s) =>
       /\ accepted_ordinal \notin offered[s]
       /\ offered[s] # {} => accepted_ordinal - 1 \in offered[s]
  /\ offered[s] # {} /\ sub_pc[s] = "attached" /\ (\A p \in Pubs : ~Ahead(p, s)) =>
       accepted_ordinal \in offered[s] /\ (IsLatest(s) => latest[s] = master)

LossInv == \A s \in Subs : LossAt(s)

\* A reliable publisher has seen room wherever it is still to push: in the slots
\* its pre-check has passed, then in those of the cores it has yet to reach.
Passed(p, i) == \/ pub_pc[p] = "precheck" /\ i < cursor[p]
                \/ pub_pc[p] \in {"clock", "accept"}
Cleared(p, s) == Ahead(p, s) \/ \E i \in Slots : sub_slots[i] = s /\ Passed(p, i)

RoomAt(p) == Reliable(p) => \A s \in Subs : Cleared(p, s) => ~Refuses(s)

RoomInv == \A p \in Pubs : RoomAt(p)

\* A publisher reads the clock before it draws its ordinal: no record is stamped
\* before the last one written.
ClockInv ==
  /\ master.stamp <= now
  /\ \A p \in Pubs : pub_pc[p] \in {"accept", "master"} =>
       master.stamp <= record[p].stamp /\ record[p].stamp <= now

\* A mailbox shows no later stamp than the last record, and a ring holds
\* offered records in the order of their ordinals.
RingAt(s) ==
  /\ latest[s].stamp <= master.stamp
  /\ \A i \in 1..Len(queue[s]) :
       queue[s][i].ordinal \in offered[s] /\ queue[s][i].stamp <= master.stamp
  /\ \A i, j \in 1..Len(queue[s]) :
       i < j => /\ queue[s][i].ordinal < queue[s][j].ordinal
                /\ queue[s][i].stamp <= queue[s][j].stamp

StampInv == ClockInv /\ \A s \in Subs : RingAt(s)

\* A ring holds what was offered and not taken yet.
QueueAt(s) ==
  ~IsLatest(s) =>
    /\ taken[s] \subseteq offered[s]
    /\ \A i \in 1..Len(queue[s]) : queue[s][i].ordinal \notin taken[s]
    /\ Cardinality(taken[s]) + Len(queue[s]) + drop_count[s] = Cardinality(offered[s])

QueueInv == \A s \in Subs : QueueAt(s)

-----------------------------------------------------------------------------
\* No record is lost on the way to an attached core.

LEMMA AheadKept ==
  ASSUME UNCHANGED <<pub_pc, cursor, target, sub_slots>>, NEW p \in Pubs, NEW s \in Subs
  PROVE  Ahead(p, s)' <=> Ahead(p, s)
BY DEF Ahead, AheadAt

LEMMA AheadPub ==
  ASSUME TypeInv, NEW q \in Pubs, AddPublisher(q) \/ RemovePublisher(q), NEW p \in Pubs, NEW s \in Subs
  PROVE  Ahead(p, s)' <=> Ahead(p, s)
<1>1. UNCHANGED <<cursor, target, sub_slots>>
  BY DEF AddPublisher, RemovePublisher
<1>2. pub_pc'[p] = pub_pc[p] \/ (pub_pc[p] \in Outside /\ pub_pc'[p] \in Outside)
  BY Fan0 DEF AddPublisher, RemovePublisher, PubGoto, Outside
<1>3. CASE pub_pc'[p] = pub_pc[p]
  BY <1>1, <1>3 DEF Ahead, AheadAt
<1>4. CASE pub_pc[p] \in Outside /\ pub_pc'[p] \in Outside
  BY <1>4, NotAhead, NotAheadNext
<1> QED
  BY <1>2, <1>3, <1>4

LEMMA AheadWire ==
  ASSUME TypeInv, NEW s \in Subs, Seed(s) \/ Attach(s) \/ RemoveSubscriber(s),
         NEW p \in Pubs, NEW t \in Subs
  PROVE  /\ t # s => (Ahead(p, t)' <=> Ahead(p, t))
         /\ RemoveSubscriber(s) => (Ahead(p, t)' => Ahead(p, t))
<1>0. UNCHANGED <<pub_pc, cursor, target>> /\ t # None
  BY TopicAssumption DEF Seed, Attach, RemoveSubscriber, pubVars
<1>1. ASSUME t # s PROVE \A i \in Slots : sub_slots'[i] = t <=> sub_slots[i] = t
  BY <1>1, <1>0, Fan0 DEF Seed, Attach, FirstNull, RemoveSubscriber
<1>2. ASSUME RemoveSubscriber(s) PROVE \A i \in Slots : sub_slots'[i] = t => sub_slots[i] = t
  BY <1>0, <1>2 DEF RemoveSubscriber
<1> QED
  BY <1>0, <1>1, <1>2 DEF Ahead, AheadAt

\* A step that draws and offers nothing to s.
LEMMA LossKept ==
  ASSUME NEW s \in Subs, LossAt(s), offered'[s] = offered[s], accepted_ordinal' = accepted_ordinal,
         \A p \in Pubs : Ahead(p, s)' => Ahead(p, s),
         sub_pc'[s] = "attached" =>
           /\ sub_pc[s] = "attached" /\ (IsLatest(s)' <=> IsLatest(s))
           /\ latest'[s] = latest[s] /\ master' = master
           /\ \A p \in Pubs : Ahead(p, s) => Ahead(p, s)'
  PROVE  LossAt(s)'
BY DEF LossAt

LEMMA LossAccept ==
  ASSUME TableInv, NEW p \in Pubs, Accept(p), Deliver(p), NEW s \in Subs, LossAt(s)
  PROVE  LossAt(s)'
<1> DEFINE a == accepted_ordinal
           O == offered[s]
<1>0. a \in Nat /\ accepted_ordinal' = a + 1 /\ offered' = offered /\ sub_pc' = sub_pc
  BY TopicAssumption, Fixed DEF TableInv, TypeInv, TopicTypes, Accept, boxVars
<1>1. /\ \A q \in Pubs : ~Ahead(q, s)
      /\ \A q \in Pubs : Ahead(q, s)' => q = p /\ sub_pc[s] = "attached"
      /\ sub_pc[s] = "attached" => Ahead(p, s)'
  BY AheadAccept DEF TableInv
<1>2. O \subseteq 1..(a + 1) /\ a + 1 \notin O
  BY <1>0 DEF LossAt
<1>3. O # {} /\ sub_pc[s] = "attached" => a \in O
  BY <1>1 DEF LossAt
<1>4. \A b, c \in O : b..c \subseteq O
  BY DEF LossAt
<1> HIDE DEF a, O
<1> QED
  BY <1>0, <1>1, <1>2, <1>3, <1>4 DEF LossAt, a, O

LEMMA LossOffer ==
  ASSUME TableInv, NEW p \in Pubs, Offers(p), Deliver(p), NEW s \in Subs, s = target[p], LossAt(s)
  PROVE  LossAt(s)'
<1> DEFINE a == accepted_ordinal
           O == offered[s]
<1>0. /\ a \in Nat /\ accepted_ordinal' = a /\ master' = master
      /\ pub_pc[p] \in Inside
  BY TopicAssumption, OffersIs DEF TableInv, TypeInv, TopicTypes, writeVars
<1>1. record[p].ordinal = a /\ record[p] = master /\ a # 0
  BY <1>0 DEF TableInv, ConflatesInv, WriterInv, FanInv, FanAt, HasOrdinal, Inside, TypeInv, DeliverInv
<1>2. offered'[s] = O \cup {a}
  BY <1>1, OffersIs DEF TableInv
<1>3. Ahead(p, s)
  BY <1>0 DEF Ahead
<1>4. ASSUME NEW q \in Pubs PROVE ~Ahead(q, s)'
  <2>1. CASE q = p
    <3>1. ~Accept(p)
      BY <1>0 DEF Accept, Inside
    <3> QED
      BY <2>1, <3>1, AheadMoves DEF TableInv
  <2>2. CASE q # p
    <3>1. ~Delivering(q)
      BY <1>0, <2>2, Alone DEF TableInv, Delivering, Inside
    <3>2. ~Ahead(q, s)
      BY <3>1 DEF Ahead, AheadAt, Inside, Delivering
    <3> QED
      BY <2>2, <3>2, AheadOther DEF TableInv
  <2> QED
    BY <2>1, <2>2
<1>5. /\ O \subseteq 1..a /\ a \notin O /\ (O # {} => a - 1 \in O)
      /\ \A b, c \in O : b..c \subseteq O
  BY <1>3 DEF LossAt
<1>6. IsLatest(s)' => latest'[s] = master'
  <2>1. IsLatest(s)' => IsLatest(s)
    BY Fixed DEF IsLatest
  <2>2. IsLatest(s) => StoreLatest(p)
    BY <1>0 DEF TableInv, FanInv, FanAt, Offers, Push
  <2>3. StoreLatest(p) => latest'[s] = record[p]
    BY DEF StoreLatest, TableInv, TypeInv, BoxTypes
  <2> QED
    BY <1>0, <1>1, <2>1, <2>2, <2>3
<1>7. O \cup {a} \subseteq 1..a
  BY <1>0, <1>1, <1>5
<1>8. ASSUME NEW b \in O \cup {a}, NEW c \in O \cup {a} PROVE b..c \subseteq O \cup {a}
  <2>1. b \in 1..a /\ c \in 1..a
    BY <1>7
  <2>2. CASE c \in O
    <3>1. CASE b \in O
      BY <1>5, <2>2, <3>1
    <3>2. CASE b = a
      <4>1. c < a
        BY <1>0, <1>5, <2>1, <2>2
      <4>2. b..c = {}
        BY <1>0, <2>1, <3>2, <4>1
      <4> QED
        BY <4>2
    <3> QED
      BY <3>1, <3>2
  <2>3. CASE c = a
    <3>1. CASE b = a
      BY <1>0, <2>3, <3>1
    <3>2. CASE b \in O
      <4>1. b..(a - 1) \subseteq O
        BY <1>5, <3>2
      <4>2. b..a \subseteq (b..(a - 1)) \cup {a}
        BY <1>0, <2>1
      <4> QED
        BY <2>3, <4>1, <4>2
    <3> QED
      BY <3>1, <3>2
  <2> QED
    BY <2>2, <2>3
<1> HIDE DEF a, O
<1> QED
  BY <1>0, <1>2, <1>4, <1>6, <1>7, <1>8 DEF LossAt, a

LEMMA LossDeliver ==
  ASSUME TableInv, NEW p \in Pubs, Deliver(p), NEW s \in Subs, LossAt(s)
  PROVE  LossAt(s)'
<1>1. CASE Accept(p)
  BY <1>1, LossAccept
<1>2. CASE Offers(p) /\ s = target[p]
  BY <1>2, LossOffer
<1>3. CASE ~Accept(p) /\ ~(Offers(p) /\ s = target[p])
  <2>1. \A q \in Pubs : Ahead(q, s)' <=> Ahead(q, s)
    BY <1>3, AheadMoves, AheadOther DEF TableInv
  <2>2. accepted_ordinal' = accepted_ordinal
    BY <1>3 DEF Deliver, PublishFrom, Precheck, ReadClock, StoreMaster, LoadSlot, StampBaseline,
       StoreLatest, Push, Count, writeVars
  <2>3. offered'[s] = offered[s] /\ latest'[s] = latest[s]
    <3>1. CASE Offers(p)
      BY <1>3, <3>1, OffersIs DEF TableInv
    <3>2. CASE ~Offers(p)
      BY <1>3, <3>2 DEF Offers, Deliver, PublishFrom, Precheck, ReadClock, StoreMaster, LoadSlot,
         StampBaseline, Count, boxVars
    <3> QED
      BY <3>1, <3>2
  <2>4. sub_pc'[s] = sub_pc[s] /\ (IsLatest(s)' <=> IsLatest(s))
    BY Fixed DEF IsLatest
  <2>5. CASE StoreMaster(p)
    <3>1. pub_pc[p] = "master" /\ cursor[p] = 1
      BY <2>5 DEF StoreMaster, TableInv, FanInv, FanAt, Walks, Inside
    <3>2. sub_pc[s] = "attached" => Ahead(p, s)
      BY <3>1 DEF TableInv, SlotInv, Ahead, AheadAt, Slots
    <3> QED
      BY <2>1, <2>2, <2>3, <2>4, <3>2 DEF LossAt
  <2>6. CASE ~StoreMaster(p)
    <3>1. master' = master
      BY <1>3, <2>6 DEF Deliver, PublishFrom, Precheck, ReadClock, LoadSlot, StampBaseline,
         StoreLatest, Push, Count, writeVars
    <3> QED
      BY <2>1, <2>2, <2>3, <2>4, <3>1, LossKept
  <2> QED
    BY <2>5, <2>6
<1> QED
  BY <1>1, <1>2, <1>3

LEMMA LossWire ==
  ASSUME TableInv, NEW t \in Subs, Seed(t) \/ Attach(t) \/ RemoveSubscriber(t), NEW s \in Subs, LossAt(s)
  PROVE  LossAt(s)'
<1>0. UNCHANGED <<offered, accepted_ordinal, master>> /\ (IsLatest(s)' <=> IsLatest(s))
  BY DEF Seed, Attach, RemoveSubscriber, writeVars, boxVars, IsLatest
<1>1. CASE s # t
  <2>1. sub_pc'[s] = sub_pc[s] /\ latest'[s] = latest[s]
    BY <1>1, Fan0 DEF Seed, Attach, RemoveSubscriber, SubGoto, boxVars, TableInv, TypeInv, BoxTypes
  <2>2. \A p \in Pubs : Ahead(p, s)' <=> Ahead(p, s)
    BY <1>1, AheadWire DEF TableInv
  <2> QED
    BY <1>0, <2>1, <2>2, LossKept
<1>2. CASE s = t /\ RemoveSubscriber(t)
  <2>1. sub_pc'[s] = "detached"
    BY <1>2, Fan0 DEF RemoveSubscriber, SubGoto, TableInv
  <2>2. \A p \in Pubs : Ahead(p, s)' => Ahead(p, s)
    BY <1>2, AheadWire DEF TableInv
  <2> QED
    BY <1>0, <2>1, <2>2, LossKept
<1>3. CASE s = t /\ (Seed(t) \/ Attach(t))
  <2>1. offered'[s] = {}
    BY <1>0, <1>3 DEF Seed, Attach, TableInv, FanInv, NewAt
  <2> QED
    BY <2>1 DEF LossAt
<1> QED
  BY <1>1, <1>2, <1>3

LEMMA LossNext == TableInv /\ LossInv /\ [Next]_vars => LossInv'
<1> SUFFICES ASSUME TableInv, LossInv, [Next]_vars, NEW s \in Subs PROVE LossAt(s)'
  BY DEF LossInv
<1>0. LossAt(s)
  BY DEF LossInv
<1>1. ASSUME UNCHANGED <<offered, accepted_ordinal, master, latest, sub_pc, sub_qos>>,
             \A p \in Pubs : Ahead(p, s)' <=> Ahead(p, s)
      PROVE  LossAt(s)'
  BY <1>0, <1>1, LossKept DEF IsLatest
<1>2. ASSUME NEW p \in Pubs, AddPublisher(p) \/ RemovePublisher(p) PROVE LossAt(s)'
  <2>1. \A q \in Pubs : Ahead(q, s)' <=> Ahead(q, s)
    BY <1>2, AheadPub DEF TableInv
  <2> QED
    BY <1>1, <1>2, <2>1 DEF AddPublisher, RemovePublisher, writeVars, boxVars, subVars
<1>3. ASSUME NEW t \in Subs, Take(t) PROVE LossAt(s)'
  <2>1. UNCHANGED <<pub_pc, cursor, target, sub_slots>>
    BY <1>3 DEF Take, takeFrame, topicVars, pubVars
  <2> QED
    BY <1>1, <1>3, <2>1, AheadKept DEF Take, takeFrame, writeVars, subVars
<1>4. CASE Tick \/ UNCHANGED vars
  <2>1. UNCHANGED <<pub_pc, cursor, target, sub_slots>>
    BY <1>4 DEF Tick, vars, topicVars, pubVars
  <2> QED
    BY <1>1, <1>4, <2>1, AheadKept DEF Tick, vars, writeVars, subVars, boxVars
<1> QED
  BY <1>0, <1>2, <1>3, <1>4, LossDeliver, LossWire DEF Next

LEMMA LossInvariant == Spec => [](TableInv /\ LossInv)
<1>1. Init => LossInv
  <2> SUFFICES ASSUME Init, NEW s \in Subs PROVE LossAt(s)
    BY DEF LossInv
  <2>1. offered[s] = {}
    BY DEF Init
  <2> QED
    BY <2>1 DEF LossAt
<1> QED
  BY <1>1, LossNext, TableInvariant, PTL DEF Spec

\* M1-A1 for any number of cores, slots and records: although subscribers join
\* and leave while the table is walked, an attached core is offered every record
\* from its first on, and holds the last one once no publisher is delivering.
THEOREM NoSilentLossAlways == Spec => []NoSilentLoss
<1>1. LossInv => NoSilentLoss
  <2> SUFFICES ASSUME LossInv, NEW s \in Subs
               PROVE  /\ \A a, b \in offered[s] : a..b \subseteq offered[s]
                      /\ /\ offered[s] # {} /\ sub_pc[s] = "attached"
                         /\ \A p \in Pubs : ~HasOrdinal(p)
                         => /\ accepted_ordinal \in offered[s]
                            /\ IsLatest(s) => latest[s] = master
    BY DEF NoSilentLoss
  <2>1. LossAt(s)
    BY DEF LossInv
  <2>2. (\A p \in Pubs : ~HasOrdinal(p)) => \A p \in Pubs : ~Ahead(p, s)
    BY DEF HasOrdinal, Ahead, AheadAt, Inside
  <2> QED
    BY <2>1, <2>2 DEF LossAt
<1> QED
  BY <1>1, LossInvariant, PTL

-----------------------------------------------------------------------------
\* A reliable publish finds the room its pre-check saw.

\* The arithmetic of the steps below, apart from the state it is about.
LEMMA NatOrder ==
  \A x, y, z \in Nat :
    /\ x <= x /\ x <= x + 1 /\ x + 1 \in Nat
    /\ x <= y /\ y <= z => x <= z
    /\ x >= y /\ x <= z => z >= y
OBVIOUS

LEMMA Tally ==
  \A t, n, d, o \in Nat :
    /\ t + n + d = o => t + n + (d + 1) = o + 1 /\ t + (n + 1) + d = o + 1
    /\ t + (n + 1) + d = o => (t + 1) + n + d = o
OBVIOUS

LEMMA QueueFacts ==
  ASSUME TypeInv
  PROVE  /\ queue \in [Subs -> Seq(Record)] /\ Depth \in Nat \ {0}
         /\ \A s \in Subs : Len(queue[s]) \in Nat
BY TopicAssumption DEF TypeInv, BoxTypes

LEMMA RefusesKept ==
  ASSUME NEW s \in Subs, queue'[s] = queue[s], sub_qos' = sub_qos
  PROVE  Refuses(s)' <=> Refuses(s)
BY DEF Refuses, IsLatest, Full

LEMMA RoomOthers ==
  ASSUME TableInv, NEW p \in Pubs, Deliver(p), NEW q \in Pubs, q # p, RoomAt(q)
  PROVE  RoomAt(q)'
<1>0. /\ pub_pc'[q] = pub_pc[q] /\ cursor'[q] = cursor[q]
      /\ UNCHANGED <<sub_slots, sub_qos, pub_qos>>
      /\ \A s \in Subs : Ahead(q, s)' <=> Ahead(q, s)
  BY Others, Fixed, AheadOther DEF TableInv
<1>1. \A s \in Subs : Cleared(q, s)' <=> Cleared(q, s)
  BY <1>0 DEF Cleared, Passed
<1>2. CASE Delivering(p)
  <2>1. ~Delivering(q)
    BY <1>2, Alone DEF TableInv
  <2>2. \A s \in Subs : ~Cleared(q, s)
    BY <2>1 DEF Cleared, Passed, Ahead, AheadAt, Inside, Delivering
  <2> QED
    BY <1>1, <2>2 DEF RoomAt
<1>3. CASE ~Delivering(p)
  <2>1. PublishFrom(p)
    BY <1>3 DEF Deliver, Delivering, Precheck, ReadClock, Accept, StoreMaster, LoadSlot,
       StampBaseline, StoreLatest, Push, Count
  <2>2. queue' = queue
    BY <2>1 DEF PublishFrom, boxVars
  <2>3. \A s \in Subs : Refuses(s)' <=> Refuses(s)
    BY <1>0, <2>2, RefusesKept
  <2> QED
    BY <1>0, <1>1, <2>3 DEF RoomAt, Reliable
<1> QED
  BY <1>2, <1>3

\* What a publisher has cleared it has seen with room.
LEMMA ClearedFirst ==
  ASSUME TableInv, NEW p \in Pubs, Deliver(p), NEW s \in Subs, Cleared(p, s)',
         PublishFrom(p) \/ Precheck(p) \/ ReadClock(p) \/ Accept(p), Reliable(p)
  PROVE  Cleared(p, s) \/ ~Refuses(s)
<1>0. /\ sub_slots' = sub_slots /\ cursor[p] \in Slots /\ cursor \in [Pubs -> Slots]
      /\ pub_pc \in [Pubs -> PubStates]
  BY Fixed, Fan0 DEF TableInv
<1>1. CASE PublishFrom(p)
  <2>1. pub_pc[p] = "idle" /\ pub_pc'[p] = "precheck" /\ cursor'[p] = cursor[p]
    BY <1>0, <1>1 DEF PublishFrom, PubGoto
  <2>2. cursor'[p] = 1
    BY <2>1 DEF TableInv, FanInv, FanAt, Walks, Inside
  <2>3. ~Cleared(p, s)'
    BY <2>1, <2>2 DEF Cleared, Passed, Ahead, AheadAt, Inside, Slots
  <2> QED
    BY <2>3
<1>2. CASE Precheck(p)
  <2>1. pub_pc[p] = "precheck"
    BY <1>2 DEF Precheck
  <2>2. \/ pub_pc'[p] = "idle"
        \/ /\ ~Refuses(sub_slots[cursor[p]])
           /\ \/ pub_pc'[p] = "clock" /\ cursor[p] = kMaxSubscribers
              \/ pub_pc'[p] = "precheck" /\ cursor'[p] = cursor[p] + 1
    BY <1>0, <1>2 DEF Precheck, Return, PubGoto
  <2>3. ~Ahead(p, s)'
    BY <2>2, NotAheadNext DEF Outside
  <2>4. PICK i \in Slots : sub_slots[i] = s /\ Passed(p, i)'
    BY <1>0, <2>3 DEF Cleared
  <2>5. ~Refuses(sub_slots[cursor[p]]) /\ (i < cursor[p] \/ i = cursor[p])
    BY <1>0, <2>2, <2>4, TopicAssumption DEF Passed, Slots
  <2>6. CASE i < cursor[p]
    BY <2>1, <2>4, <2>6 DEF Cleared, Passed
  <2>7. CASE i = cursor[p]
    BY <2>4, <2>5, <2>7
  <2> QED
    BY <2>5, <2>6, <2>7
<1>3. CASE ReadClock(p)
  <2>1. pub_pc[p] = "clock" /\ pub_pc'[p] = "accept"
    BY <1>0, <1>3 DEF ReadClock, PubGoto
  <2> QED
    BY <1>0, <2>1 DEF Cleared, Passed, Ahead, AheadAt, Inside
<1>4. CASE Accept(p)
  <2>1. pub_pc[p] = "accept" /\ pub_pc'[p] = "master"
    BY <1>0, <1>4 DEF Accept, PubGoto
  <2>2. Ahead(p, s)'
    BY <2>1 DEF Cleared, Passed
  <2>3. sub_pc[s] = "attached"
    BY <1>4, <2>2, AheadAccept DEF TableInv
  <2> QED
    BY <2>1, <2>3 DEF TableInv, SlotInv, Cleared, Passed
<1> QED
  BY <1>1, <1>2, <1>3, <1>4

LEMMA ClearedThen ==
  ASSUME TableInv, NEW p \in Pubs, Deliver(p), NEW s \in Subs, Cleared(p, s)',
         StoreMaster(p) \/ LoadSlot(p) \/ StampBaseline(p) \/ Offers(p) \/ Count(p)
  PROVE  Cleared(p, s) /\ ~(Offers(p) /\ s = target[p])
<1>0. pub_pc \in [Pubs -> PubStates]
  BY Fan0 DEF TableInv
<1>1. pub_pc'[p] \notin {"precheck", "clock", "accept"} /\ ~Accept(p)
  <2>1. CASE StoreMaster(p) \/ StampBaseline(p) \/ Count(p)
    BY <1>0, <2>1 DEF StoreMaster, StampBaseline, Count, Return, PubGoto, Accept
  <2>2. CASE LoadSlot(p)
    BY <2>2, LoadSlotIs DEF TableInv, Accept
  <2>3. CASE Offers(p)
    BY <2>3, OffersIs, Advanced DEF TableInv, Accept, Inside
  <2> QED
    BY <2>1, <2>2, <2>3
<1>2. Ahead(p, s)'
  BY <1>1 DEF Cleared, Passed
<1> QED
  BY <1>1, <1>2, AheadMoves DEF TableInv, Cleared

LEMMA RoomSelf ==
  ASSUME TableInv, NEW p \in Pubs, Deliver(p), RoomAt(p)
  PROVE  RoomAt(p)'
<1> SUFFICES ASSUME Reliable(p)', NEW s \in Subs, Cleared(p, s)' PROVE ~Refuses(s)'
  BY DEF RoomAt
<1>0. Reliable(p) /\ UNCHANGED sub_qos /\ (Cleared(p, s) => ~Refuses(s))
  BY Fixed DEF Reliable, RoomAt
<1>1. CASE PublishFrom(p) \/ Precheck(p) \/ ReadClock(p) \/ Accept(p)
  <2>1. queue' = queue
    BY <1>1 DEF PublishFrom, Precheck, ReadClock, Accept, boxVars
  <2>2. ~Refuses(s)
    BY <1>0, <1>1, ClearedFirst
  <2> QED
    BY <1>0, <2>1, <2>2, RefusesKept
<1>2. CASE StoreMaster(p) \/ LoadSlot(p) \/ StampBaseline(p) \/ Offers(p) \/ Count(p)
  <2>1. Cleared(p, s) /\ ~(Offers(p) /\ s = target[p])
    BY <1>2, ClearedThen
  <2>2. queue'[s] = queue[s]
    <3>1. CASE Offers(p)
      BY <2>1, <3>1, OffersIs DEF TableInv
    <3>2. CASE ~Offers(p)
      BY <1>2, <3>2 DEF StoreMaster, LoadSlot, StampBaseline, Count, boxVars
    <3> QED
      BY <3>1, <3>2
  <2> QED
    BY <1>0, <2>1, <2>2, RefusesKept
<1> QED
  BY <1>1, <1>2 DEF Deliver, Offers

\* Rings only get shorter when they are read, and a core joins with an empty one.
LEMMA RoomWire ==
  ASSUME TableInv, NEW t \in Subs, Seed(t) \/ Attach(t) \/ RemoveSubscriber(t),
         NEW p \in Pubs, RoomAt(p)
  PROVE  RoomAt(p)'
<1> SUFFICES ASSUME Reliable(p)', NEW s \in Subs, Cleared(p, s)' PROVE ~Refuses(s)'
  BY DEF RoomAt
<1>0. UNCHANGED <<pub_qos, cursor, pub_pc, queue, sub_qos>>
  BY DEF Seed, Attach, RemoveSubscriber, pubVars, boxVars
<1>1. Reliable(p) /\ (Refuses(s)' <=> Refuses(s)) /\ (Cleared(p, s) => ~Refuses(s))
  BY <1>0, RefusesKept DEF RoomAt, Reliable
<1>2. CASE s = t /\ ~RemoveSubscriber(t)
  <2>1. queue[s] = <<>>
    BY <1>2 DEF Seed, Attach, TableInv, FanInv, NewAt
  <2>2. ~Refuses(s)
    BY <2>1, TopicAssumption DEF Refuses, Full
  <2> QED
    BY <1>1, <2>2
<1>3. CASE ~(s = t /\ ~RemoveSubscriber(t))
  <2>1. Ahead(p, s)' => Ahead(p, s)
    BY <1>3, AheadWire DEF TableInv
  <2>2. \A i \in Slots : sub_slots'[i] = s => sub_slots[i] = s
    BY <1>3, Fan0, TopicAssumption DEF Seed, Attach, RemoveSubscriber, TableInv
  <2>3. Cleared(p, s)
    BY <1>0, <2>1, <2>2 DEF Cleared, Passed
  <2> QED
    BY <1>1, <2>3
<1> QED
  BY <1>2, <1>3

LEMMA ShorterAfterTake ==
  ASSUME TypeInv, NEW t \in Subs, Take(t), NEW s \in Subs
  PROVE  Len(queue'[s]) \in Nat /\ Len(queue'[s]) <= Len(queue[s])
<1>0. queue \in [Subs -> Seq(Record)] /\ Len(queue[s]) \in Nat
  BY QueueFacts
<1>1. CASE s = t /\ TryTake(t)
  <2>1. queue'[s] = Tail(queue[s]) /\ queue[s] # <<>> /\ queue[s] \in Seq(Record)
    BY <1>0, <1>1 DEF TryTake
  <2> QED
    BY <2>1
<1>2. CASE ~(s = t /\ TryTake(t))
  <2>1. queue'[s] = queue[s]
    BY <1>0, <1>2 DEF Take, LoadLatest, TakeLatest, TryTake
  <2> QED
    BY <1>0, <2>1
<1> QED
  BY <1>1, <1>2

LEMMA RoomTake ==
  ASSUME TableInv, NEW t \in Subs, Take(t), NEW p \in Pubs, RoomAt(p)
  PROVE  RoomAt(p)'
<1> SUFFICES ASSUME Reliable(p)', NEW s \in Subs, Cleared(p, s)', Refuses(s)' PROVE FALSE
  BY DEF RoomAt
<1>0. UNCHANGED <<pub_qos, cursor, target, pub_pc, sub_qos, sub_slots>>
  BY DEF Take, takeFrame, topicVars, pubVars, subVars
<1>1. Cleared(p, s) /\ Reliable(p)
  BY <1>0, AheadKept DEF Cleared, Passed, Reliable
<1>2. Refuses(s)
  <2>1. /\ s # None /\ ~IsLatest(s) /\ Len(queue'[s]) >= Depth
    BY <1>0 DEF Refuses, IsLatest, Full
  <2>2. /\ Len(queue'[s]) \in Nat /\ Len(queue'[s]) <= Len(queue[s]) /\ Len(queue[s]) \in Nat
        /\ Depth \in Nat
    BY ShorterAfterTake, QueueFacts DEF TableInv
  <2> QED
    BY <2>1, <2>2, NatOrder DEF Refuses, Full
<1> QED
  BY <1>1, <1>2 DEF RoomAt

LEMMA RoomNext == TableInv /\ RoomInv /\ [Next]_vars => RoomInv'
<1> SUFFICES ASSUME TableInv, RoomInv, [Next]_vars, NEW p \in Pubs PROVE RoomAt(p)'
  BY DEF RoomInv
<1>0. RoomAt(p)
  BY DEF RoomInv
<1>1. ASSUME NEW q \in Pubs, AddPublisher(q) \/ RemovePublisher(q) PROVE RoomAt(p)'
  <2>1. UNCHANGED <<pub_qos, cursor, sub_slots, queue, sub_qos>>
    BY <1>1 DEF AddPublisher, RemovePublisher, subVars, boxVars
  <2>2. pub_pc'[p] = pub_pc[p] \/ pub_pc'[p] \in {"idle", "refused", "closed"}
    BY <1>1, Fan0 DEF AddPublisher, RemovePublisher, PubGoto, TableInv
  <2>3. \A s \in Subs : Ahead(p, s)' <=> Ahead(p, s)
    BY <1>1, AheadPub DEF TableInv
  <2>4. \A s \in Subs : (Cleared(p, s)' => Cleared(p, s)) /\ (Refuses(s)' <=> Refuses(s))
    BY <2>1, <2>2, <2>3, RefusesKept DEF Cleared, Passed
  <2> QED
    BY <1>0, <2>1, <2>4 DEF RoomAt, Reliable
<1>2. CASE Tick \/ UNCHANGED vars
  <2>1. UNCHANGED <<pub_qos, pub_pc, cursor, target, sub_slots, queue, sub_qos>>
    BY <1>2 DEF Tick, vars, topicVars, pubVars, subVars, boxVars
  <2>2. \A s \in Subs : (Cleared(p, s)' => Cleared(p, s)) /\ (Refuses(s)' <=> Refuses(s))
    BY <2>1, AheadKept, RefusesKept DEF Cleared, Passed
  <2> QED
    BY <1>0, <2>1, <2>2 DEF RoomAt, Reliable
<1>3. ASSUME NEW q \in Pubs, Deliver(q) PROVE RoomAt(p)'
  BY <1>0, <1>3, RoomOthers, RoomSelf
<1> QED
  BY <1>0, <1>1, <1>2, <1>3, RoomWire, RoomTake DEF Next

\* The reliable pre-check is sufficient for any number of cores and any depth:
\* the rings it found with room still have it when the fan-out reaches them.
THEOREM ReliableRoomAlways == Spec => []ReliableRoom
<1>1. Init => RoomInv
  BY DEF Init, RoomInv, RoomAt, Cleared, Passed, Ahead, AheadAt, Inside
<1>2. TableInv /\ RoomInv => ReliableRoom
  <2> SUFFICES ASSUME TableInv, RoomInv, NEW p \in Pubs, pub_pc[p] = "push", Reliable(p)
               PROVE  ~Full(target[p])
    BY DEF ReliableRoom
  <2>1. target[p] \in Subs /\ ~IsLatest(target[p])
    BY Fan0 DEF TableInv, TypeInv, DeliverInv, FanInv, FanAt, Inside
  <2>2. ~Refuses(target[p])
    BY <2>1 DEF RoomInv, RoomAt, Cleared, Ahead, Inside
  <2> QED
    BY <2>1, <2>2, TopicAssumption DEF Refuses
<1> QED
  BY <1>1, <1>2, RoomNext, TableInvariant, PTL DEF Spec

-----------------------------------------------------------------------------
\* Stamps, rings and what they count.

LEMMA Element == ASSUME NEW q \in Seq(Record), NEW i \in 1..Len(q) PROVE q[i] \in Record
OBVIOUS

LEMMA Append1 ==
  ASSUME NEW q \in Seq(Record), NEW r \in Record
  PROVE  /\ Len(Append(q, r)) = Len(q) + 1 /\ Append(q, r)[Len(q) + 1] = r
         /\ \A i \in 1..Len(q) : Append(q, r)[i] = q[i]
OBVIOUS

LEMMA Tail1 ==
  ASSUME NEW q \in Seq(Record), q # <<>>
  PROVE  /\ Len(Tail(q)) = Len(q) - 1 /\ Len(q) \in Nat /\ Len(q) > 0 /\ Head(q) = q[1]
         /\ 1 \in 1..Len(q) /\ \A i \in 1..(Len(q) - 1) : Tail(q)[i] = q[i + 1]
OBVIOUS

LEMMA Tail2 ==
  ASSUME NEW q \in Seq(Record), q # <<>>
  PROVE  \E n \in Nat : /\ Len(q) = n + 1 /\ Len(Tail(q)) = n
                        /\ \A i \in 1..n : i + 1 \in 1..Len(q) /\ Tail(q)[i] = q[i + 1]
<1>1. Len(q) - 1 \in Nat /\ Len(q) = (Len(q) - 1) + 1
  BY Tail1
<1>2. \A i \in 1..(Len(q) - 1) : i + 1 \in 1..Len(q)
  BY <1>1
<1> QED
  BY <1>1, <1>2, Tail1

LEMMA Stamps ==
  ASSUME TypeInv
  PROVE  /\ now \in Nat /\ master \in Record /\ master.stamp \in Nat /\ master.ordinal \in Nat
         /\ accepted_ordinal \in Nat
         /\ \A p \in Pubs : record[p] \in Record /\ record[p].stamp \in Nat /\ record[p].ordinal \in Nat
         /\ \A s \in Subs :
              /\ latest[s].stamp \in Nat /\ loaded[s].stamp \in Nat
              /\ latest[s].ordinal \in Nat /\ loaded[s].ordinal \in Nat
<1>1. /\ now \in Nat /\ master \in Record /\ accepted_ordinal \in 0..MaxAccepted
      /\ record \in [Pubs -> Record] /\ latest \in [Subs -> Record] /\ loaded \in [Subs -> Record]
  BY DEF TypeInv, TopicTypes, PubTypes, BoxTypes, TakeTypes
<1>2. \A r \in Record : r.stamp \in Nat /\ r.ordinal \in Nat
  BY TopicAssumption DEF Record
<1> QED
  BY <1>1, <1>2, TopicAssumption

LEMMA MasterMoves ==
  ASSUME NEW p \in Pubs, Deliver(p), ~StoreMaster(p)
  PROVE  master' = master
BY DEF Deliver, PublishFrom, Precheck, ReadClock, Accept, LoadSlot, StampBaseline, StoreLatest, Push,
   Count, writeVars

LEMMA ClockDeliver ==
  ASSUME TableInv, ClockInv, NEW p \in Pubs, Deliver(p)
  PROVE  ClockInv' /\ master.stamp <= master'.stamp
<1> USE DEF TableInv
<1>0. /\ now' = now /\ record \in [Pubs -> Record] /\ pub_pc \in [Pubs -> PubStates]
      /\ Delivering(p) => \A q \in Pubs : q # p => ~Delivering(q)
  BY Fixed, Fan0, Alone
<1>1. CASE StoreMaster(p)
  <2>1. /\ pub_pc[p] = "master" /\ pub_pc'[p] = "load" /\ master' = record[p]
    BY <1>0, <1>1 DEF StoreMaster, PubGoto
  <2>2. \A q \in Pubs : pub_pc'[q] \notin {"accept", "master"}
    BY <1>0, <2>1, Others DEF Delivering
  <2> QED
    BY <1>0, <2>1, <2>2 DEF ClockInv
<1>2. CASE ReadClock(p)
  <2>1. pub_pc'[p] = "accept" /\ record'[p].stamp = now /\ master' = master
    BY <1>0, <1>2 DEF ReadClock, PubGoto, writeVars
  <2> QED
    BY <1>0, <2>1, Others, Stamps DEF ClockInv
<1>3. CASE Accept(p)
  <2>1. pub_pc[p] = "accept" /\ record'[p].stamp = record[p].stamp /\ master' = master
    BY <1>0, <1>3 DEF Accept
  <2> QED
    BY <1>0, <2>1, Others, Stamps DEF ClockInv
<1>4. CASE ~StoreMaster(p) /\ ~ReadClock(p) /\ ~Accept(p)
  <2>1. pub_pc'[p] \notin {"accept", "master"}
    <3>1. CASE PublishFrom(p) \/ Precheck(p) \/ Count(p)
      BY <1>0, <3>1 DEF PublishFrom, Precheck, Count, Return, PubGoto
    <3>2. CASE LoadSlot(p)
      BY <3>2, LoadSlotIs
    <3>3. CASE StampBaseline(p)
      BY <1>0, <3>3 DEF StampBaseline, PubGoto
    <3>4. CASE Offers(p)
      BY <3>4, OffersIs, Advanced
    <3> QED
      BY <1>4, <3>1, <3>2, <3>3, <3>4 DEF Deliver, Offers
  <2>2. master' = master
    BY <1>4, MasterMoves
  <2> QED
    BY <1>0, <2>1, <2>2, Others, Stamps DEF ClockInv
<1> QED
  BY <1>1, <1>2, <1>3, <1>4

\* The ring of a core that is offered a record.
LEMMA PushIs ==
  ASSUME TableInv, LossInv, NEW p \in Pubs, Offers(p), NEW s \in Subs, s = target[p]
  PROVE  /\ record[p] = master /\ record[p].ordinal = accepted_ordinal /\ record[p] \in Record
         /\ accepted_ordinal \notin offered[s] /\ offered[s] \subseteq 1..accepted_ordinal
         /\ offered'[s] = offered[s] \cup {accepted_ordinal}
         /\ IsLatest(s) => latest'[s] = master /\ queue'[s] = queue[s] /\ drop_count'[s] = drop_count[s]
         /\ ~IsLatest(s) =>
              /\ latest'[s] = latest[s]
              /\ \/ queue'[s] = queue[s] /\ drop_count'[s] = drop_count[s] + 1
                 \/ queue'[s] = Append(queue[s], record[p]) /\ drop_count'[s] = drop_count[s]
<1>0. pub_pc[p] \in Inside /\ offered'[s] = offered[s] \cup {record[p].ordinal}
  BY OffersIs DEF TableInv
<1>1. record[p] = master /\ record[p].ordinal = accepted_ordinal
  BY <1>0 DEF TableInv, ConflatesInv, WriterInv, FanInv, FanAt, HasOrdinal, Inside
<1>2. LossAt(s) /\ Ahead(p, s)
  BY <1>0 DEF LossInv, Ahead
<1>3. accepted_ordinal \notin offered[s] /\ offered[s] \subseteq 1..accepted_ordinal
  BY <1>2 DEF LossAt
<1>4. IsLatest(s) <=> pub_pc[p] # "push"
  BY <1>0 DEF TableInv, FanInv, FanAt
<1>5. /\ latest \in [Subs -> Record] /\ queue \in [Subs -> Seq(Record)] /\ drop_count \in [Subs -> Nat]
      /\ record \in [Pubs -> Record]
  BY DEF TableInv, TypeInv, BoxTypes, PubTypes
<1>6. CASE StoreLatest(p)
  BY <1>0, <1>1, <1>3, <1>4, <1>5, <1>6 DEF StoreLatest
<1>7. CASE Push(p)
  BY <1>0, <1>1, <1>3, <1>4, <1>5, <1>7 DEF Push, Drop
<1> QED
  BY <1>6, <1>7 DEF Offers

LEMMA RingKept ==
  ASSUME TypeInv, TypeInv', NEW s \in Subs, RingAt(s), queue'[s] = queue[s], offered[s] \subseteq offered'[s],
         latest'[s].stamp <= master'.stamp, master.stamp <= master'.stamp
  PROVE  RingAt(s)'
<1>1. queue[s] \in Seq(Record)
  BY DEF TypeInv, BoxTypes
<1>2. ASSUME NEW i \in 1..Len(queue[s]) PROVE queue[s][i].stamp \in Nat
  <2>1. queue[s][i] \in Record
    BY <1>1, Element
  <2> QED
    BY <2>1 DEF Record
<1>3. master.stamp \in Nat /\ master'.stamp \in Nat
  BY DEF TypeInv, TopicTypes, Record
<1>4. ASSUME NEW i \in 1..Len(queue[s])
      PROVE  queue[s][i].ordinal \in offered'[s] /\ queue[s][i].stamp <= master'.stamp
  <2>1. queue[s][i].ordinal \in offered[s] /\ queue[s][i].stamp <= master.stamp
    BY DEF RingAt
  <2>2. queue[s][i].stamp \in Nat
    BY <1>2
  <2>3. queue[s][i].stamp <= master'.stamp
    BY <1>3, <2>1, <2>2, NatOrder
  <2> QED
    BY <2>1, <2>3
<1>5. \A i, j \in 1..Len(queue[s]) :
        i < j => queue[s][i].ordinal < queue[s][j].ordinal /\ queue[s][i].stamp <= queue[s][j].stamp
  BY DEF RingAt
<1> QED
  BY <1>4, <1>5 DEF RingAt

LEMMA RingDeliver ==
  ASSUME TableInv, TypeInv', LossInv, StampInv, NEW p \in Pubs, Deliver(p), NEW s \in Subs
  PROVE  RingAt(s)'
<1>0. /\ TypeInv /\ ClockInv /\ RingAt(s) /\ master.stamp <= master'.stamp
      /\ master.stamp \in Nat /\ master'.stamp \in Nat /\ latest[s].stamp \in Nat
  BY ClockDeliver, Stamps DEF StampInv, TableInv, TypeInv, TopicTypes, Record
<1>1. CASE ~(Offers(p) /\ s = target[p])
  <2>1. queue'[s] = queue[s] /\ offered'[s] = offered[s] /\ latest'[s] = latest[s]
    <3>1. CASE Offers(p)
      BY <1>1, <3>1, OffersIs DEF TableInv
    <3>2. CASE ~Offers(p)
      BY <3>2 DEF Offers, Deliver, PublishFrom, Precheck, ReadClock, Accept, StoreMaster, LoadSlot,
         StampBaseline, Count, boxVars
    <3> QED
      BY <3>1, <3>2
  <2>2. latest'[s].stamp <= master'.stamp
    <3>1. latest[s].stamp <= master.stamp
      BY <1>0 DEF RingAt
    <3> QED
      BY <1>0, <2>1, <3>1, NatOrder
  <2> QED
    BY <1>0, <2>1, <2>2, RingKept
<1>2. CASE Offers(p) /\ s = target[p]
  <2>1. master' = master /\ latest'[s].stamp <= master.stamp /\ offered[s] \subseteq offered'[s]
    BY <1>0, <1>2, OffersIs, PushIs DEF TableInv, writeVars, RingAt
  <2>2. CASE queue'[s] = queue[s]
    BY <1>0, <2>1, <2>2, RingKept
  <2>3. CASE queue'[s] # queue[s]
    <3> DEFINE q == queue[s]
               a == accepted_ordinal
               n == Len(q)
    <3>1. /\ queue'[s] = Append(q, record[p]) /\ record[p] = master /\ record[p].ordinal = a
          /\ record[p] \in Record /\ offered[s] \subseteq 1..a /\ a \notin offered[s]
          /\ offered'[s] = offered[s] \cup {a}
      BY <1>2, <2>3, PushIs
    <3>2. q \in Seq(Record) /\ n \in Nat /\ a \in Nat
      BY <1>0, TopicAssumption DEF TypeInv, BoxTypes, TopicTypes
    <3>3. /\ Len(queue'[s]) = n + 1 /\ queue'[s][n + 1] = master
          /\ \A i \in 1..n : queue'[s][i] = q[i]
      <4>1. q \in Seq(Record) /\ record[p] \in Record
        BY <3>1, <3>2
      <4> HIDE DEF q, a
      <4>2. /\ Len(Append(q, record[p])) = n + 1 /\ Append(q, record[p])[n + 1] = record[p]
            /\ \A i \in 1..n : Append(q, record[p])[i] = q[i]
        BY <4>1, Append1
      <4> QED
        BY <3>1, <4>2
    <3>4. \A i \in 1..n : /\ q[i].ordinal \in offered[s] /\ q[i].stamp <= master.stamp
                          /\ q[i].ordinal < a
      <4>1. \A o \in offered[s] : o < a
        BY <3>1, <3>2
      <4> QED
        BY <1>0, <4>1 DEF RingAt
    <3>5. ASSUME NEW i \in 1..(n + 1)
          PROVE  queue'[s][i].ordinal \in offered'[s] /\ queue'[s][i].stamp <= master'.stamp
      <4>1. CASE i = n + 1
        BY <1>0, <2>1, <3>1, <3>3, <4>1
      <4>2. CASE i \in 1..n
        BY <2>1, <3>1, <3>3, <3>4, <4>2
      <4> QED
        BY <3>2, <4>1, <4>2
    <3>6. ASSUME NEW i \in 1..(n + 1), NEW j \in 1..(n + 1), i < j
          PROVE  /\ queue'[s][i].ordinal < queue'[s][j].ordinal
                 /\ queue'[s][i].stamp <= queue'[s][j].stamp
      <4>1. i \in 1..n
        BY <3>2, <3>6
      <4>2. CASE j = n + 1
        BY <3>1, <3>3, <3>4, <4>1, <4>2
      <4>3. CASE j \in 1..n
        <5>1. q[i].ordinal < q[j].ordinal /\ q[i].stamp <= q[j].stamp
          BY <1>0, <3>6, <4>1, <4>3 DEF RingAt
        <5> QED
          BY <3>3, <4>1, <4>3, <5>1
      <4> QED
        BY <3>2, <4>2, <4>3
    <3> QED
      BY <2>1, <3>3, <3>5, <3>6 DEF RingAt
  <2> QED
    BY <2>2, <2>3
<1> QED
  BY <1>1, <1>2

\* A take removes the head of a ring.
LEMMA TakenFrom ==
  ASSUME TypeInv, NEW t \in Subs, Take(t), NEW s \in Subs
  PROVE  \/ queue'[s] = queue[s]
         \/ /\ s = t /\ TryTake(t) /\ queue[s] # <<>> /\ queue'[s] = Tail(queue[s])
BY DEF Take, LoadLatest, TakeLatest, TryTake, TypeInv, BoxTypes

LEMMA RingTake ==
  ASSUME TableInv, TypeInv', NEW t \in Subs, Take(t), NEW s \in Subs, RingAt(s)
  PROVE  RingAt(s)'
<1>0. TypeInv /\ UNCHANGED <<latest, master, offered>>
  BY DEF TableInv, Take, takeFrame, writeVars
<1>1. CASE queue'[s] = queue[s]
  <2>1. master.stamp <= master'.stamp /\ latest'[s].stamp <= master'.stamp
    BY <1>0, Stamps DEF RingAt
  <2> QED
    BY <1>0, <1>1, <2>1, RingKept
<1>2. CASE queue[s] # <<>> /\ queue'[s] = Tail(queue[s])
  <2>0. queue[s] \in Seq(Record)
    BY <1>0 DEF TypeInv, BoxTypes
  <2>1. PICK n \in Nat :
          /\ Len(queue[s]) = n + 1 /\ Len(queue'[s]) = n
          /\ \A i \in 1..n : i + 1 \in 1..Len(queue[s]) /\ queue'[s][i] = queue[s][i + 1]
    BY <1>2, <2>0, Tail2
  <2>2. \A i \in 1..n : i + 1 \in 1..Len(queue[s])
    BY <2>1
  <2>3. \A i \in 1..n : queue'[s][i].ordinal \in offered'[s] /\ queue'[s][i].stamp <= master'.stamp
    BY <1>0, <2>1, <2>2 DEF RingAt
  <2>4. ASSUME NEW i \in 1..n, NEW j \in 1..n, i < j
        PROVE  /\ queue'[s][i].ordinal < queue'[s][j].ordinal
               /\ queue'[s][i].stamp <= queue'[s][j].stamp
    <3>1. i + 1 < j + 1
      BY <2>1, <2>4
    <3> QED
      BY <2>1, <2>2, <3>1 DEF RingAt
  <2> QED
    BY <1>0, <2>1, <2>3, <2>4 DEF RingAt
<1> QED
  BY <1>0, <1>1, <1>2, TakenFrom

LEMMA StampNext == TableInv /\ TypeInv' /\ LossInv /\ StampInv /\ [Next]_vars => StampInv'
<1> SUFFICES ASSUME TableInv, TypeInv', LossInv, StampInv, [Next]_vars PROVE StampInv'
  OBVIOUS
<1>0. TypeInv
  BY DEF TableInv
<1>1. ASSUME NEW p \in Pubs, Deliver(p) PROVE StampInv'
  BY <1>1, ClockDeliver, RingDeliver DEF StampInv
<1>2. ASSUME UNCHANGED <<record, master, queue, offered>>,
             now <= now', \A p \in Pubs : pub_pc'[p] \in {"accept", "master"} => pub_pc'[p] = pub_pc[p],
             \A s \in Subs : latest'[s] \in {latest[s], master}
      PROVE  StampInv'
  <2>1. now' \in Nat /\ now \in Nat
    BY DEF TypeInv, TopicTypes, TableInv
  <2>2. ClockInv'
    BY <1>0, <1>2, <2>1, Stamps DEF StampInv, ClockInv
  <2>3. ASSUME NEW s \in Subs PROVE RingAt(s)'
    <3>1. latest'[s].stamp <= master'.stamp /\ master.stamp <= master'.stamp
      BY <1>0, <1>2, Stamps DEF StampInv, RingAt
    <3> QED
      BY <1>0, <1>2, <3>1, RingKept DEF StampInv
  <2> QED
    BY <2>2, <2>3 DEF StampInv
<1>3. ASSUME NEW p \in Pubs, AddPublisher(p) \/ RemovePublisher(p) PROVE StampInv'
  <2>1. UNCHANGED <<now, record, master, queue, offered, latest>>
    BY <1>3 DEF AddPublisher, RemovePublisher, writeVars, boxVars
  <2>2. \A q \in Pubs : pub_pc'[q] \in {"accept", "master"} => pub_pc'[q] = pub_pc[q]
    BY <1>0, <1>3, Fan0 DEF AddPublisher, RemovePublisher, PubGoto
  <2>3. now <= now'
    BY <1>0, <2>1, Stamps, NatOrder
  <2> QED
    BY <1>2, <2>1, <2>2, <2>3
<1>4. ASSUME NEW t \in Subs, Seed(t) \/ Attach(t) \/ RemoveSubscriber(t) PROVE StampInv'
  <2>1. UNCHANGED <<now, record, master, queue, offered, pub_pc>>
    BY <1>4 DEF Seed, Attach, RemoveSubscriber, writeVars, boxVars, pubVars
  <2>2. \A s \in Subs : latest'[s] \in {latest[s], master}
    BY <1>0, <1>4 DEF Seed, SeedRecord, Attach, RemoveSubscriber, boxVars, TypeInv, BoxTypes
  <2>3. now <= now'
    BY <1>0, <2>1, Stamps, NatOrder
  <2> QED
    BY <1>2, <2>1, <2>2, <2>3
<1>5. ASSUME NEW t \in Subs, Take(t) PROVE StampInv'
  <2>1. UNCHANGED <<now, record, master, pub_pc>>
    BY <1>5 DEF Take, takeFrame, topicVars, writeVars, pubVars
  <2>2. ClockInv'
    BY <2>1 DEF StampInv, ClockInv
  <2> QED
    BY <1>5, <2>2, RingTake DEF StampInv
<1>6. CASE Tick \/ UNCHANGED vars
  <2>1. UNCHANGED <<record, master, queue, offered, pub_pc, latest>> /\ now' \in {now, now + 1}
    BY <1>6 DEF Tick, vars, topicVars, writeVars, boxVars, pubVars
  <2>2. now <= now'
    BY <1>0, <2>1, Stamps, NatOrder
  <2> QED
    BY <1>2, <2>1, <2>2
<1> QED
  BY <1>1, <1>3, <1>4, <1>5, <1>6 DEF Next

LEMMA StampInvariant == Spec => []StampInv
<1>1. Init => StampInv
  <2> SUFFICES ASSUME Init PROVE StampInv
    OBVIOUS
  <2>1. ClockInv
    BY DEF Init, ClockInv, NoRecord
  <2>2. ASSUME NEW s \in Subs PROVE RingAt(s)
    <3>1. queue[s] = <<>> /\ latest[s] = NoRecord /\ master = NoRecord
      BY DEF Init
    <3>2. 1..Len(<<>>) = {} /\ NoRecord.stamp <= NoRecord.stamp
      BY DEF NoRecord
    <3> QED
      BY <3>1, <3>2 DEF RingAt
  <2> QED
    BY <2>1, <2>2 DEF StampInv
<1> QED
  BY <1>1, StampNext, TypeInvariant, LossInvariant, PTL DEF Spec

\* D15 for any number of publishers: shared ones read the clock inside the lock,
\* so stamps never contradict ordinals in a mailbox or along a ring.
THEOREM StampOrderAlways == Spec => []StampOrder
<1>1. TypeInv /\ StampInv => StampOrder
  <2> SUFFICES ASSUME TypeInv, StampInv, NEW s \in Subs
               PROVE  /\ latest[s].ordinal <= master.ordinal => latest[s].stamp <= master.stamp
                      /\ \A i, j \in DOMAIN queue[s] :
                           i < j => /\ queue[s][i].ordinal < queue[s][j].ordinal
                                    /\ queue[s][i].stamp <= queue[s][j].stamp
    BY DEF StampOrder
  <2>1. DOMAIN queue[s] = 1..Len(queue[s])
    BY DEF TypeInv, BoxTypes
  <2> QED
    BY <2>1 DEF StampInv, RingAt
<1> QED
  BY <1>1, StampInvariant, TypeInvariant, PTL

-----------------------------------------------------------------------------
\* Conservation in a ring.

LEMMA FiniteHistory ==
  ASSUME TypeInv, NEW s \in Subs, LossAt(s)
  PROVE  IsFiniteSet(offered[s]) /\ Cardinality(offered[s]) \in Nat
<1>1. accepted_ordinal \in Nat
  BY Stamps
<1>2. IsFiniteSet(1..accepted_ordinal)
  BY <1>1, FS_Interval
<1> QED
  BY <1>2, FS_Subset, FS_CardinalityType DEF LossAt

LEMMA QueueDeliver ==
  ASSUME TableInv, LossInv, NEW p \in Pubs, Deliver(p), NEW s \in Subs, QueueAt(s)
  PROVE  QueueAt(s)'
<1>0. /\ taken' = taken /\ (IsLatest(s)' <=> IsLatest(s)) /\ TypeInv /\ LossAt(s)
      /\ queue[s] \in Seq(Record) /\ drop_count[s] \in Nat
  BY Fixed DEF IsLatest, TableInv, TypeInv, BoxTypes, LossInv
<1>1. CASE ~(Offers(p) /\ s = target[p])
  <2>1. queue'[s] = queue[s] /\ offered'[s] = offered[s] /\ drop_count'[s] = drop_count[s]
    <3>1. CASE Offers(p)
      BY <1>1, <3>1, OffersIs DEF TableInv
    <3>2. CASE ~Offers(p)
      BY <3>2 DEF Offers, Deliver, PublishFrom, Precheck, ReadClock, Accept, StoreMaster, LoadSlot,
         StampBaseline, Count, boxVars
    <3> QED
      BY <3>1, <3>2
  <2> QED
    BY <1>0, <2>1 DEF QueueAt
<1>2. CASE Offers(p) /\ s = target[p] /\ ~IsLatest(s)
  <2> DEFINE a == accepted_ordinal
             O == offered[s]
             n == Len(queue[s])
             T == taken[s]
  <2>1. /\ a \notin O /\ offered'[s] = O \cup {a} /\ record[p].ordinal = a /\ record[p] \in Record
        /\ \/ queue'[s] = queue[s] /\ drop_count'[s] = drop_count[s] + 1
           \/ queue'[s] = Append(queue[s], record[p]) /\ drop_count'[s] = drop_count[s]
    BY <1>2, PushIs
  <2>2. /\ T \subseteq O /\ \A i \in 1..n : queue[s][i].ordinal \notin T
        /\ Cardinality(T) + n + drop_count[s] = Cardinality(O)
    BY <1>2 DEF QueueAt
  <2>3. IsFiniteSet(O) /\ Cardinality(O) \in Nat /\ n \in Nat
    <3>1. n \in Nat
      BY <1>0
    <3>2. IsFiniteSet(O) /\ Cardinality(O) \in Nat
      BY <1>0, FiniteHistory
    <3> QED
      BY <3>1, <3>2
  <2>4. Cardinality(T) \in Nat
    BY <2>2, <2>3, FS_Subset, FS_CardinalityType
  <2>5. Cardinality(O \cup {a}) = Cardinality(O) + 1
    BY <2>1, <2>3, FS_AddElement
  <2>6. a \notin T
    BY <2>1, <2>2
  <2> HIDE DEF a, O, T, n
  <2>7. /\ Cardinality(T) + n + (drop_count[s] + 1) = Cardinality(O) + 1
        /\ Cardinality(T) + (n + 1) + drop_count[s] = Cardinality(O) + 1
    <3>1. Cardinality(T) + n + drop_count[s] = Cardinality(O) /\ drop_count[s] \in Nat
      BY <1>0, <2>2
    <3> QED
      BY <2>3, <2>4, <3>1, Tally
  <2>8. CASE queue'[s] = queue[s] /\ drop_count'[s] = drop_count[s] + 1
    <3>1. /\ taken'[s] = T /\ Len(queue'[s]) = n /\ drop_count'[s] = drop_count[s] + 1
          /\ offered'[s] = O \cup {a}
      BY <1>0, <2>1, <2>8 DEF T, n
    <3> QED
      BY <2>2, <2>5, <2>7, <2>8, <3>1 DEF QueueAt
  <2>9. CASE queue'[s] = Append(queue[s], record[p]) /\ drop_count'[s] = drop_count[s]
    <3>1. /\ taken'[s] = T /\ Len(queue'[s]) = n + 1 /\ drop_count'[s] = drop_count[s]
          /\ offered'[s] = O \cup {a} /\ queue'[s][n + 1] = record[p]
          /\ \A i \in 1..n : queue'[s][i] = queue[s][i]
      <4>1. taken'[s] = T /\ offered'[s] = O \cup {a}
        BY <1>0, <2>1 DEF T
      <4>2. /\ Len(queue'[s]) = Len(queue[s]) + 1 /\ queue'[s][Len(queue[s]) + 1] = record[p]
            /\ \A i \in 1..Len(queue[s]) : queue'[s][i] = queue[s][i]
        BY <1>0, <2>1, <2>9, Append1
      <4> QED
        BY <2>9, <4>1, <4>2 DEF n
    <3>2. \A i \in 1..(n + 1) : i = n + 1 \/ i \in 1..n
      BY <2>3
    <3>3. \A i \in 1..(n + 1) : queue'[s][i].ordinal \notin T
      BY <2>1, <2>2, <2>6, <3>1, <3>2
    <3> QED
      BY <2>2, <2>5, <2>7, <3>1, <3>3 DEF QueueAt
  <2> QED
    BY <2>1, <2>8, <2>9
<1>3. CASE IsLatest(s)
  BY <1>0, <1>3 DEF QueueAt
<1> QED
  BY <1>1, <1>2, <1>3

\* A take of a ring returns a record no take returned before.
LEMMA FreshTake ==
  ASSUME TableInv, LossInv, QueueInv, NEW s \in Subs, TryTake(s)
  PROVE  LET o == Head(queue[s]).ordinal IN
         /\ o \in offered[s] => o \notin taken[s]
         /\ taken'[s] = taken[s] \cup {o} /\ o \notin taken[s]
         /\ IsFiniteSet(taken[s]) /\ Cardinality(taken[s]) \in Nat
         /\ Cardinality(taken'[s]) = Cardinality(taken[s]) + 1
<1>0. /\ queue[s] \in Seq(Record) /\ queue[s] # <<>> /\ ~IsLatest(s) /\ TypeInv /\ LossAt(s)
      /\ taken \in [Subs -> SUBSET Nat]
  BY DEF TableInv, TypeInv, BoxTypes, TakeTypes, TryTake, LossInv
<1>1. Head(queue[s]) = queue[s][1] /\ 1 \in 1..Len(queue[s])
  BY <1>0, Tail1
<1>2. /\ Head(queue[s]).ordinal \notin taken[s] /\ taken[s] \subseteq offered[s]
  BY <1>0, <1>1 DEF QueueInv, QueueAt
<1>3. taken'[s] = taken[s] \cup {Head(queue[s]).ordinal}
  BY <1>0 DEF TryTake
<1>4. IsFiniteSet(taken[s]) /\ Cardinality(taken[s]) \in Nat
  BY <1>0, <1>2, FiniteHistory, FS_Subset, FS_CardinalityType
<1>5. Cardinality(taken'[s]) = Cardinality(taken[s]) + 1
  BY <1>2, <1>3, <1>4, FS_AddElement
<1> QED
  BY <1>2, <1>3, <1>4, <1>5

LEMMA QueueTake ==
  ASSUME TableInv, LossInv, StampInv, QueueInv, NEW t \in Subs, Take(t), NEW s \in Subs
  PROVE  QueueAt(s)'
<1>0. /\ QueueAt(s) /\ RingAt(s) /\ TypeInv /\ UNCHANGED <<offered, drop_count>>
      /\ IsLatest(s)' <=> IsLatest(s)
  BY DEF QueueInv, StampInv, TableInv, Take, takeFrame, subVars, IsLatest
<1>1. CASE IsLatest(s)
  BY <1>0, <1>1 DEF QueueAt
<1>2. CASE ~IsLatest(s) /\ ~(s = t /\ TryTake(t))
  <2>1. queue'[s] = queue[s]
    BY <1>0, <1>2, TakenFrom
  <2>2. taken'[s] = taken[s]
    <3>1. s = t => ~TakeLatest(t)
      BY <1>2 DEF TakeLatest, TableInv, ConflatesInv, BornInv
    <3> QED
      BY <1>0, <1>2, <3>1 DEF Take, LoadLatest, TakeLatest, TryTake, TypeInv, TakeTypes
  <2> QED
    BY <1>0, <2>1, <2>2 DEF QueueAt
<1>3. CASE ~IsLatest(s) /\ s = t /\ TryTake(t)
  <2> DEFINE q == queue[s]
             o == Head(q).ordinal
             T == taken[s]
  <2>1. /\ taken'[s] = T \cup {o} /\ Cardinality(T) \in Nat
        /\ Cardinality(taken'[s]) = Cardinality(T) + 1
    BY <1>3, FreshTake
  <2>2. q \in Seq(Record) /\ q # <<>> /\ queue'[s] = Tail(q)
    BY <1>0, <1>3 DEF TryTake, TypeInv, BoxTypes
  <2>3. PICK n \in Nat : /\ Len(q) = n + 1 /\ Len(queue'[s]) = n
                         /\ \A i \in 1..n : i + 1 \in 1..Len(q) /\ queue'[s][i] = q[i + 1]
    <3> HIDE DEF q
    <3> QED
      BY <2>2, Tail2
  <2>4. Head(q) = q[1] /\ 1 \in 1..Len(q)
    BY <2>2, Tail1
  <2>5. /\ T \subseteq offered[s] /\ \A i \in 1..Len(q) : q[i].ordinal \notin T
        /\ Cardinality(T) + Len(q) + drop_count[s] = Cardinality(offered[s])
    BY <1>0, <1>3 DEF QueueAt
  <2>6. o \in offered[s]
    BY <1>0, <2>4 DEF RingAt
  <2>7. ASSUME NEW i \in 1..n PROVE queue'[s][i].ordinal \notin taken'[s]
    <3>1. i + 1 \in 1..Len(q) /\ 1 \in 1..Len(q) /\ 1 < i + 1
      <4>1. \A m \in Nat : \A j \in 1..m : 1 < j + 1
        OBVIOUS
      <4> QED
        BY <2>3, <2>4, <4>1
    <3>2. q[1].ordinal < q[i + 1].ordinal
      BY <1>0, <3>1 DEF RingAt
    <3>3. q[1] \in Record /\ q[i + 1] \in Record
      BY <2>2, <3>1, Element
    <3>4. q[1].ordinal \in Nat /\ q[i + 1].ordinal \in Nat
      <4> HIDE DEF q
      <4> QED
        BY <3>3, TopicAssumption DEF Record
    <3>5. o = q[1].ordinal /\ queue'[s][i] = q[i + 1] /\ q[i + 1].ordinal \notin T
      BY <2>3, <2>5, <2>4, <3>1
    <3> HIDE DEF q, o, T
    <3> QED
      BY <2>1, <3>2, <3>4, <3>5
  <2>8. drop_count[s] \in Nat
    BY <1>0 DEF TypeInv, BoxTypes
  <2>9. Cardinality(taken'[s]) + Len(queue'[s]) + drop_count'[s] = Cardinality(offered'[s])
    <3>1. Cardinality(offered[s]) \in Nat
      BY <1>0, FiniteHistory DEF LossInv
    <3>2. offered' = offered /\ drop_count' = drop_count
      BY <1>0
    <3> HIDE DEF q, o, T
    <3>3. (Cardinality(T) + 1) + n + drop_count[s] = Cardinality(offered[s])
      <4>1. Cardinality(T) + (n + 1) + drop_count[s] = Cardinality(offered[s]) /\ Cardinality(T) \in Nat
        BY <2>1, <2>3, <2>5
      <4> QED
        BY <2>8, <3>1, <4>1, Tally
    <3> QED
      BY <2>1, <2>3, <3>2, <3>3
  <2> QED
    BY <1>0, <2>1, <2>3, <2>5, <2>6, <2>7, <2>9 DEF QueueAt
<1> QED
  BY <1>1, <1>2, <1>3

LEMMA QueueNext == TableInv /\ LossInv /\ StampInv /\ QueueInv /\ [Next]_vars => QueueInv'
<1> SUFFICES ASSUME TableInv, LossInv, StampInv, QueueInv, [Next]_vars, NEW s \in Subs
             PROVE  QueueAt(s)'
  BY DEF QueueInv
<1>0. QueueAt(s)
  BY DEF QueueInv
<1>1. ASSUME UNCHANGED <<taken, queue, drop_count, offered, sub_qos>> PROVE QueueAt(s)'
  BY <1>0, <1>1 DEF QueueAt, IsLatest
<1>2. ASSUME NEW p \in Pubs, AddPublisher(p) \/ RemovePublisher(p) PROVE QueueAt(s)'
  BY <1>1, <1>2 DEF AddPublisher, RemovePublisher, subVars, boxVars, takeVars
<1>3. ASSUME NEW t \in Subs, Seed(t) \/ Attach(t) \/ RemoveSubscriber(t) PROVE QueueAt(s)'
  BY <1>1, <1>3 DEF Seed, Attach, RemoveSubscriber, boxVars, takeVars
<1>4. CASE Tick \/ UNCHANGED vars
  BY <1>1, <1>4 DEF Tick, vars, subVars, boxVars, takeVars
<1> QED
  BY <1>0, <1>2, <1>3, <1>4, QueueDeliver, QueueTake DEF Next

LEMMA QueueInvariant == Spec => []QueueInv
<1>1. Init => QueueInv
  BY FS_EmptySet DEF Init, QueueInv, QueueAt
<1> QED
  BY <1>1, QueueNext, StampInvariant, LossInvariant, PTL DEF Spec

\* M3-A2 for any depth and number of cores: the ring, the takes and drop_count
\* account for every record offered to a queue subscriber.
THEOREM QueueConservationAlways == Spec => []QueueConservation
<1>1. QueueInv => QueueConservation
  BY DEF QueueInv, QueueAt, QueueConservation
<1> QED
  BY <1>1, QueueInvariant, PTL
=============================================================================
