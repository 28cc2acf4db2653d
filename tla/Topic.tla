------------------------------- MODULE Topic -------------------------------
(***************************************************************************)
(* One in-process pub/sub topic: Topic<T> of detail/in_process.hpp with    *)
(* the publisher and subscriber cores it fans out to.                      *)
(*                                                                         *)
(* Every Pubs / Subs element is one PubCore / SubCore, driven by one       *)
(* thread; a core is made once and never reused, as make_shared does.      *)
(* Publishing is lock-free against wiring, so Deliver is cut at each       *)
(* atomic access another thread can see between; wiring holds the domain   *)
(* mutex (wiring).  MessageSlot and SpscQueue are atomic registers and     *)
(* queues.  Atomics are sequentially consistent.                           *)
(***************************************************************************)
EXTENDS Integers, Sequences, FiniteSets

CONSTANTS
  Pubs, Subs,       \* publisher and subscriber cores
  PubQos,           \* declared [ownership, reliability] combinations
  SubQos,           \* declared [history, deadline] combinations
  kMaxSubscribers,  \* length of the fan-out table
  Depth,            \* ring capacity of a queue subscriber
  MaxAccepted, MaxTime,  \* bounds on the ordinals and the clock
  None              \* the null core pointer, the free mutex

ASSUME TopicAssumption ==
  /\ None \notin Pubs /\ None \notin Subs
  /\ PubQos \subseteq [ownership : {"kExclusive", "kShared"},
                       reliability : {"kBestEffort", "kReliable"}]
  /\ SubQos \subseteq [history : {"kLatestOnly", "kQueue"}, deadline : Nat]
  /\ kMaxSubscribers \in Nat \ {0} /\ Depth \in Nat \ {0}
  /\ MaxAccepted \in Nat /\ MaxTime \in Nat

Slots == 1..kMaxSubscribers

\* MailRecord<T>: the payload is identified by its ordinal.  Ordinals are
\* 1-based, so ordinal 0 stands for a slot that was never stored.
Record   == [ordinal : 0..MaxAccepted, stamp : Nat]
NoRecord == [ordinal |-> 0, stamp |-> 0]

\* SubCore::kBaselineUnset: greater than every ordinal.
kBaselineUnset == MaxAccepted + 1

VARIABLES
  now,                 \* the family clock
  wiring,              \* DomainState::mutex_: the subscriber being wired
  publisher_count, subscriber_count, declared_ownership, sub_slots,
  accepted_ordinal, master, shared_write_mutex,
  pub_pc, pub_qos,
  record, cursor, target,   \* Deliver's record, slot index, loaded pointer
  sub_pc, sub_qos, latest, queue, last_consumed_ordinal, drop_count,
  loaded, overwrite_count, deadline_miss_count, stale_latched,
  offered,             \* history: ordinals the fan-out offered to a core
  taken                \* history: ordinals its takes returned

topicVars == <<now, wiring, publisher_count, subscriber_count,
               declared_ownership, sub_slots>>
writeVars == <<accepted_ordinal, master>>
pubVars   == <<pub_pc, pub_qos, record, cursor, target, shared_write_mutex>>
subVars   == <<sub_pc, sub_qos>>
boxVars   == <<latest, queue, last_consumed_ordinal, drop_count, offered>>
takeVars  == <<loaded, overwrite_count, deadline_miss_count, stale_latched, taken>>
deliverFrame == <<topicVars, pub_qos, subVars, takeVars>>
takeFrame == <<topicVars, writeVars, pubVars, subVars, latest, drop_count, offered>>
vars == <<topicVars, writeVars, pubVars, subVars, boxVars, takeVars>>

IsLatest(s) == sub_qos[s].history = "kLatestOnly"
Full(s)     == Len(queue[s]) >= Depth
Shared(p)   == pub_qos[p].ownership = "kShared"
Reliable(p) == pub_qos[p].reliability = "kReliable"

\* A publisher is inside Deliver; its record has its ordinal.
Delivering(p) == pub_pc[p] \notin {"unborn", "refused", "idle", "closed"}
HasOrdinal(p) == pub_pc[p] \in {"master", "load", "stamp", "store", "push", "count"}

PubGoto(p, pc) == pub_pc' = [pub_pc EXCEPT ![p] = pc]
SubGoto(s, pc) == sub_pc' = [sub_pc EXCEPT ![s] = pc]

Init ==
  /\ now = 0 /\ wiring = None
  /\ publisher_count = 0 /\ subscriber_count = 0
  /\ declared_ownership = "kExclusive"
  /\ accepted_ordinal = 0 /\ shared_write_mutex = None /\ master = NoRecord
  /\ sub_slots = [i \in Slots |-> None]
  /\ pub_pc = [p \in Pubs |-> "unborn"] /\ pub_qos \in [Pubs -> PubQos]
  /\ record = [p \in Pubs |-> NoRecord]
  /\ cursor = [p \in Pubs |-> 1] /\ target = [p \in Pubs |-> None]
  /\ sub_pc = [s \in Subs |-> "unborn"] /\ sub_qos \in [Subs -> SubQos]
  /\ latest = [s \in Subs |-> NoRecord] /\ queue = [s \in Subs |-> <<>>]
  /\ last_consumed_ordinal = [s \in Subs |-> kBaselineUnset]
  /\ loaded = [s \in Subs |-> NoRecord]
  /\ drop_count = [s \in Subs |-> 0] /\ overwrite_count = [s \in Subs |-> 0]
  /\ deadline_miss_count = [s \in Subs |-> 0]
  /\ stale_latched = [s \in Subs |-> FALSE]
  /\ offered = [s \in Subs |-> {}] /\ taken = [s \in Subs |-> {}]

-----------------------------------------------------------------------------
\* Wiring.  Each verb holds the domain mutex throughout.

\* Mutant: only the incumbent's declaration is consulted.
OwnershipRefusedOneSided(p) == publisher_count > 0 /\ declared_ownership = "kExclusive"

\* D15: a second publisher is accepted only when both declare kShared.
OwnershipRefused(p) ==
  publisher_count > 0 /\ (declared_ownership = "kExclusive" \/ ~Shared(p))

AddPublisher(p) ==
  /\ wiring = None /\ pub_pc[p] = "unborn"
  /\ \/ /\ OwnershipRefused(p)
        /\ PubGoto(p, "refused")
        /\ UNCHANGED <<publisher_count, declared_ownership>>
     \/ /\ ~OwnershipRefused(p)
        /\ PubGoto(p, "idle")
        /\ publisher_count' = publisher_count + 1
        /\ declared_ownership' = pub_qos[p].ownership
  /\ UNCHANGED <<now, wiring, subscriber_count, sub_slots, writeVars, pub_qos, record,
                 cursor, target, shared_write_mutex, subVars, boxVars, takeVars>>

RemovePublisher(p) ==
  /\ wiring = None /\ pub_pc[p] = "idle"
  /\ PubGoto(p, "closed")
  /\ publisher_count' = publisher_count - 1
  /\ UNCHANGED <<now, wiring, subscriber_count, declared_ownership, sub_slots, writeVars,
                 pub_qos, record, cursor, target, shared_write_mutex, subVars, boxVars,
                 takeVars>>

\* Mutant: the seed is stamped at the join, not with the publish stamp.
SeedRestamped == IF master = NoRecord THEN master ELSE [master EXCEPT !.stamp = now]

\* The warm-start value of a latest-only mailbox: the last record written.
SeedRecord == master

\* AddSubscriber up to the attach: the private mailbox is seeded.
Seed(s) ==
  /\ wiring = None /\ sub_pc[s] = "unborn"
  /\ wiring' = s
  /\ SubGoto(s, "seeded")
  /\ latest' = IF IsLatest(s) THEN [latest EXCEPT ![s] = SeedRecord] ELSE latest
  /\ UNCHANGED <<now, publisher_count, subscriber_count, declared_ownership, sub_slots,
                 writeVars, pubVars, sub_qos, queue, last_consumed_ordinal, drop_count,
                 offered, takeVars>>

FirstNull(i) == sub_slots[i] = None /\ \A j \in Slots : j < i => sub_slots[j] # None

\* AddSubscriber from the attach on; a full table leaves the core unconnected.
Attach(s) ==
  /\ wiring = s /\ sub_pc[s] = "seeded"
  /\ wiring' = None
  /\ \/ \E i \in Slots :
          /\ FirstNull(i)
          /\ sub_slots' = [sub_slots EXCEPT ![i] = s]
          /\ subscriber_count' = subscriber_count + 1
          /\ SubGoto(s, "attached")
     \/ /\ \A i \in Slots : sub_slots[i] # None
        /\ SubGoto(s, "unconnected")
        /\ UNCHANGED <<sub_slots, subscriber_count>>
  /\ UNCHANGED <<now, publisher_count, declared_ownership, writeVars, pubVars, sub_qos,
                 boxVars, takeVars>>

\* Mutant: a core that never got a slot is subtracted too.
VacatedAlways(s) == 1

\* How many slots RemoveSubscriber clears.
Vacated(s) == IF sub_pc[s] = "attached" THEN 1 ELSE 0

RemoveSubscriber(s) ==
  /\ wiring = None /\ loaded[s] = NoRecord
  /\ sub_pc[s] \in {"attached", "unconnected"}
  /\ SubGoto(s, "detached")
  /\ sub_slots' = [i \in Slots |-> IF sub_slots[i] = s THEN None ELSE sub_slots[i]]
  /\ subscriber_count' = subscriber_count - Vacated(s)
  /\ UNCHANGED <<now, wiring, publisher_count, declared_ownership, writeVars, pubVars,
                 sub_qos, boxVars, takeVars>>

-----------------------------------------------------------------------------
\* Publishing: the steps of Deliver.  No step of it changes deliverFrame.

\* Mutant: shared publishers skip the mutex.
LocksNever(p) == FALSE

\* Declared-shared publishers enter Deliver under shared_write_mutex_.
Locks(p) == Shared(p)

PublishFrom(p) ==
  /\ pub_pc[p] = "idle" /\ accepted_ordinal < MaxAccepted
  /\ Locks(p) => shared_write_mutex = None
  /\ shared_write_mutex' = IF Locks(p) THEN p ELSE shared_write_mutex
  /\ PubGoto(p, IF Reliable(p) THEN "precheck" ELSE "clock")
  /\ UNCHANGED <<writeVars, record, cursor, target, boxVars>>

\* Leaving Deliver: the lock_guard releases, the locals die.
Return(p) ==
  /\ shared_write_mutex' = IF Locks(p) THEN None ELSE shared_write_mutex
  /\ PubGoto(p, "idle")
  /\ cursor' = [cursor EXCEPT ![p] = 1]
  /\ record' = [record EXCEPT ![p] = NoRecord]

\* Mutant: the pre-check compares one too high.
RefusesLate(s) == s # None /\ ~IsLatest(s) /\ Len(queue[s]) > Depth

Refuses(s) == s # None /\ ~IsLatest(s) /\ Full(s)

\* One iteration of the reliable pre-check: a full ring refuses the publish.
Precheck(p) ==
  /\ pub_pc[p] = "precheck"
  /\ \/ Refuses(sub_slots[cursor[p]]) /\ Return(p)
     \/ /\ ~Refuses(sub_slots[cursor[p]])
        /\ IF cursor[p] = kMaxSubscribers
           THEN PubGoto(p, "clock") /\ cursor' = [cursor EXCEPT ![p] = 1]
           ELSE cursor' = [cursor EXCEPT ![p] = @ + 1] /\ UNCHANGED pub_pc
        /\ UNCHANGED <<record, shared_write_mutex>>
  /\ UNCHANGED <<writeVars, target, boxVars>>

\* The publish stamp, read inside the shared lock.
ReadClock(p) ==
  /\ pub_pc[p] = "clock"
  /\ record' = [record EXCEPT ![p] = [ordinal |-> 0, stamp |-> now]]
  /\ PubGoto(p, "accept")
  /\ UNCHANGED <<writeVars, cursor, target, shared_write_mutex, boxVars>>

\* accepted_ordinal_.fetch_add.
Accept(p) ==
  /\ pub_pc[p] = "accept" /\ accepted_ordinal < MaxAccepted
  /\ accepted_ordinal' = accepted_ordinal + 1
  /\ record' = [record EXCEPT ![p] = [ordinal |-> accepted_ordinal + 1,
                                      stamp |-> record[p].stamp]]
  /\ PubGoto(p, "master")
  /\ UNCHANGED <<master, cursor, target, shared_write_mutex, boxVars>>

StoreMaster(p) ==
  /\ pub_pc[p] = "master"
  /\ master' = record[p]
  /\ PubGoto(p, "load")
  /\ UNCHANGED <<accepted_ordinal, record, cursor, target, shared_write_mutex, boxVars>>

\* Mutant: the fan-out stops at the first null slot.
LastSlotOrNull(p) == cursor[p] = kMaxSubscribers \/ sub_slots[cursor[p]] = None

LastSlot(p) == cursor[p] = kMaxSubscribers

\* The fan-out loop steps to the next slot.
Advance(p) ==
  /\ target' = [target EXCEPT ![p] = None]
  /\ IF LastSlot(p)
     THEN PubGoto(p, "count") /\ UNCHANGED cursor
     ELSE PubGoto(p, "load") /\ cursor' = [cursor EXCEPT ![p] = @ + 1]

LoadSlot(p) ==
  /\ pub_pc[p] = "load"
  /\ LET s == sub_slots[cursor[p]] IN
     IF s = None
     THEN Advance(p)
     ELSE /\ target' = [target EXCEPT ![p] = s]
          /\ PubGoto(p, IF IsLatest(s) THEN "stamp" ELSE "push")
          /\ UNCHANGED cursor
  /\ UNCHANGED <<writeVars, record, shared_write_mutex, boxVars>>

\* Mutant: the baseline counts the first delivery as consumed.
JoinPointAtRecord(o) == o

\* The D6 join point: everything before the first delivery is pre-join.
JoinPoint(o) == o - 1

StampBaseline(p) ==
  /\ pub_pc[p] = "stamp"
  /\ last_consumed_ordinal' =
       [last_consumed_ordinal EXCEPT ![target[p]] =
          IF @ = kBaselineUnset THEN JoinPoint(record[p].ordinal) ELSE @]
  /\ PubGoto(p, "store")
  /\ UNCHANGED <<writeVars, record, cursor, target, shared_write_mutex, latest, queue,
                 drop_count, offered>>

StoreLatest(p) ==
  /\ pub_pc[p] = "store"
  /\ latest' = [latest EXCEPT ![target[p]] = record[p]]
  /\ offered' = [offered EXCEPT ![target[p]] = @ \cup {record[p].ordinal}]
  /\ Advance(p)
  /\ UNCHANGED <<writeVars, record, shared_write_mutex, queue, last_consumed_ordinal,
                 drop_count>>

\* Mutant: a drop goes uncounted.
DropUncounted(s) == UNCHANGED <<queue, drop_count>>

\* Best-effort drop-newest.
Drop(s) == drop_count' = [drop_count EXCEPT ![s] = @ + 1] /\ UNCHANGED queue

\* TryPush into the ring, or the drop.
Push(p) ==
  /\ pub_pc[p] = "push"
  /\ \/ Full(target[p]) /\ Drop(target[p])
     \/ /\ ~Full(target[p])
        /\ queue' = [queue EXCEPT ![target[p]] = Append(@, record[p])]
        /\ UNCHANGED drop_count
  /\ offered' = [offered EXCEPT ![target[p]] = @ \cup {record[p].ordinal}]
  /\ Advance(p)
  /\ UNCHANGED <<writeVars, record, shared_write_mutex, latest, last_consumed_ordinal>>

Count(p) == pub_pc[p] = "count" /\ Return(p) /\ UNCHANGED <<writeVars, target, boxVars>>

Deliver(p) ==
  /\ \/ PublishFrom(p) \/ Precheck(p) \/ ReadClock(p) \/ Accept(p) \/ StoreMaster(p)
     \/ LoadSlot(p) \/ StampBaseline(p) \/ StoreLatest(p) \/ Push(p) \/ Count(p)
  /\ UNCHANGED deliverFrame

-----------------------------------------------------------------------------
\* Taking.  No take verb changes takeFrame.

\* Mutant: every stale take counts a miss.
MissesUnlatched(s, stale) == stale

\* Only the Fresh->Stale transition is a miss.
Misses(s, stale) == stale /\ ~stale_latched[s]

\* The freshness verdict of both take verbs.  A core that declares no deadline
\* has one that MaxTime does not reach.
Judge(s, r) ==
  LET stale == now - r.stamp > sub_qos[s].deadline IN
  /\ deadline_miss_count' =
       [deadline_miss_count EXCEPT ![s] = IF Misses(s, stale) THEN @ + 1 ELSE @]
  /\ stale_latched' = [stale_latched EXCEPT ![s] = stale]

\* TakeLatest reads the mailbox, then accounts for what it read.
LoadLatest(s) ==
  /\ IsLatest(s) /\ loaded[s] = NoRecord /\ latest[s] # NoRecord
  /\ loaded' = [loaded EXCEPT ![s] = latest[s]]
  /\ UNCHANGED <<queue, last_consumed_ordinal, overwrite_count, deadline_miss_count,
                 stale_latched, taken>>

\* D9: records overwritten between two consumed ordinals.
Gap(k, last) == k - last - 1

TakeLatest(s) ==
  /\ loaded[s] # NoRecord
  /\ LET k    == loaded[s].ordinal
         last == last_consumed_ordinal[s]
     IN IF k > last
        THEN /\ overwrite_count' = [overwrite_count EXCEPT ![s] = @ + Gap(k, last)]
             /\ last_consumed_ordinal' = [last_consumed_ordinal EXCEPT ![s] = k]
        ELSE UNCHANGED <<overwrite_count, last_consumed_ordinal>>
  /\ Judge(s, loaded[s])
  /\ taken' = [taken EXCEPT ![s] = @ \cup {loaded[s].ordinal}]
  /\ loaded' = [loaded EXCEPT ![s] = NoRecord]
  /\ UNCHANGED queue

TryTake(s) ==
  /\ ~IsLatest(s) /\ queue[s] # <<>>
  /\ queue' = [queue EXCEPT ![s] = Tail(@)]
  /\ Judge(s, Head(queue[s]))
  /\ taken' = [taken EXCEPT ![s] = @ \cup {Head(queue[s]).ordinal}]
  /\ UNCHANGED <<last_consumed_ordinal, loaded, overwrite_count>>

Take(s) ==
  /\ sub_pc[s] \in {"attached", "unconnected"}
  /\ LoadLatest(s) \/ TakeLatest(s) \/ TryTake(s)
  /\ UNCHANGED takeFrame

-----------------------------------------------------------------------------
Tick ==
  /\ now < MaxTime
  /\ now' = now + 1
  /\ UNCHANGED <<wiring, publisher_count, subscriber_count, declared_ownership, sub_slots,
                 writeVars, pubVars, subVars, boxVars, takeVars>>

Next ==
  \/ \E p \in Pubs : AddPublisher(p) \/ RemovePublisher(p) \/ Deliver(p)
  \/ \E s \in Subs : Seed(s) \/ Attach(s) \/ RemoveSubscriber(s) \/ Take(s)
  \/ Tick

Spec == Init /\ [][Next]_vars

-----------------------------------------------------------------------------
\* Properties.

PubStates == {"unborn", "refused", "idle", "closed", "precheck", "clock",
              "accept", "master", "load", "stamp", "store", "push", "count"}
SubStates == {"unborn", "seeded", "attached", "unconnected", "detached"}

TopicTypes ==
  /\ now \in Nat /\ wiring \in Subs \cup {None}
  /\ publisher_count \in Int /\ subscriber_count \in Int
  /\ declared_ownership \in {"kExclusive", "kShared"}
  /\ sub_slots \in [Slots -> Subs \cup {None}]
  /\ accepted_ordinal \in 0..MaxAccepted /\ master \in Record

PubTypes ==
  /\ pub_pc \in [Pubs -> PubStates] /\ pub_qos \in [Pubs -> PubQos]
  /\ record \in [Pubs -> Record] /\ cursor \in [Pubs -> Slots]
  /\ target \in [Pubs -> Subs \cup {None}]
  /\ shared_write_mutex \in Pubs \cup {None}

BoxTypes ==
  /\ sub_pc \in [Subs -> SubStates] /\ sub_qos \in [Subs -> SubQos]
  /\ latest \in [Subs -> Record] /\ queue \in [Subs -> Seq(Record)]
  /\ last_consumed_ordinal \in [Subs -> 0..kBaselineUnset]
  /\ drop_count \in [Subs -> Nat] /\ offered \in [Subs -> SUBSET Nat]

TakeTypes ==
  /\ loaded \in [Subs -> Record] /\ stale_latched \in [Subs -> BOOLEAN]
  /\ overwrite_count \in [Subs -> Nat] /\ deadline_miss_count \in [Subs -> Nat]
  /\ taken \in [Subs -> SUBSET Nat]

\* Every variable keeps its type: in particular counters never go negative, the
\* fan-out cursor stays in the table and a consumed ordinal is one that was drawn.
TypeOK == TopicTypes /\ PubTypes /\ BoxTypes /\ TakeTypes

\* D15: at most one publisher is ever inside Deliver, so every mailbox and
\* ring keeps its single writer: an exclusive publisher is alone on the topic
\* and takes no lock, declared-shared ones serialise on shared_write_mutex_.
SingleWriter == \A p, q \in Pubs : Delivering(p) /\ Delivering(q) => p = q

Registered == {p \in Pubs : pub_pc[p] \notin {"unborn", "refused", "closed"}}

\* The counts MatchedCount reads (D16) are the registered publishers and the
\* occupied fan-out slots, and no core sits in two slots.
MatchCounts ==
  /\ publisher_count = Cardinality(Registered)
  /\ subscriber_count = Cardinality({i \in Slots : sub_slots[i] # None})
  /\ \A i, j \in Slots : sub_slots[i] = sub_slots[j] /\ sub_slots[i] # None => i = j
  /\ \A s \in Subs : (\E i \in Slots : sub_slots[i] = s) <=> sub_pc[s] = "attached"

\* A reliable publish that passed the pre-check never finds a full ring: its
\* drop branch is dead, although consumers and subscribers that join or leave
\* race the fan-out.
ReliableRoom ==
  \A p \in Pubs : pub_pc[p] = "push" /\ Reliable(p) => ~Full(target[p])

\* M3-A2: every record offered to a queue subscriber was taken, waits in its
\* ring, or is in its drop_count.
QueueConservation ==
  \A s \in Subs : ~IsLatest(s) =>
    Cardinality(taken[s]) + Len(queue[s]) + drop_count[s] = Cardinality(offered[s])

\* M1-A1: from the first record a core is offered on, the fan-out offers it
\* every accepted record until it detaches; none is skipped.
NoSilentLoss ==
  \A s \in Subs :
    /\ \A a, b \in offered[s] : a..b \subseteq offered[s]
    /\ /\ offered[s] # {} /\ sub_pc[s] = "attached"
       /\ \A p \in Pubs : ~HasOrdinal(p)
       => /\ accepted_ordinal \in offered[s]
          /\ IsLatest(s) => latest[s] = master

\* Delivered records a later take skipped over and no take returned.
Missed(s) == {o \in offered[s] \ taken[s] : \E t \in taken[s] : o < t}

\* D9: overwrite_count counts the overwritten records, pre-join ones never.
\* One record more may be charged: the first delivered one, when a take had
\* already returned it as the warm-start seed.
OverwriteCount ==
  \A s \in Subs : IsLatest(s) =>
    LET seedRead == \E f \in offered[s] \cap taken[s] : \A o \in offered[s] : f <= o
    IN overwrite_count[s] \in Cardinality(Missed(s)) ..
                              Cardinality(Missed(s)) + (IF seedRead THEN 1 ELSE 0)

\* The mailbox of s as LatestBox sees it; a queue subscriber has none.
Box(s) == INSTANCE LatestBox WITH
  Records  <- 0..MaxAccepted,
  value    <- latest[s].ordinal,
  inhand   <- loaded[s].ordinal,
  returned <- IF IsLatest(s) THEN taken[s] ELSE {}

\* TakeLatest keeps the latest-only promise although seed, fan-out and take are
\* cut into steps and race: a mailbox never shows an older record again, a take
\* returns what it showed at one instant, and so a subscriber never goes back.
Conflates == (\A s \in Subs : Box(s)!Init) /\ [][\A s \in Subs : Box(s)!Step]_vars

\* D15 last-writer-wins: publish stamps order the records as ordinals do.
StampOrder ==
  \A s \in Subs :
    /\ latest[s].ordinal <= master.ordinal => latest[s].stamp <= master.stamp
    /\ \A i, j \in DOMAIN queue[s] :
         i < j => /\ queue[s][i].ordinal < queue[s][j].ordinal
                  /\ queue[s][i].stamp <= queue[s][j].stamp

\* D3: a record that went stale raises one deadline miss however often it is
\* taken again.
OneMissPerRecord ==
  \A s \in Subs : deadline_miss_count[s] <= Cardinality(taken[s])

\* scenarios.md M2: a late joiner "must warm-start from the current value,
\* not stare at emptiness until the next publish".
WarmStartCurrent ==
  (\A p \in Pubs : ~Delivering(p)) =>
    \A s \in Subs : sub_pc[s] = "attached" /\ IsLatest(s) => latest[s] = master
=============================================================================
