------------------------ MODULE ShmConflates_proofs ------------------------
(***************************************************************************)
(* ShmTopic implements LatestBox for each latest-only subscriber, whatever *)
(* the number of processes, slots, records and crashes.                    *)
(***************************************************************************)
EXTENDS ShmTopic_proofs

\* What a load of a cell yields, and who loads.
Readable(box) == ~box.torn /\ box # Empty
Reading(s)    == alive[s] /\ ~sub[s].queued /\ sub[s].pc \in {"active", "loaded"}

\* A live publisher between accepting a record and having delivered it.
Undelivered == {"accepted", "master", "load", "kind", "stamp", "begin", "store", "push"}
Carries(p)  == alive[p] /\ pub[p].pc \in Undelivered

\* Every record in a cell or a cache was drawn from the segment's counter, and
\* the one live writer carries the newest.
DrawnInv ==
  /\ accepted_ordinal \in 0..MaxAccepted /\ master.ordinal <= accepted_ordinal
  /\ \A j \in Slots : slot[j].box.ordinal <= accepted_ordinal
  /\ \A s \in Subs : sub[s].cached <= accepted_ordinal
  /\ \A p \in Pubs : Carries(p) => pub[p].ordinal = accepted_ordinal

Before == SubPcs \ {"active", "loaded", "detaching", "closed"}

\* A subscriber has a record in hand inside a take only, and nothing to fall back
\* to before its slot is active.
HandAt(s) ==
  /\ taken[s] \in SUBSET Nat
  /\ sub[s].pc \in Before => sub[s].cached = 0 /\ taken[s] = {}
  /\ IF sub[s].pc = "loaded" THEN sub[s].record # 0 /\ ~sub[s].queued ELSE sub[s].record = 0

\* In a slot that was not claimed in a race the cache is the newest record its
\* reader has seen, and a readable mailbox shows nothing older.
SeenAt(s) ==
  LET at == slot[sub[s].i] IN
  Reading(s) /\ ~at.raced =>
    /\ sub[s].cached \in taken[s] \cup {sub[s].record, 0}
    /\ sub[s].record <= sub[s].cached /\ \A r \in taken[s] : r <= sub[s].cached
    /\ Readable(at.box) => sub[s].cached <= at.box.ordinal

TakenTypes == taken \in [Subs -> SUBSET Nat]

ShownInv == TakenTypes /\ DrawnInv /\ \A s \in Subs : HandAt(s) /\ SeenAt(s)

\* What each step makes of a subscriber's mailbox.
KeepsAt(s) == /\ HandAt(s)' /\ SeenAt(s)'
              /\ slot'[sub'[s].i].raced \/ Box(s)!CrashStep

-----------------------------------------------------------------------------
\* Steps of one mailbox.

\* What LatestBox sees of a subscriber.
Shown(s) ==
  LET box == slot[sub[s].i].box
  IN IF Reading(s) /\ Readable(box) THEN box.ordinal ELSE sub[s].cached
Returned(s) == IF sub[s].queued THEN {} ELSE taken[s]

LEMMA ShownDrawn ==
  ASSUME SlotTypes, DrawnInv, NEW s \in Subs
  PROVE  Shown(s) \in 0..MaxAccepted /\ Shown(s) <= accepted_ordinal
<1>1. Shown(s) \in Nat /\ sub[s].i \in Slots
  BY DEF SlotTypes, SlotRecord, SubRecord, Cell, Shown
<1>2. Shown(s) <= accepted_ordinal
  BY <1>1 DEF DrawnInv, Shown
<1> QED
  BY <1>1, <1>2, ShmAssumption DEF DrawnInv

\* The same of the next state.
LEMMA ShownDrawnNext ==
  ASSUME SlotTypes', DrawnInv', NEW s \in Subs
  PROVE  Shown(s)' \in 0..MaxAccepted
<1>1. Shown(s)' \in Nat /\ sub'[s].i \in Slots
  BY DEF SlotTypes, SlotRecord, SubRecord, Cell, Shown
<1>2. Shown(s)' <= accepted_ordinal'
  BY <1>1 DEF DrawnInv, Shown
<1> QED
  BY <1>1, <1>2, ShmAssumption DEF DrawnInv

\* The mailbox moves on, or falls back to what its reader has seen.
LEMMA BoxMoves ==
  ASSUME NEW s \in Subs, NEW v \in Nat, NEW w \in 0..MaxAccepted, Shown(s) = v, Shown(s)' = w,
         sub'[s].record = sub[s].record, Returned(s)' = Returned(s),
         \/ w >= v
         \/ /\ w \in Returned(s) \cup {sub[s].record, 0}
            /\ sub[s].record <= w /\ \A r \in Returned(s) : r <= w
  PROVE  Box(s)!CrashStep
<1>1. CASE w = v
  BY <1>1 DEF Shown, Returned, Reading, Readable, Box!CrashStep, Box!vars
<1>2. CASE w > v
  BY <1>2 DEF Shown, Returned, Reading, Readable, Box!CrashStep, Box!CrashNext, Box!Next, Box!Post
<1>3. CASE w < v
  BY <1>3 DEF Shown, Returned, Reading, Readable, Box!CrashStep, Box!CrashNext, Box!Withdraw
<1> QED
  BY <1>1, <1>2, <1>3, ShmAssumption

LEMMA BoxReads ==
  ASSUME NEW s \in Subs, sub[s].record = 0, Shown(s) # 0, sub'[s].record = Shown(s),
         Shown(s)' = Shown(s), Returned(s)' = Returned(s)
  PROVE  Box(s)!CrashStep
BY DEF Shown, Returned, Reading, Readable, Box!CrashStep, Box!CrashNext, Box!Next, Box!Read

LEMMA BoxReturns ==
  ASSUME NEW s \in Subs, sub[s].record # 0, sub'[s].record = 0, Shown(s)' = Shown(s),
         Returned(s)' = Returned(s) \cup {sub[s].record}
  PROVE  Box(s)!CrashStep
BY DEF Shown, Returned, Reading, Readable, Box!CrashStep, Box!CrashNext, Box!Next, Box!Return

-----------------------------------------------------------------------------
\* A step that is not the subscriber's own, its crash included: either its
\* mailbox is as it was, or unreadable, or it shows the newest record.
LEMMA Watched ==
  ASSUME SlotTypes, SlotTypes', DrawnInv, DrawnInv', NEW s \in Subs, HandAt(s), SeenAt(s),
         sub'[s] = sub[s], taken'[s] = taken[s], alive'[s] => alive[s],
         Reading(s) /\ ~slot'[sub[s].i].raced =>
           /\ ~slot[sub[s].i].raced
           /\ \/ slot'[sub[s].i].box = slot[sub[s].i].box
              \/ ~Readable(slot'[sub[s].i].box)
              \/ slot'[sub[s].i].box.ordinal = accepted_ordinal
  PROVE  KeepsAt(s)
<1>1. HandAt(s)'
  BY DEF HandAt
<1>2. Shown(s) \in Nat /\ Shown(s)' \in 0..MaxAccepted /\ Shown(s) <= accepted_ordinal
  BY ShownDrawn, ShownDrawnNext
<1>3. Reading(s)' => Reading(s)
  BY DEF Reading
<1>4. SeenAt(s)'
  BY <1>3 DEF SeenAt, DrawnInv
<1>5. sub'[s].record = sub[s].record /\ Returned(s)' = Returned(s)
  BY DEF Returned
<1>6. CASE ~Reading(s)
  <2>1. Shown(s)' = Shown(s)
    BY <1>3, <1>6 DEF Shown
  <2> QED
    BY <1>1, <1>2, <1>4, <1>5, <2>1, BoxMoves, ShmAssumption DEF KeepsAt
<1>7. CASE Reading(s) /\ ~slot'[sub[s].i].raced
  <2>1. \/ Shown(s)' = Shown(s) \/ Shown(s)' = accepted_ordinal \/ Shown(s)' = sub[s].cached
    BY <1>3, <1>7 DEF Shown, Reading
  <2>2. /\ sub[s].cached \in Returned(s) \cup {sub[s].record, 0}
        /\ sub[s].record <= sub[s].cached /\ \A r \in Returned(s) : r <= sub[s].cached
    BY <1>7 DEF SeenAt, Returned, Reading
  <2> QED
    BY <1>1, <1>2, <1>4, <1>5, <2>1, <2>2, BoxMoves, ShmAssumption DEF KeepsAt
<1> QED
  BY <1>1, <1>4, <1>6, <1>7 DEF KeepsAt

-----------------------------------------------------------------------------
\* Steps of a publisher.

\* It stores the newest record, or leaves a cell as it was or unreadable.
LEMMA PubCells ==
  ASSUME PubInv, SlotTypes, DrawnInv, NEW p \in Pubs, Publisher(p), NEW j \in Slots
  PROVE  /\ slot'[j].raced = slot[j].raced
         /\ \/ slot'[j].box = slot[j].box
            \/ ~Readable(slot'[j].box) /\ slot'[j].box.ordinal <= slot[j].box.ordinal
            \/ slot'[j].box.ordinal = accepted_ordinal /\ UNCHANGED accepted_ordinal
<1> DEFINE i == pub[p].i
<1>0. /\ i \in Slots /\ slot[i].box \in Cell /\ slot[i].box.ordinal \in Nat
      /\ Empty.ordinal = 0 /\ ~Readable(Empty)
  BY DEF SlotTypes, SlotRecord, Cell, Empty, Readable
<1>1. CASE RepairMailbox(p)
  <2>1. PICK box \in Cell : /\ Put(i, [slot[i] EXCEPT !.box = box])
                            /\ box \in {slot[i].box, Empty}
    BY <1>1, RepairMailboxSlot
  <2>2. /\ slot'[i].box = box /\ \A k \in Slots : k # i => slot'[k] = slot[k]
        /\ \A k \in Slots : slot'[k].raced = slot[k].raced
    BY <2>1, CellPut
  <2> QED
    BY <1>0, <2>1, <2>2
<1>2. CASE StoreBegins(p)
  <2>1. PICK box \in Cell : /\ Put(i, [slot[i] EXCEPT !.box = box])
                            /\ box.torn /\ box.ordinal = slot[i].box.ordinal
    BY <1>2, StoreBeginsSlot
  <2>2. /\ slot'[i].box = box /\ \A k \in Slots : k # i => slot'[k] = slot[k]
        /\ \A k \in Slots : slot'[k].raced = slot[k].raced
    BY <2>1, CellPut
  <2> QED
    BY <1>0, <2>1, <2>2 DEF Readable
<1>3. CASE StoreEnds(p)
  <2>1. PICK box \in Cell : /\ Put(i, [slot[i] EXCEPT !.box = box])
                            /\ box.ordinal = pub[p].ordinal
    BY <1>3, StoreEndsSlot
  <2>2. /\ slot'[i].box = box /\ \A k \in Slots : k # i => slot'[k] = slot[k]
        /\ \A k \in Slots : slot'[k].raced = slot[k].raced
    BY <2>1, CellPut
  <2>3. pub[p].ordinal = accepted_ordinal /\ UNCHANGED accepted_ordinal
    BY <1>3 DEF StoreEnds, PubAt, Carries, Undelivered, DrawnInv, header
  <2> QED
    BY <1>0, <2>1, <2>2, <2>3
<1>4. CASE StampBaseline(p) \/ Push(p)
  BY <1>4, StampBaselineSlot, PushSlot DEF Alike
<1>5. CASE UNCHANGED slot
  BY <1>5
<1> QED
  BY <1>1, <1>2, <1>3, <1>4, <1>5 DEF Publisher, ClaimPublisherSlot, ProbeOwner, ReclaimPublisher,
     RepairMaster, RepairLoad, ReleasePublisher, Publish, MasterStoreBegins, MasterStoreEnds,
     LoadState, LoadKind

\* Only the one live owner draws an ordinal, and nobody else carries one then.
LEMMA PubCarries ==
  ASSUME PubInv, SlotTypes, DrawnInv, NEW p \in Pubs, Publisher(p)
  PROVE  \A q \in Pubs : Carries(q)' => pub'[q].ordinal = accepted_ordinal'
<1>0. UNCHANGED alive /\ accepted_ordinal \in Nat
  BY ShmAssumption DEF Publisher, life, PubInv, PidTypes
<1>1. ASSUME OthersPub(p), UNCHANGED accepted_ordinal,
             \/ pub'[p].pc \notin Undelivered
             \/ alive[p] /\ pub[p].pc \in Undelivered /\ pub'[p].ordinal = pub[p].ordinal
      PROVE  \A q \in Pubs : Carries(q)' => pub'[q].ordinal = accepted_ordinal'
  BY <1>0, <1>1 DEF Carries, OthersPub, DrawnInv
<1>2. CASE ClaimPublisherSlot(p) \/ ProbeOwner(p) \/ ReclaimPublisher(p) \/ ReleasePublisher(p)
           \/ RepairMaster(p)
  <2>1. UNCHANGED accepted_ordinal
    BY <1>2 DEF ClaimPublisherSlot, ProbeOwner, ReclaimPublisher, ReleasePublisher, RepairMaster,
       header
  <2>2. \/ \E x \in {"reclaim", "refused", "claimed", "closed", "repair"} : PubGoto(p, x)
        \/ pub' = [pub EXCEPT ![p].pc = "probe", ![p].expected = pub_pid]
    BY <1>2 DEF ClaimPublisherSlot, ProbeOwner, ReclaimPublisher, ReleasePublisher, RepairMaster
  <2>3. OthersPub(p) /\ pub'[p].pc \notin Undelivered
    BY <2>2 DEF PubInv, PidTypes, PubRecord, PubGoto, OthersPub, Undelivered
  <2> QED
    BY <1>1, <2>1, <2>3
<1>3. CASE RepairLoad(p) \/ RepairMailbox(p)
  <2>1. UNCHANGED accepted_ordinal
    BY <1>3 DEF RepairLoad, RepairMailbox, header
  <2>2. PubGoto(p, "mend") \/ PubAdvance(p, "repair", "idle")
    BY <1>3 DEF RepairLoad, RepairMailbox
  <2>3. OthersPub(p) /\ pub'[p].pc \notin Undelivered
    BY <2>2, GotoPub, AdvancePub DEF PubPcs, Undelivered
  <2> QED
    BY <1>1, <2>1, <2>3
<1>4. CASE Publish(p)
  <2>1. alive[p] /\ Owner(p) /\ accepted_ordinal' = accepted_ordinal + 1
    BY <1>4 DEF Publish, PubAt, Owner
  <2>2. OthersPub(p) /\ pub'[p].ordinal = accepted_ordinal'
    BY <1>4, <2>1 DEF Publish, NextOrdinal, PubInv, PidTypes, PubRecord, OthersPub
  <2>3. \A q \in Pubs : Carries(q) => q = p
    BY <2>1 DEF PubInv, OwnerInv, Owner, Carries, Undelivered
  <2> QED
    BY <1>0, <2>2, <2>3 DEF Carries, OthersPub
<1>5. CASE \/ MasterStoreBegins(p) \/ MasterStoreEnds(p) \/ LoadState(p) \/ LoadKind(p)
           \/ StampBaseline(p) \/ StoreBegins(p) \/ StoreEnds(p) \/ Push(p)
  <2>1. UNCHANGED accepted_ordinal /\ alive[p] /\ pub[p].pc \in Undelivered
    BY <1>5 DEF MasterStoreBegins, MasterStoreEnds, LoadState, LoadKind, StampBaseline,
       StoreBegins, StoreEnds, Push, header, PubAt, Undelivered
  <2>2. \/ \E x \in Undelivered : PubGoto(p, x)
        \/ PubAdvance(p, "load", "idle")
    BY <1>5 DEF MasterStoreBegins, MasterStoreEnds, LoadState, LoadKind, StampBaseline,
       StoreBegins, StoreEnds, Push, Undelivered
  <2>3. OthersPub(p) /\ pub'[p].ordinal = pub[p].ordinal
    BY <2>2, GotoPub, AdvancePub DEF PubPcs, Undelivered
  <2> QED
    BY <1>1, <2>1, <2>3
<1> QED
  BY <1>2, <1>3, <1>4, <1>5 DEF Publisher

LEMMA PubDraws ==
  ASSUME PubInv, SlotTypes, SlotTypes', DrawnInv, NEW p \in Pubs, Publisher(p)
  PROVE  DrawnInv'
<1>0. /\ accepted_ordinal \in 0..MaxAccepted /\ UNCHANGED sub /\ MaxAccepted \in Nat
      /\ master \in Cell /\ sub \in [Subs -> SubRecord]
  BY ShmAssumption DEF Publisher, DrawnInv, SlotTypes
<1>1. /\ accepted_ordinal' \in 0..MaxAccepted /\ accepted_ordinal <= accepted_ordinal'
      /\ master'.ordinal <= accepted_ordinal'
  <2>1. CASE Publish(p)
    BY <1>0, <2>1 DEF Publish, DrawnInv, Cell
  <2>2. CASE RepairMaster(p)
    BY <1>0, <2>2 DEF RepairMaster, MasterRestored, Repaired, Empty, DrawnInv
  <2>3. CASE MasterStoreBegins(p)
    BY <1>0, <2>3 DEF MasterStoreBegins, DrawnInv, Cell
  <2>4. CASE MasterStoreEnds(p)
    BY <1>0, <2>4 DEF MasterStoreEnds, DrawnInv, PubAt, Carries, Undelivered
  <2>5. CASE UNCHANGED <<accepted_ordinal, master>>
    BY <1>0, <2>5 DEF DrawnInv
  <2> QED
    BY <2>1, <2>2, <2>3, <2>4, <2>5 DEF Publisher, ClaimPublisherSlot, ProbeOwner,
       ReclaimPublisher, RepairLoad, RepairMailbox, ReleasePublisher, LoadState, LoadKind,
       StampBaseline, StoreBegins, StoreEnds, Push, header
<1>2. ASSUME NEW j \in Slots PROVE slot'[j].box.ordinal <= accepted_ordinal'
  <2>1. slot[j].box.ordinal \in Nat /\ slot'[j].box.ordinal \in Nat
    BY DEF SlotTypes, SlotRecord, Cell
  <2> QED
    BY <1>0, <1>1, <2>1, PubCells DEF DrawnInv
<1>3. \A s \in Subs : sub'[s].cached <= accepted_ordinal'
  BY <1>0, <1>1 DEF DrawnInv, SubRecord
<1> QED
  BY <1>1, <1>2, <1>3, PubCarries DEF DrawnInv

-----------------------------------------------------------------------------
\* Steps of a subscriber.

\* It writes the slot it holds, or claims one and records who was there.
LEMMA SubCellsOf ==
  ASSUME SlotTypes, NEW t \in Subs, Subscriber(t), NEW j \in Slots
  PROVE  /\ slot'[j].box \in {slot[j].box, Empty, master}
         /\ \/ slot'[j].box = slot[j].box /\ slot'[j].raced = slot[j].raced
            \/ j = sub[t].i /\ slot'[j].box = slot[j].box /\ (Occupied(j) => slot'[j].raced)
            \/ j = sub[t].i /\ alive[t] /\ Holding(t) /\ slot'[j].raced = slot[j].raced
<1> DEFINE i == sub[t].i
           full == Occupied(i)
           busy == Occupied(i) \/ \E p \in Pubs : Inside(p, i)
<1>0. i \in Slots
  BY DEF SlotTypes, SubRecord
<1>1. CASE ClaimSubscriberSlot(t) \/ ReclaimSlot(t)
  <2>1. UNCHANGED slot \/ ClaimSlot(i, full) \/ ClaimSlot(i, busy)
    BY <1>1 DEF ClaimSubscriberSlot, ReclaimSlot
  <2>2. full \in BOOLEAN /\ busy \in BOOLEAN /\ (Occupied(i) => full) /\ (Occupied(i) => busy)
    BY DEF Occupied
  <2> HIDE DEF full, busy
  <2> QED
    BY <1>0, <2>1, <2>2, ClaimSlotSlot
<1>2. CASE InitSlot(t)
  <2>1. PICK r \in SlotRecord :
          Put(i, r) /\ r.raced = slot[i].raced /\ r.box \in {slot[i].box, Empty}
    BY <1>2, InitSlotSlot
  <2>2. slot'[i] = r /\ \A k \in Slots : k # i => slot'[k] = slot[k]
    BY <1>0, <2>1, PutSlot
  <2>3. alive[t] /\ Holding(t)
    BY <1>2 DEF InitSlot, SubAt, Holding, Claiming
  <2> QED
    BY <2>1, <2>2, <2>3
<1>3. CASE SeedSlot(t)
  <2>1. CASE slot' = slot
    BY <2>1
  <2>2. CASE Put(i, [slot[i] EXCEPT !.box = master])
    <3> DEFINE r == [slot[i] EXCEPT !.box = master]
    <3>1. r \in SlotRecord /\ r.box = master /\ r.raced = slot[i].raced
      BY <1>0, SlotBox DEF SlotTypes
    <3>2. Put(i, r)
      BY <2>2
    <3> HIDE DEF r
    <3>3. slot'[i] = r /\ \A k \in Slots : k # i => slot'[k] = slot[k]
      BY <1>0, <3>1, <3>2, PutSlot
    <3>4. alive[t] /\ Holding(t)
      BY <1>3 DEF SeedSlot, SubAt, Holding, Claiming
    <3> QED
      BY <3>1, <3>3, <3>4
  <2> QED
    BY <1>3, <2>1, <2>2, SeedSlotSlot
<1>4. CASE Activate(t) \/ DetachState(t)
  BY <1>4, StateSlot DEF Activate, DetachState
<1>5. CASE DetachPid(t) \/ TakeLatest(t) \/ TryTake(t)
  BY <1>5, DetachPidSlot, TakeLatestSlot, TryTakeSlot DEF Alike
<1>6. CASE UNCHANGED slot
  BY <1>6
<1> QED
  BY <1>1, <1>2, <1>3, <1>4, <1>5, <1>6 DEF Subscriber, ProbeHolder, GraceBegins, GraceEnds,
     LoadLatest

\* The steps that read and return nothing.
LEMMA SubQuiet ==
  ASSUME SlotTypes, NEW t \in Subs, Subscriber(t),
         ~LoadLatest(t), ~TakeLatest(t), ~TryTake(t)
  PROVE  /\ SameBut(t) /\ SameHand(t) /\ UNCHANGED taken
         /\ \/ sub[t].pc \in Before /\ sub'[t].pc \in Before
            \/ Activate(t) /\ sub'[t].pc = "active" /\ sub'[t].i = sub[t].i
            \/ DetachState(t) /\ sub'[t].pc = "detaching" /\ sub'[t].i = sub[t].i
            \/ DetachPid(t) /\ sub'[t].pc = "closed" /\ sub'[t].i = sub[t].i
<1>0. UNCHANGED taken
  BY DEF Subscriber, ClaimSubscriberSlot, ProbeHolder, ReclaimSlot, GraceBegins, GraceEnds,
     InitSlot, SeedSlot, Activate, DetachState, DetachPid, past
<1>1. CASE Activate(t)
  BY <1>0, <1>1, GotoSub DEF Activate, SubPcs
<1>2. CASE DetachState(t)
  BY <1>0, <1>2, GotoSub DEF DetachState, SubPcs
<1>3. CASE DetachPid(t)
  BY <1>0, <1>3, GotoSub DEF DetachPid, SubPcs
<1>4. CASE GraceBegins(t) /\ NeedsGrace
  <2> DEFINE r == [sub[t] EXCEPT !.pc = "wait", !.start = accepted_ordinal]
  <2>1. sub' = [sub EXCEPT ![t] = r]
    BY <1>4 DEF GraceBegins
  <2>2. /\ r.pc = "wait" /\ r.cached = sub[t].cached /\ r.record = sub[t].record
        /\ r.queued = sub[t].queued
    BY DEF SlotTypes, SubRecord
  <2> HIDE DEF r
  <2> QED
    BY <1>0, <1>4, <2>1, <2>2
       DEF SlotTypes, SameBut, SameHand, GraceBegins, SubAt, Before, SubPcs
<1>5. CASE \/ ClaimSubscriberSlot(t) \/ ProbeHolder(t) \/ ReclaimSlot(t) \/ GraceEnds(t)
           \/ InitSlot(t) \/ SeedSlot(t) \/ (GraceBegins(t) /\ ~NeedsGrace)
  <2>1. sub[t].pc \in Before
    BY <1>5 DEF ClaimSubscriberSlot, ProbeHolder, ReclaimSlot, GraceBegins, GraceEnds, InitSlot,
       SeedSlot, SubAt, Before, SubPcs
  <2>2. NextSlot(t) \/ \E x \in Before : SubGoto(t, x)
    BY <1>5 DEF ClaimSubscriberSlot, ProbeHolder, ReclaimSlot, GraceBegins, GraceEnds, InitSlot,
       SeedSlot, Before, SubPcs
  <2>3. SameBut(t) /\ SameHand(t) /\ sub'[t].pc \in Before
    BY <2>2, GotoSub, NextSlotSub DEF Before, SubPcs
  <2> QED
    BY <1>0, <2>1, <2>3
<1> QED
  BY <1>1, <1>2, <1>3, <1>4, <1>5 DEF Subscriber

\* A load reads what the mailbox shows, and keeps it.
LEMMA SubLoads ==
  ASSUME SlotTypes, NEW t \in Subs, Subscriber(t), LoadLatest(t)
  PROVE  /\ SameBut(t) /\ UNCHANGED <<slot, taken>> /\ alive[t] /\ ~sub[t].queued
         /\ sub[t].pc = "active" /\ Shown(t) # 0
         /\ sub'[t].pc = "loaded" /\ sub'[t].i = sub[t].i /\ sub'[t].queued = sub[t].queued
         /\ sub'[t].cached = Shown(t) /\ sub'[t].record = Shown(t)
<1> DEFINE box == slot[sub[t].i].box
           got == IF box.torn \/ box = Empty THEN sub[t].cached ELSE box.ordinal
           r == [sub[t] EXCEPT !.pc = "loaded", !.cached = got, !.record = got]
<1>1. /\ UNCHANGED <<slot, taken>> /\ alive[t] /\ ~sub[t].queued /\ sub[t].pc = "active"
      /\ got # 0
  BY DEF LoadLatest, SubAt, past
<1>2. got = Shown(t)
  BY <1>1 DEF Shown, Reading, Readable
<1>3. sub' = [sub EXCEPT ![t] = r]
  BY DEF LoadLatest, Refreshed
<1> HIDE DEF got
<1>4. /\ r.pc = "loaded" /\ r.i = sub[t].i /\ r.queued = sub[t].queued
      /\ r.cached = got /\ r.record = got
  BY DEF SlotTypes, SubRecord
<1> HIDE DEF r
<1> QED
  BY <1>1, <1>2, <1>3, <1>4 DEF SlotTypes, SameBut

LEMMA SubReturns ==
  ASSUME SlotTypes, NEW t \in Subs, Subscriber(t), TakeLatest(t)
  PROVE  /\ SameBut(t) /\ alive[t] /\ sub[t].pc = "loaded" /\ sub'[t].pc = "active"
         /\ sub'[t].i = sub[t].i /\ sub'[t].queued = sub[t].queued
         /\ sub'[t].cached = sub[t].cached /\ sub'[t].record = 0
         /\ taken' = [taken EXCEPT ![t] = taken[t] \cup {sub[t].record}]
         /\ \A j \in Slots : Alike(slot'[j], slot[j])
<1> DEFINE r == [sub[t] EXCEPT !.pc = "active", !.record = 0]
<1>1. /\ alive[t] /\ sub[t].pc = "loaded"
      /\ taken' = [taken EXCEPT ![t] = taken[t] \cup {sub[t].record}]
  BY DEF TakeLatest, SubAt
<1>2. sub' = [sub EXCEPT ![t] = r]
  BY DEF TakeLatest
<1>3. /\ r.pc = "active" /\ r.i = sub[t].i /\ r.queued = sub[t].queued
      /\ r.cached = sub[t].cached /\ r.record = 0
  BY DEF SlotTypes, SubRecord
<1> HIDE DEF r
<1> QED
  BY <1>1, <1>2, <1>3, TakeLatestSlot DEF SlotTypes, SameBut

LEMMA SubPops ==
  ASSUME SlotTypes, NEW t \in Subs, Subscriber(t), TryTake(t)
  PROVE  /\ UNCHANGED sub /\ sub[t].queued /\ sub[t].pc = "active"
         /\ \E k \in Nat : taken' = [taken EXCEPT ![t] = taken[t] \cup {k}]
<1> DEFINE i == sub[t].i
           takes == slot[i].takes + 1
           at == [slot[i] EXCEPT !.takes = takes]
<1>1. slot[i] \in SlotRecord
  BY DEF SlotTypes, SubRecord
<1>2. /\ UNCHANGED sub /\ sub[t].queued /\ sub[t].pc = "active" /\ at.ring # <<>>
      /\ taken' = [taken EXCEPT ![t] = taken[t] \cup {Head(at.ring)}]
  BY DEF TryTake, FillSample, SubAt
<1>3. at.ring \in Seq(Nat)
  BY <1>1 DEF SlotRecord
<1> HIDE DEF at
<1>4. Head(at.ring) \in Nat
  BY <1>2, <1>3
<1> QED
  BY <1>2, <1>4

LEMMA SubDraws ==
  ASSUME SlotTypes, SlotTypes', DrawnInv, NEW t \in Subs, Subscriber(t)
  PROVE  DrawnInv'
<1>0. UNCHANGED <<alive, accepted_ordinal, master, pub>> /\ accepted_ordinal \in 0..MaxAccepted
  BY DEF Subscriber, life, header, DrawnInv
<1>1. \A j \in Slots : slot'[j].box.ordinal <= accepted_ordinal
  BY <1>0, SubCellsOf, ShmAssumption DEF DrawnInv, Empty
<1>2. \A s \in Subs : sub'[s].cached <= accepted_ordinal
  BY SubQuiet, SubLoads, SubReturns, SubPops, ShownDrawn DEF SameBut, SameHand, DrawnInv
<1> QED
  BY <1>0, <1>1, <1>2 DEF DrawnInv, Carries

\* What a subscriber's own step makes of its mailbox.
LEMMA Own ==
  ASSUME SlotTypes, SlotTypes', DrawnInv, DrawnInv', NEW t \in Subs, HandAt(t), SeenAt(t),
         Subscriber(t), TakenTypes
  PROVE  KeepsAt(t)
<1> DEFINE i == sub[t].i
<1>0. /\ i \in Slots /\ UNCHANGED alive /\ slot[i].box \in Cell
      /\ Shown(t) \in Nat /\ Shown(t)' \in 0..MaxAccepted
  <2>1. i \in Slots /\ slot[i].box \in Cell
    BY DEF SlotTypes, SubRecord, SlotRecord
  <2>2. UNCHANGED alive
    BY DEF Subscriber, life
  <2>3. Shown(t) \in Nat
    BY ShownDrawn
  <2>4. Shown(t)' \in 0..MaxAccepted
    BY ShownDrawnNext
  <2> QED
    BY <2>1, <2>2, <2>3, <2>4
<1>1. CASE sub[t].pc \in Before /\ sub'[t].pc \in Before /\ SameHand(t) /\ UNCHANGED taken
  <2>1. ~Reading(t) /\ ~Reading(t)'
    BY <1>1 DEF Reading, Before
  <2>2. Shown(t)' = Shown(t) /\ Returned(t)' = Returned(t) /\ sub'[t].record = sub[t].record
    BY <1>1, <2>1 DEF Shown, Returned, SameHand
  <2>3. HandAt(t)' /\ SeenAt(t)'
    BY <1>1, <2>1 DEF HandAt, SeenAt, SameHand, Before
  <2> QED
    BY <1>0, <2>2, <2>3, BoxMoves DEF KeepsAt
<1>2. CASE Activate(t) /\ sub'[t].pc = "active" /\ SameHand(t) /\ UNCHANGED taken
  <2>1. /\ sub[t].pc = "activate" /\ sub[t].cached = 0 /\ sub[t].record = 0 /\ taken[t] = {}
    BY <1>2 DEF Activate, SubAt, HandAt, Before, SubPcs
  <2>2. sub'[t].cached = 0 /\ sub'[t].record = 0 /\ taken'[t] = {}
    BY <1>2, <2>1 DEF SameHand
  <2>3. Shown(t) = 0 /\ Returned(t)' = Returned(t)
    BY <1>2, <2>1 DEF Shown, Reading, Returned, SameHand
  <2>4. HandAt(t)'
    BY <1>2, <2>2 DEF HandAt, Before
  <2>5. slot'[sub'[t].i].box.ordinal \in Nat
    BY DEF SlotTypes, SlotRecord, SubRecord, Cell
  <2>6. SeenAt(t)'
    BY <2>2, <2>5 DEF SeenAt
  <2> QED
    BY <1>0, <2>1, <2>2, <2>3, <2>4, <2>6, BoxMoves, ShmAssumption DEF KeepsAt
<1>3. CASE (DetachState(t) \/ DetachPid(t)) /\ sub'[t].pc \in {"detaching", "closed"}
           /\ sub'[t].i = i /\ SameHand(t) /\ UNCHANGED taken
  <2>1. ~Reading(t)'
    BY <1>3 DEF Reading
  <2>2. /\ sub[t].pc \in {"active", "detaching"} /\ sub[t].record = 0 /\ sub'[t].record = 0
    BY <1>3 DEF DetachState, DetachPid, SubAt, HandAt, SameHand
  <2>3. HandAt(t)' /\ SeenAt(t)'
    BY <1>3, <2>1, <2>2 DEF HandAt, SeenAt, Before
  <2>4. /\ Shown(t)' = sub[t].cached /\ Returned(t)' = Returned(t)
        /\ Shown(t) = sub[t].cached \/ Reading(t)
    BY <1>3, <2>1 DEF Shown, Returned, SameHand
  <2>5. slot'[i].raced = slot[i].raced
    BY <1>0, <1>3, StateSlot, DetachPidSlot DEF DetachState, Alike
  <2>6. Reading(t) /\ ~slot[i].raced =>
          /\ sub[t].cached \in Returned(t) \cup {sub[t].record, 0}
          /\ sub[t].record <= sub[t].cached /\ \A r \in Returned(t) : r <= sub[t].cached
    BY DEF SeenAt, Returned, Reading
  <2> QED
    BY <1>0, <1>3, <2>2, <2>3, <2>4, <2>5, <2>6, BoxMoves, ShmAssumption DEF KeepsAt
<1>4. CASE LoadLatest(t)
  <2>1. /\ UNCHANGED <<slot, taken>> /\ alive[t] /\ ~sub[t].queued /\ sub[t].pc = "active"
        /\ Shown(t) # 0 /\ sub'[t].pc = "loaded" /\ sub'[t].i = i /\ ~sub'[t].queued
        /\ sub'[t].cached = Shown(t) /\ sub'[t].record = Shown(t)
    BY <1>4, SubLoads
  <2>2. sub[t].record = 0 /\ Reading(t)
    BY <2>1 DEF HandAt, Reading
  <2>3. Shown(t)' = Shown(t) /\ Returned(t)' = Returned(t)
    BY <1>0, <2>1, <2>2 DEF Shown, Reading, Returned
  <2>4. HandAt(t)'
    BY <2>1 DEF HandAt, Before
  <2>5. ~slot[i].raced => \A r \in taken[t] : r <= Shown(t)
    <3>1. sub[t].cached \in Nat /\ slot[i].box.ordinal \in Nat /\ taken[t] \in SUBSET Nat
      BY <1>0 DEF SlotTypes, SubRecord, Cell, HandAt
    <3> QED
      BY <2>2, <3>1 DEF SeenAt, Shown
  <2>6. Readable(slot[i].box) => Shown(t) = slot[i].box.ordinal
    BY <2>2 DEF Shown
  <2>7. SeenAt(t)'
    BY <1>0, <2>1, <2>5, <2>6 DEF SeenAt
  <2> QED
    BY <2>1, <2>2, <2>3, <2>4, <2>7, BoxReads DEF KeepsAt
<1>5. CASE TakeLatest(t)
  <2>1. /\ alive[t] /\ sub[t].pc = "loaded" /\ sub'[t].pc = "active" /\ sub'[t].i = i
        /\ sub'[t].queued = sub[t].queued
        /\ sub'[t].cached = sub[t].cached /\ sub'[t].record = 0
        /\ taken' = [taken EXCEPT ![t] = taken[t] \cup {sub[t].record}]
        /\ slot'[i].box = slot[i].box /\ slot'[i].raced = slot[i].raced
    BY <1>0, <1>5, SubReturns DEF Alike
  <2>2. /\ sub[t].record # 0 /\ ~sub[t].queued /\ taken'[t] = taken[t] \cup {sub[t].record}
    BY <2>1 DEF HandAt, TakenTypes
  <2>3. Shown(t)' = Shown(t) /\ Returned(t)' = Returned(t) \cup {sub[t].record}
    BY <1>0, <2>1, <2>2 DEF Shown, Reading, Returned
  <2>4. sub[t].record \in Nat /\ sub[t].cached \in Nat
    BY DEF SlotTypes, SubRecord
  <2>5. HandAt(t)'
    BY <2>1, <2>2, <2>4 DEF HandAt, Before
  <2>6. SeenAt(t)'
    BY <1>0, <2>1, <2>2, <2>4 DEF SeenAt, Reading
  <2> QED
    BY <2>1, <2>2, <2>3, <2>5, <2>6, BoxReturns DEF KeepsAt
<1>6. CASE TryTake(t)
  <2>1. UNCHANGED sub /\ sub[t].queued /\ sub[t].pc = "active"
    BY <1>6, SubPops
  <2>2. taken'[t] \in SUBSET Nat
    BY <1>6, SubPops DEF TakenTypes
  <2>3. ~Reading(t) /\ ~Reading(t)'
    BY <2>1 DEF Reading
  <2>4. Shown(t)' = Shown(t) /\ Returned(t)' = Returned(t) /\ sub'[t].record = sub[t].record
    BY <2>1, <2>3 DEF Shown, Returned
  <2>5. HandAt(t)' /\ SeenAt(t)'
    BY <2>1, <2>2, <2>3 DEF HandAt, SeenAt, Before
  <2> QED
    BY <1>0, <2>4, <2>5, BoxMoves DEF KeepsAt
<1> QED
  BY <1>1, <1>2, <1>3, <1>4, <1>5, <1>6, SubQuiet

\* What it makes of another's: a slot it holds is not the other's, and a claim of
\* the other's slot is a race.
LEMMA Others ==
  ASSUME SlotInv, SlotInv', ShownInv, DrawnInv', NEW t \in Subs, Subscriber(t),
         NEW s \in Subs, s # t
  PROVE  KeepsAt(s)
<1> DEFINE i == sub[s].i
<1>0. i \in Slots /\ UNCHANGED alive
  BY DEF SlotInv, SlotTypes, SubRecord, Subscriber, life
<1>1. sub'[s] = sub[s] /\ taken'[s] = taken[s]
  BY SubQuiet, SubLoads, SubReturns, SubPops
     DEF SlotInv, SameBut, ShownInv, TakenTypes
<1>2. ASSUME Reading(s), ~slot'[i].raced
      PROVE  ~slot[i].raced /\ slot'[i].box = slot[i].box
  <2>1. Holding(s) /\ Occupied(i)
    BY <1>2 DEF Reading, Holding, Occupied, Holds
  <2>2. ~(i = sub[t].i /\ alive[t] /\ Holding(t) /\ ~slot[i].raced)
    BY <1>2, <2>1 DEF SlotInv, RegionInv, SoleAt, Sound, Reading
  <2> QED
    BY <1>0, <1>2, <2>1, <2>2, SubCellsOf DEF SlotInv
<1> QED
  BY <1>0, <1>1, <1>2, Watched DEF SlotInv, ShownInv

-----------------------------------------------------------------------------
\* All steps.

LEMMA PublisherShows ==
  ASSUME PubInv, SlotInv, SlotInv', ShownInv, NEW p \in Pubs, Publisher(p)
  PROVE  TakenTypes' /\ DrawnInv' /\ \A s \in Subs : KeepsAt(s)
<1>1. TakenTypes' /\ DrawnInv'
  BY PubDraws DEF SlotInv, ShownInv, TakenTypes, Publisher
<1>2. ASSUME NEW s \in Subs PROVE KeepsAt(s)
  <2>1. UNCHANGED <<alive, sub, taken>> /\ sub[s].i \in Slots
    BY DEF Publisher, life, SlotInv, SlotTypes, SubRecord
  <2>2. /\ slot'[sub[s].i].raced = slot[sub[s].i].raced
        /\ \/ slot'[sub[s].i].box = slot[sub[s].i].box
           \/ ~Readable(slot'[sub[s].i].box)
           \/ slot'[sub[s].i].box.ordinal = accepted_ordinal
    BY <2>1, PubCells DEF SlotInv, ShownInv
  <2> QED
    BY <1>1, <2>1, <2>2, Watched DEF SlotInv, ShownInv
<1> QED
  BY <1>1, <1>2

LEMMA SubscriberShows ==
  ASSUME SlotInv, SlotInv', ShownInv, NEW t \in Subs, Subscriber(t)
  PROVE  TakenTypes' /\ DrawnInv' /\ \A s \in Subs : KeepsAt(s)
<1>1. DrawnInv'
  BY SubDraws DEF SlotInv, ShownInv
<1>2. TakenTypes'
  <2>1. sub[t].record \in Nat
    BY DEF SlotInv, SlotTypes, SubRecord
  <2>2. UNCHANGED taken \/ \E k \in Nat : taken' = [taken EXCEPT ![t] = taken[t] \cup {k}]
    BY <2>1, SubQuiet, SubLoads, SubReturns, SubPops DEF SlotInv
  <2> QED
    BY <2>2 DEF ShownInv, TakenTypes
<1>3. KeepsAt(t)
  BY <1>1, Own DEF SlotInv, ShownInv
<1> QED
  BY <1>1, <1>2, <1>3, Others

\* A crash, or a step of something else.
LEMMA RestShows ==
  ASSUME PubInv, SlotInv, SlotInv', ShownInv,
         UNCHANGED <<accepted_ordinal, master, slot, pub, sub, taken>>,
         \A x \in Pubs \cup Subs : alive'[x] => alive[x]
  PROVE  TakenTypes' /\ DrawnInv' /\ \A s \in Subs : KeepsAt(s)
<1>1. TakenTypes' /\ DrawnInv'
  BY DEF ShownInv, TakenTypes, DrawnInv, Carries
<1> QED
  BY <1>1, Watched DEF SlotInv, ShownInv

LEMMA ShownNext ==
  ASSUME PubInv, SlotInv, SlotInv', ShownInv, [Next]_vars
  PROVE  TakenTypes' /\ DrawnInv' /\ \A s \in Subs : KeepsAt(s)
<1>1. ASSUME NEW x \in Pubs \cup Subs, Crash(x)
      PROVE  TakenTypes' /\ DrawnInv' /\ \A s \in Subs : KeepsAt(s)
  <2>1. /\ UNCHANGED <<accepted_ordinal, master, slot, pub, sub, taken>>
        /\ \A y \in Pubs \cup Subs : alive'[y] => alive[y]
    BY <1>1 DEF Crash, header, past, PubInv, PidTypes
  <2> QED
    BY <2>1, RestShows
<1>2. CASE UNCHANGED vars
  BY <1>2, RestShows DEF vars
<1> QED
  BY <1>1, <1>2, PublisherShows, SubscriberShows DEF Next

LEMMA ShownInit == Init => ShownInv /\ \A s \in Subs : Box(s)!Init
<1> SUFFICES ASSUME Init PROVE ShownInv /\ \A s \in Subs : Box(s)!Init
  OBVIOUS
<1>1. /\ \A s \in Subs : /\ sub[s].pc = "unborn" /\ sub[s].cached = 0 /\ sub[s].record = 0
                          /\ taken[s] = {}
      /\ \A p \in Pubs : pub[p].pc = "unborn"
      /\ \A j \in Slots : slot[j].box.ordinal = 0
      /\ accepted_ordinal = 0 /\ master.ordinal = 0
  BY DEF Init, FreeSlot, Empty
<1>2. TakenTypes
  BY DEF Init, TakenTypes
<1>3. DrawnInv
  BY <1>1, ShmAssumption DEF DrawnInv, Carries, Undelivered
<1>4. \A s \in Subs : HandAt(s) /\ SeenAt(s)
  BY <1>1 DEF HandAt, SeenAt, Reading, Before
<1>5. \A s \in Subs : Box(s)!Init
  BY <1>1 DEF Box!Init
<1> QED
  BY <1>2, <1>3, <1>4, <1>5 DEF ShownInv

\* The latest-only promise across processes, for any number of publishers and
\* subscribers, slots, records and crashes, if a live publisher leaves a slot
\* within the grace: every mailbox that was not claimed in a race implements
\* LatestBox, moving on to newer records or back to the one its reader saw last
\* (M4, posix_shm.hpp's TakeLatestSample and ClaimSubscriberSlot).
THEOREM ShmConflatesAlways ==
  ASSUME Prompt
  PROVE  Spec => Conflates
<1>1. PubInv /\ CursorInv /\ SlotInv /\ [Next]_vars => CursorInv' /\ SlotInv'
  BY SlotNext
<1>2. PubInv /\ SlotInv /\ SlotInv' /\ ShownInv /\ [Next]_vars => ShownInv'
  BY ShownNext DEF ShownInv, KeepsAt
<1>3. PubInv /\ SlotInv /\ SlotInv' /\ ShownInv /\ [Next]_vars
      => [\A s \in Subs : slot'[sub'[s].i].raced \/ Box(s)!CrashStep]_vars
  BY ShownNext DEF KeepsAt
<1> QED
  BY <1>1, <1>2, <1>3, PubInit, PubNext, SlotInit, ShownInit, PTL DEF Spec, Conflates

-----------------------------------------------------------------------------
\* What a subscriber may conclude from the mailbox it is promised.

\* The mailbox never shows less than its reader has seen, and what a take holds
\* is no older than what takes returned.
ReaderInv(s) ==
  /\ Shown(s) \in Nat /\ sub[s].record \in Nat /\ Returned(s) \subseteq Nat
  /\ sub[s].record <= Shown(s)
  /\ \A r \in Returned(s) : r <= Shown(s) /\ (sub[s].record # 0 => r <= sub[s].record)

\* The steps of LatestBox with crashes.
LEMMA ReaderSteps ==
  ASSUME NEW s \in Subs, Box(s)!CrashStep
  PROVE  \/ /\ Shown(s)' \in Nat /\ Shown(s)' > Shown(s)
            /\ sub'[s].record = sub[s].record /\ Returned(s)' = Returned(s)
         \/ /\ sub'[s].record = Shown(s)
            /\ sub[s].record = 0 /\ Shown(s)' = Shown(s) /\ Returned(s)' = Returned(s)
         \/ /\ sub[s].record # 0 /\ sub'[s].record = 0
            /\ Shown(s)' = Shown(s) /\ Returned(s)' = Returned(s) \cup {sub[s].record}
         \/ /\ Shown(s)' \in Returned(s) \cup {sub[s].record, 0} /\ sub[s].record <= Shown(s)'
            /\ \A r \in Returned(s) : r <= Shown(s)'
            /\ sub'[s].record = sub[s].record /\ Returned(s)' = Returned(s)
         \/ /\ Shown(s)' = Shown(s)
            /\ sub'[s].record = sub[s].record /\ Returned(s)' = Returned(s)
<1> USE DEF Shown, Returned, Reading, Readable
<1>0. \A x \in 0..MaxAccepted : x \in Nat
  BY ShmAssumption
<1>1. CASE Box(s)!Post
  BY <1>0, <1>1 DEF Box!Post
<1>2. CASE Box(s)!Read
  BY <1>2 DEF Box!Read
<1>3. CASE Box(s)!Return
  BY <1>3 DEF Box!Return
<1>4. CASE Box(s)!Withdraw
  BY <1>4 DEF Box!Withdraw
<1>5. CASE UNCHANGED <<Shown(s), sub[s].record, Returned(s)>>
  BY <1>5
<1> QED
  BY <1>1, <1>2, <1>3, <1>4, <1>5 DEF Box!CrashStep, Box!CrashNext, Box!Next, Box!vars

LEMMA ReaderNext ==
  ASSUME NEW s \in Subs, ReaderInv(s), Box(s)!CrashStep
  PROVE  /\ ReaderInv(s)'
         /\ \A o \in Returned(s)' \ Returned(s) : \A t \in Returned(s) : o > t
<1>1. PICK v \in Nat, h \in Nat, R \in SUBSET Nat :
        /\ v = Shown(s) /\ h = sub[s].record /\ R = Returned(s)
        /\ h <= v /\ \A r \in R : r <= v /\ (h # 0 => r <= h)
  BY DEF ReaderInv
<1>2. PICK w, g, Q : w = Shown(s)' /\ g = sub'[s].record /\ Q = Returned(s)'
  OBVIOUS
<1> DEFINE Post     == w \in Nat /\ w > v /\ g = h /\ Q = R
           Read     == g = v /\ h = 0 /\ w = v /\ Q = R
           Return   == h # 0 /\ g = 0 /\ w = v /\ Q = R \cup {h}
           Withdraw == w \in R \cup {h, 0} /\ h <= w /\ (\A r \in R : r <= w) /\ g = h /\ Q = R
           Goal     == /\ w \in Nat /\ g \in Nat /\ Q \subseteq Nat /\ g <= w
                       /\ \A r \in Q : r <= w /\ (g # 0 => r <= g)
                       /\ \A o \in Q \ R : \A t \in R : o > t
<1>3. Post \/ Read \/ Return \/ Withdraw \/ (w = v /\ g = h /\ Q = R)
  BY <1>1, <1>2, ReaderSteps
<1>4. Goal
  <2>1. CASE Post \/ (w = v /\ g = h /\ Q = R)
    BY <1>1, <2>1
  <2>2. CASE Read
    BY <1>1, <2>2
  <2>3. CASE Return
    BY <1>1, <2>3
  <2>4. CASE Withdraw
    BY <1>1, <2>4
  <2> QED
    BY <1>3, <2>1, <2>2, <2>3, <2>4
<1>5. ReaderInv(s)'
  BY <1>2, <1>4 DEF ReaderInv
<1>6. \A o \in Q \ R : \A t \in R : o > t
  BY <1>4
<1> HIDE DEF Goal
<1>7. \A o \in Returned(s)' \ Returned(s) : \A t \in Returned(s) : o > t
  BY <1>1, <1>2, <1>6
<1> QED
  BY <1>5, <1>7

\* Whoever reads a mailbox that implements LatestBox never goes back, whatever the
\* publishers do and wherever they die: a take returns no record older than one an
\* earlier take returned.
THEOREM NeverBackAfterCrash ==
  ASSUME NEW s \in Subs
  PROVE  Box(s)!CrashSpec => Box(s)!NeverBack
<1>1. Box(s)!Init => ReaderInv(s)
  BY DEF Box!Init, ReaderInv, Shown, Returned, Reading, Readable
<1>2. ReaderInv(s) /\ [Box(s)!CrashNext]_(Box(s)!vars) => ReaderInv(s)'
  BY ReaderNext DEF Box!CrashStep
<1>3. ReaderInv(s) /\ [Box(s)!CrashNext]_(Box(s)!vars)
      => [\A o \in Returned(s)' \ Returned(s) : \A t \in Returned(s) : o > t]_(Box(s)!vars)
  BY ReaderNext DEF Box!CrashStep
<1> QED
  BY <1>1, <1>2, <1>3, PTL DEF Box!CrashSpec, Box!NeverBack, Returned
=============================================================================
