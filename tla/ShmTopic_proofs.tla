-------------------------- MODULE ShmTopic_proofs --------------------------
(***************************************************************************)
(* Proofs about ShmTopic for every number of processes, slots and crashes. *)
(***************************************************************************)
EXTENDS ShmTopic, TLAPS

\* The types the ownership argument needs.
PubPcs == {"unborn", "probe", "reclaim", "refused", "claimed", "repair", "mend", "idle",
           "closed", "accepted", "master", "load", "kind", "stamp", "begin", "store", "push"}
PubRecord == [pc : PubPcs, expected : Pubs \cup {None}, ordinal : Nat, i : Nat]

PidTypes ==
  /\ alive \in [Pubs \cup Subs -> BOOLEAN]
  /\ pub_pid \in Pubs \cup {None} /\ accepted_ordinal \in Nat
  /\ pub \in [Pubs -> PubRecord]

\* The pid of a live owner is the one in the header, and a process about to
\* reclaim has seen a dead one: pids are not reused, so it is still dead.
OwnerInv ==
  \A p \in Pubs :
    /\ alive[p] /\ Owner(p) => pub_pid = p
    /\ pub[p].pc = "reclaim" => ~ProcessAlive(pub[p].expected)

PubInv == PidTypes /\ OwnerInv

LEMMA PubInit == Init => PubInv
BY ShmAssumption DEF Init, PubInv, PidTypes, OwnerInv, Owner, PubRecord, PubPcs

\* A publisher that moves on while it owns the slot.
LEMMA PubMove ==
  ASSUME PubInv, NEW p \in Pubs, Owner(p),
         pub' \in [Pubs -> PubRecord],
         \A q \in Pubs : q # p => pub'[q] = pub[q],
         pub'[p].pc \in PubPcs \ {"unborn", "probe", "reclaim", "refused", "closed"},
         accepted_ordinal' \in Nat,
         UNCHANGED <<alive, pub_pid>>
  PROVE  PubInv'
BY DEF PubInv, PidTypes, OwnerInv, Owner, ProcessAlive

LEMMA PubNext == PubInv /\ [Next]_vars => PubInv'
<1> SUFFICES ASSUME PubInv, [Next]_vars PROVE PubInv'
  OBVIOUS
<1>1. ASSUME NEW p \in Pubs, UNCHANGED life, ClaimPublisherSlot(p) PROVE PubInv'
  BY <1>1, ShmAssumption DEF ClaimPublisherSlot, PubAt, PubGoto, PubInv, PidTypes, OwnerInv, Owner,
     ProcessAlive, PubRecord, PubPcs, life
<1>2. ASSUME NEW p \in Pubs, UNCHANGED life, ProbeOwner(p) PROVE PubInv'
  BY <1>2, ShmAssumption DEF ProbeOwner, PubAt, PubGoto, PubInv, PidTypes, OwnerInv, Owner,
     ProcessAlive, PubRecord, PubPcs, life, header
<1>3. ASSUME NEW p \in Pubs, UNCHANGED life, ReclaimPublisher(p) PROVE PubInv'
  BY <1>3, ShmAssumption DEF ReclaimPublisher, StillHeld, PubAt, PubGoto, PubInv, PidTypes, OwnerInv, Owner,
     ProcessAlive, PubRecord, PubPcs, life
<1>4. ASSUME NEW p \in Pubs, UNCHANGED life, ReleasePublisher(p) PROVE PubInv'
  BY <1>4, ShmAssumption DEF ReleasePublisher, PubAt, PubGoto, PubInv, PidTypes, OwnerInv, Owner,
     ProcessAlive, PubRecord, PubPcs, life
<1> DEFINE Moving(p) ==
      \/ RepairMaster(p) \/ RepairLoad(p) \/ RepairMailbox(p) \/ Publish(p)
      \/ MasterStoreBegins(p) \/ MasterStoreEnds(p) \/ LoadState(p) \/ LoadKind(p)
      \/ StampBaseline(p) \/ StoreBegins(p) \/ StoreEnds(p) \/ Push(p)
<1>5. ASSUME NEW p \in Pubs, UNCHANGED life, Moving(p) PROVE PubInv'
  <2> USE <1>5 DEF RepairMaster, RepairLoad, RepairMailbox, Publish, MasterStoreBegins,
      MasterStoreEnds, LoadState, LoadKind, StampBaseline, StoreBegins, StoreEnds, Push
  <2>1. Owner(p) /\ UNCHANGED <<alive, pub_pid>>
    BY DEF PubAt, Owner, life, header
  <2>2. accepted_ordinal' \in Nat
    BY DEF PubInv, PidTypes, header, NextOrdinal
  <2>3. \/ \E x \in PubPcs \ {"unborn", "probe", "reclaim", "refused", "closed"} : PubGoto(p, x)
        \/ PubAdvance(p, "repair", "idle") \/ PubAdvance(p, "load", "idle")
        \/ pub' = [pub EXCEPT ![p].pc = "accepted", ![p].ordinal = NextOrdinal(p)]
    BY DEF PubPcs
  <2> HIDE <1>5
  <2>4. /\ pub' \in [Pubs -> PubRecord]
        /\ \A q \in Pubs : q # p => pub'[q] = pub[q]
        /\ pub'[p].pc \in PubPcs \ {"unborn", "probe", "reclaim", "refused", "closed"}
    BY <2>3 DEF PubInv, PidTypes, PubRecord, PubPcs, PubGoto, PubAdvance,
       NextOrdinal
  <2> QED
    BY <2>1, <2>2, <2>4, PubMove
<1>6. ASSUME UNCHANGED <<alive, header, pub>> PROVE PubInv'
  BY <1>6 DEF PubInv, PidTypes, OwnerInv, Owner, ProcessAlive, header
<1>7. ASSUME NEW s \in Subs, Subscriber(s) PROVE PubInv'
  BY <1>6, <1>7 DEF Subscriber, life
<1>8. ASSUME NEW x \in Pubs \cup Subs, Crash(x) PROVE PubInv'
  BY <1>8, ShmAssumption DEF Crash, PubInv, PidTypes, OwnerInv, Owner, ProcessAlive, header
<1>9. CASE UNCHANGED vars
  BY <1>6, <1>9 DEF vars, header
<1> QED
  BY <1>1, <1>2, <1>3, <1>4, <1>5, <1>7, <1>8, <1>9 DEF Next, Publisher

\* D15 across processes for any number of publishers and crashes: whoever races
\* the dead-owner reclaim and dies in it, at most one live process owns the
\* publisher slot.
THEOREM PublisherExclusiveAlways == Spec => []PublisherExclusive
<1>1. Spec => []PubInv
  BY PubInit, PubNext, PTL DEF Spec
<1>2. PubInv => PublisherExclusive
  BY DEF PubInv, OwnerInv, PublisherExclusive
<1> QED
  BY <1>1, <1>2, PTL

-----------------------------------------------------------------------------
\* The slots and their cells: a claimant is alone in its region, and a restarted
\* publisher leaves no torn cell behind.

SlotRecord == [state : {"kFree", "kClaimed", "kActive"}, pid : Subs \cup {None},
               queued : BOOLEAN, last : Int, takes : Nat, drops : Nat, overwrites : Int,
               box : Cell, ring : Seq(Nat), raced : BOOLEAN]

SubPcs == {"unborn", "claim", "probe", "reclaim", "grace", "wait", "init", "seed", "activate",
           "active", "loaded", "detaching", "closed", "refused"}

SubRecord == [pc : SubPcs, queued : BOOLEAN, i : Slots, start : Nat, cached : Nat, record : Nat]

SlotTypes ==
  /\ master \in Cell
  /\ slot \in [Slots -> SlotRecord]
  /\ sub \in [Subs -> SubRecord]
  /\ \A p \in Pubs : pub[p].i \in Slots

\* What the argument looks at in a slot.
Alike(r, x) ==
  /\ r.state = x.state /\ r.queued = x.queued /\ r.box = x.box /\ r.raced = x.raced

SameBut(s) == \A t \in Subs : t # s => sub'[t] = sub[t]

\* What a subscriber has read, and how, is as it was.
SameHand(s) ==
  /\ sub'[s].cached = sub[s].cached /\ sub'[s].record = sub[s].record
  /\ sub'[s].queued = sub[s].queued

\* A subscriber that believes in its slot, and what is true of the slot unless it
\* was claimed in a race: nobody else believes in it, it is in the state its
\* holder left it in, no publisher is inside past the grace (and one that is
\* there during the grace has not published since it began), and between the
\* initialisation and the activation its cell is whole.
Holding(s) == Claiming(s) \/ sub[s].pc \in {"active", "loaded"}
Sound(s)   == alive[s] /\ Holding(s) /\ ~slot[sub[s].i].raced

StatedAt(s) ==
  Sound(s) => slot[sub[s].i].state = IF Claiming(s) THEN "kClaimed" ELSE "kActive"

ClearAt(s) ==
  \A p \in Pubs : Sound(s) /\ Inside(p, sub[s].i) =>
    /\ sub[s].pc \notin {"init", "seed", "activate"}
    /\ sub[s].pc = "wait" => accepted_ordinal <= sub[s].start

FreshAt(s) ==
  Sound(s) /\ sub[s].pc \in {"seed", "activate"} =>
    /\ slot[sub[s].i].queued = sub[s].queued
    /\ sub[s].queued \/ ~slot[sub[s].i].box.torn

SoleAt(s, t) == Sound(s) /\ Sound(t) /\ sub[s].i = sub[t].i => s = t

RegionInv ==
  \A s \in Subs : StatedAt(s) /\ ClearAt(s) /\ FreshAt(s) /\ \A t \in Subs : SoleAt(s, t)

\* A torn cell in use belongs to the owner's Store, or is ahead of its repairs.
Bad(j) == Mends(slot[j]) /\ slot[j].box.torn /\ ~slot[j].raced

WholeAt(p) ==
  alive[p] /\ Owner(p) =>
    /\ master.torn => pub[p].pc \in {"claimed", "master"}
    /\ \A j \in Slots : Bad(j) =>
         \/ pub[p].pc = "claimed"
         \/ pub[p].pc \in {"repair", "mend"} /\ pub[p].i <= j
         \/ pub[p].pc = "store" /\ pub[p].i = j

CellInv == \A p \in Pubs : WholeAt(p)

SlotInv == SlotTypes /\ RegionInv /\ CellInv

-----------------------------------------------------------------------------
\* Records of slots: one field at a time.

LEMMA SlotBox ==
  ASSUME NEW r \in SlotRecord, NEW box \in Cell
  PROVE  LET x == [r EXCEPT !.box = box] IN
         /\ x \in SlotRecord /\ x.box = box
         /\ x.state = r.state /\ x.queued = r.queued /\ x.raced = r.raced
BY DEF SlotRecord

LEMMA SlotRing ==
  ASSUME NEW r \in SlotRecord, NEW ring \in Seq(Nat)
  PROVE  [r EXCEPT !.ring = ring] \in SlotRecord /\ Alike([r EXCEPT !.ring = ring], r)
BY DEF SlotRecord, Alike

LEMMA SlotPid ==
  ASSUME NEW r \in SlotRecord, NEW pid \in Subs \cup {None}
  PROVE  [r EXCEPT !.pid = pid] \in SlotRecord /\ Alike([r EXCEPT !.pid = pid], r)
BY DEF SlotRecord, Alike

LEMMA SlotLast ==
  ASSUME NEW r \in SlotRecord, NEW last \in Int
  PROVE  [r EXCEPT !.last = last] \in SlotRecord /\ Alike([r EXCEPT !.last = last], r)
BY DEF SlotRecord, Alike

LEMMA SlotDrops ==
  ASSUME NEW r \in SlotRecord, NEW drops \in Nat
  PROVE  [r EXCEPT !.drops = drops] \in SlotRecord /\ Alike([r EXCEPT !.drops = drops], r)
BY DEF SlotRecord, Alike

LEMMA SlotTakes ==
  ASSUME NEW r \in SlotRecord, NEW takes \in Nat
  PROVE  [r EXCEPT !.takes = takes] \in SlotRecord /\ Alike([r EXCEPT !.takes = takes], r)
BY DEF SlotRecord, Alike

LEMMA SlotOverwrites ==
  ASSUME NEW r \in SlotRecord, NEW overwrites \in Int
  PROVE  LET x == [r EXCEPT !.overwrites = overwrites] IN x \in SlotRecord /\ Alike(x, r)
BY DEF SlotRecord, Alike

LEMMA SlotCharge ==
  ASSUME NEW r \in SlotRecord, NEW overwrites \in Int, NEW last \in Int
  PROVE  LET x == [r EXCEPT !.overwrites = overwrites, !.last = last] IN
         x \in SlotRecord /\ Alike(x, r)
BY DEF SlotRecord, Alike

\* The slot i gets the record r.
Put(i, r) == slot' = [slot EXCEPT ![i] = r]

LEMMA PutSlot ==
  ASSUME SlotTypes, NEW i \in Slots, NEW r \in SlotRecord, Put(i, r)
  PROVE  /\ slot' \in [Slots -> SlotRecord] /\ slot'[i] = r
         /\ \A j \in Slots : j # i => slot'[j] = slot[j]
BY DEF SlotTypes, Put

-----------------------------------------------------------------------------
\* What each action does to the slots.

LEMMA RepairMailboxSlot ==
  ASSUME SlotTypes, NEW p \in Pubs, RepairMailbox(p)
  PROVE  \E box \in Cell : /\ Put(pub[p].i, [slot[pub[p].i] EXCEPT !.box = box])
                           /\ ~box.torn /\ box \in {slot[pub[p].i].box, Empty}
<1>1. slot[pub[p].i].box \in Cell
  BY DEF SlotTypes, SlotRecord
<1>2. /\ Repaired(slot[pub[p].i].box) \in Cell /\ ~Repaired(slot[pub[p].i].box).torn
      /\ Repaired(slot[pub[p].i].box) \in {slot[pub[p].i].box, Empty}
  BY <1>1 DEF Repaired, Cell, Empty
<1>3. Put(pub[p].i, [slot[pub[p].i] EXCEPT !.box = Repaired(slot[pub[p].i].box)])
  BY DEF RepairMailbox, Put
<1> QED
  BY <1>2, <1>3

LEMMA StoreBeginsSlot ==
  ASSUME SlotTypes, NEW p \in Pubs, StoreBegins(p)
  PROVE  \E box \in Cell : /\ Put(pub[p].i, [slot[pub[p].i] EXCEPT !.box = box])
                           /\ box.torn /\ box.ordinal = slot[pub[p].i].box.ordinal
<1>1. slot[pub[p].i].box \in Cell
  BY DEF SlotTypes, SlotRecord
<1>2. LET box == [slot[pub[p].i].box EXCEPT !.torn = TRUE] IN
      box \in Cell /\ box.torn /\ box.ordinal = slot[pub[p].i].box.ordinal
  BY <1>1 DEF Cell
<1>3. Put(pub[p].i, [slot[pub[p].i] EXCEPT !.box = [slot[pub[p].i].box EXCEPT !.torn = TRUE]])
  BY DEF StoreBegins, Put
<1> QED
  BY <1>2, <1>3

LEMMA StoreEndsSlot ==
  ASSUME PubInv, SlotTypes, NEW p \in Pubs, StoreEnds(p)
  PROVE  \E box \in Cell : /\ Put(pub[p].i, [slot[pub[p].i] EXCEPT !.box = box])
                           /\ ~box.torn /\ box.ordinal = pub[p].ordinal
<1>1. pub[p].ordinal \in Nat
  BY DEF PubInv, PidTypes, PubRecord
<1>2. /\ [ordinal |-> pub[p].ordinal, torn |-> FALSE] \in Cell
      /\ ~[ordinal |-> pub[p].ordinal, torn |-> FALSE].torn
  BY <1>1 DEF Cell
<1>3. Put(pub[p].i, [slot[pub[p].i] EXCEPT !.box = [ordinal |-> pub[p].ordinal, torn |-> FALSE]])
  BY DEF StoreEnds, Put
<1> QED
  BY <1>2, <1>3

\* A record put into a slot that is like the one there.
LEMMA PutAlike ==
  ASSUME SlotTypes, NEW i \in Slots, NEW r \in SlotRecord, Alike(r, slot[i]), Put(i, r)
  PROVE  slot' \in [Slots -> SlotRecord] /\ \A j \in Slots : Alike(slot'[j], slot[j])
BY PutSlot DEF Alike

LEMMA StampBaselineSlot ==
  ASSUME PubInv, SlotTypes, NEW p \in Pubs, StampBaseline(p)
  PROVE  slot' \in [Slots -> SlotRecord] /\ \A j \in Slots : Alike(slot'[j], slot[j])
<1> DEFINE i == pub[p].i
           last == IF slot[i].last = kBaselineUnset THEN JoinPoint(pub[p].ordinal) ELSE slot[i].last
<1>1. i \in Slots /\ slot[i] \in SlotRecord
  BY DEF SlotTypes
<1>2. last \in Int
  BY <1>1 DEF SlotRecord, JoinPoint, PubInv, PidTypes, PubRecord
<1>3. Put(i, [slot[i] EXCEPT !.last = last])
  BY DEF StampBaseline, Put
<1> HIDE DEF last
<1> QED
  BY <1>1, <1>2, <1>3, SlotLast, PutAlike

LEMMA PushSlot ==
  ASSUME PubInv, SlotTypes, NEW p \in Pubs, Push(p)
  PROVE  slot' \in [Slots -> SlotRecord] /\ \A j \in Slots : Alike(slot'[j], slot[j])
<1> DEFINE i == pub[p].i
           ring == Append(slot[i].ring, pub[p].ordinal)
           drops == slot[i].drops + 1
<1>1. i \in Slots /\ slot[i] \in SlotRecord
  BY DEF SlotTypes
<1>2. ring \in Seq(Nat) /\ drops \in Nat
  BY <1>1 DEF SlotRecord, PubInv, PidTypes, PubRecord
<1>3. Put(i, [slot[i] EXCEPT !.ring = ring]) \/ Put(i, [slot[i] EXCEPT !.drops = drops])
  BY DEF Push, Put
<1> HIDE DEF ring, drops
<1> QED
  BY <1>1, <1>2, <1>3, SlotRing, SlotDrops, PutAlike

LEMMA ClaimSlotSlot ==
  ASSUME SlotTypes, NEW i \in Slots, NEW raced \in BOOLEAN, ClaimSlot(i, raced)
  PROVE  /\ slot' \in [Slots -> SlotRecord]
         /\ \A j \in Slots : j # i => slot'[j] = slot[j]
         /\ slot'[i].state = "kClaimed" /\ slot'[i].raced = raced /\ slot'[i].box = slot[i].box
<1> DEFINE r == [slot[i] EXCEPT !.state = "kClaimed", !.raced = raced]
<1>1. slot[i] \in SlotRecord
  BY DEF SlotTypes
<1>2. r \in SlotRecord /\ r.state = "kClaimed" /\ r.raced = raced /\ r.box = slot[i].box
  BY <1>1 DEF SlotRecord
<1>3. Put(i, r)
  BY DEF ClaimSlot, Put
<1> HIDE DEF r
<1> QED
  BY <1>2, <1>3, PutSlot

LEMMA InitSlotSlot ==
  ASSUME SlotTypes, NEW s \in Subs, InitSlot(s)
  PROVE  \E r \in SlotRecord :
           /\ Put(sub[s].i, r)
           /\ r.state = slot[sub[s].i].state /\ r.raced = slot[sub[s].i].raced
           /\ r.queued = sub[s].queued /\ (~sub[s].queued => ~r.box.torn)
           /\ r.box \in {slot[sub[s].i].box, Empty}
<1> DEFINE i == sub[s].i
           box == IF sub[s].queued THEN slot[i].box ELSE Empty
           ring == IF sub[s].queued THEN <<>> ELSE slot[i].ring
           a == [slot[i] EXCEPT !.pid = s, !.queued = sub[s].queued]
           b == [a EXCEPT !.last = kBaselineUnset, !.takes = 0]
           c == [b EXCEPT !.drops = 0]
           d == [c EXCEPT !.overwrites = 0]
           r == [d EXCEPT !.box = box, !.ring = ring]
<1>1. i \in Slots /\ sub[s].queued \in BOOLEAN /\ slot[i] \in SlotRecord
  BY DEF SlotTypes, SubRecord
<1>2. kBaselineUnset \in Int
  BY ShmAssumption DEF kBaselineUnset
<1>3. /\ box \in Cell /\ ring \in Seq(Nat) /\ (~sub[s].queued => ~box.torn)
      /\ box \in {slot[i].box, Empty}
  BY <1>1 DEF SlotRecord, Cell, Empty
<1>4. Put(i, r)
  BY DEF InitSlot, Put
<1>5. /\ a \in SlotRecord /\ a.state = slot[i].state /\ a.raced = slot[i].raced
      /\ a.queued = sub[s].queued
  BY <1>1 DEF SlotRecord
<1> HIDE DEF a, box, ring
<1>6. b \in SlotRecord /\ Alike(b, a)
  BY <1>2, <1>5 DEF SlotRecord, Alike
<1> HIDE DEF b
<1>7. c \in SlotRecord /\ Alike(c, b)
  BY <1>6, SlotDrops
<1> HIDE DEF c
<1>8. d \in SlotRecord /\ Alike(d, c)
  BY <1>7, SlotOverwrites
<1> HIDE DEF d
<1>9. /\ r \in SlotRecord /\ r.state = d.state /\ r.raced = d.raced /\ r.queued = d.queued
      /\ r.box = box
  BY <1>3, <1>8 DEF SlotRecord
<1> HIDE DEF r
<1> QED
  BY <1>3, <1>4, <1>5, <1>6, <1>7, <1>8, <1>9 DEF Alike

LEMMA SeedSlotSlot ==
  ASSUME SlotTypes, NEW s \in Subs, SeedSlot(s)
  PROVE  \/ slot' = slot
         \/ ~master.torn /\ Put(sub[s].i, [slot[sub[s].i] EXCEPT !.box = master])
BY DEF SeedSlot, Put

LEMMA StateSlot ==
  ASSUME SlotTypes, NEW s \in Subs, NEW x \in {"kFree", "kActive"},
         slot' = [slot EXCEPT ![sub[s].i].state = x]
  PROVE  /\ slot' \in [Slots -> SlotRecord]
         /\ \A j \in Slots : j # sub[s].i => slot'[j] = slot[j]
         /\ slot'[sub[s].i].state = x
         /\ slot'[sub[s].i].raced = slot[sub[s].i].raced
         /\ slot'[sub[s].i].queued = slot[sub[s].i].queued
         /\ slot'[sub[s].i].box = slot[sub[s].i].box
<1> DEFINE i == sub[s].i
           r == [slot[i] EXCEPT !.state = x]
<1>1. i \in Slots /\ slot[i] \in SlotRecord
  BY DEF SlotTypes, SubRecord
<1>2. /\ r \in SlotRecord /\ r.state = x /\ r.raced = slot[i].raced
      /\ r.queued = slot[i].queued /\ r.box = slot[i].box
  BY <1>1 DEF SlotRecord
<1>3. Put(i, r)
  BY DEF Put
<1> HIDE DEF r
<1> QED
  BY <1>1, <1>2, <1>3, PutSlot

LEMMA DetachPidSlot ==
  ASSUME SlotTypes, NEW s \in Subs, DetachPid(s)
  PROVE  slot' \in [Slots -> SlotRecord] /\ \A j \in Slots : Alike(slot'[j], slot[j])
<1>1. sub[s].i \in Slots /\ slot[sub[s].i] \in SlotRecord
  BY DEF SlotTypes, SubRecord
<1>2. Put(sub[s].i, [slot[sub[s].i] EXCEPT !.pid = None])
  BY DEF DetachPid, Put
<1>3. None \in Subs \cup {None}
  OBVIOUS
<1> QED
  BY <1>1, <1>2, <1>3, SlotPid, PutAlike

LEMMA TakeLatestSlot ==
  ASSUME SlotTypes, NEW s \in Subs, TakeLatest(s)
  PROVE  slot' \in [Slots -> SlotRecord] /\ \A j \in Slots : Alike(slot'[j], slot[j])
<1> DEFINE i == sub[s].i
           k == sub[s].record
           takes == slot[i].takes + 1
           a == [slot[i] EXCEPT !.takes = takes]
           overwrites == a.overwrites + (k - a.last - 1)
           r == [a EXCEPT !.overwrites = overwrites, !.last = k]
<1>1. i \in Slots /\ k \in Nat /\ slot[i] \in SlotRecord
  BY DEF SlotTypes, SubRecord
<1>2. takes \in Nat
  BY <1>1 DEF SlotRecord
<1>3. Put(i, a) \/ Put(i, r)
  BY DEF TakeLatest, FillSample, Put
<1> HIDE DEF takes
<1>4. a \in SlotRecord /\ Alike(a, slot[i])
  BY <1>1, <1>2, SlotTakes
<1> HIDE DEF a
<1>5. overwrites \in Int /\ k \in Int
  BY <1>1, <1>4 DEF SlotRecord
<1> HIDE DEF overwrites, k
<1>6. r \in SlotRecord /\ Alike(r, a)
  BY <1>4, <1>5, SlotCharge
<1> HIDE DEF r
<1> QED
  BY <1>1, <1>3, <1>4, <1>6, PutAlike DEF Alike

LEMMA TryTakeSlot ==
  ASSUME SlotTypes, NEW s \in Subs, TryTake(s)
  PROVE  slot' \in [Slots -> SlotRecord] /\ \A j \in Slots : Alike(slot'[j], slot[j])
<1> DEFINE i == sub[s].i
           takes == slot[i].takes + 1
           a == [slot[i] EXCEPT !.takes = takes]
           r == [a EXCEPT !.ring = Tail(a.ring)]
<1>1. i \in Slots /\ slot[i] \in SlotRecord
  BY DEF SlotTypes, SubRecord
<1>2. takes \in Nat
  BY <1>1 DEF SlotRecord
<1>3. a.ring # <<>> /\ Put(i, r)
  BY DEF TryTake, FillSample, Put
<1> HIDE DEF takes
<1>4. a \in SlotRecord /\ Alike(a, slot[i])
  BY <1>1, <1>2, SlotTakes
<1> HIDE DEF a
<1>5. a.ring \in Seq(Nat) /\ Tail(a.ring) \in Seq(Nat)
  BY <1>3, <1>4 DEF SlotRecord
<1>6. r \in SlotRecord /\ Alike(r, a)
  BY <1>4, <1>5, SlotRing
<1> HIDE DEF r
<1> QED
  BY <1>1, <1>3, <1>4, <1>6, PutAlike DEF Alike

-----------------------------------------------------------------------------
\* Steps of a subscriber.

LEMMA GotoSub ==
  ASSUME SlotTypes, NEW s \in Subs, NEW x \in SubPcs, SubGoto(s, x)
  PROVE  /\ sub' \in [Subs -> SubRecord] /\ SameBut(s)
         /\ sub'[s].pc = x /\ sub'[s].i = sub[s].i /\ sub'[s].queued = sub[s].queued
         /\ SameHand(s)
<1> DEFINE r == [sub[s] EXCEPT !.pc = x]
<1>1. sub[s] \in SubRecord
  BY DEF SlotTypes
<1>2. /\ r \in SubRecord /\ r.pc = x /\ r.i = sub[s].i /\ r.queued = sub[s].queued
      /\ r.cached = sub[s].cached /\ r.record = sub[s].record
  BY <1>1 DEF SubRecord
<1>3. sub' = [sub EXCEPT ![s] = r]
  BY DEF SubGoto
<1> HIDE DEF r
<1> QED
  BY <1>2, <1>3 DEF SlotTypes, SameBut, SameHand

LEMMA NextSlotSub ==
  ASSUME SlotTypes, NEW s \in Subs, NextSlot(s)
  PROVE  /\ sub' \in [Subs -> SubRecord] /\ SameBut(s)
         /\ sub'[s].pc \in {"refused", "claim"} /\ SameHand(s)
<1>1. CASE sub[s].i = kMaxSubscribers
  BY <1>1, GotoSub DEF NextSlot, SubPcs
<1>2. CASE sub[s].i # kMaxSubscribers
  <2> DEFINE n == sub[s].i + 1
             r == [sub[s] EXCEPT !.pc = "claim", !.i = n]
  <2>1. sub[s] \in SubRecord
    BY DEF SlotTypes
  <2>2. n \in Slots
    BY <1>2, <2>1, ShmAssumption DEF SubRecord, Slots
  <2>3. sub' = [sub EXCEPT ![s] = r]
    BY <1>2 DEF NextSlot
  <2> HIDE DEF n
  <2>4. /\ r \in SubRecord /\ r.pc = "claim" /\ r.queued = sub[s].queued
        /\ r.cached = sub[s].cached /\ r.record = sub[s].record
    BY <2>1, <2>2 DEF SubRecord, SubPcs
  <2> HIDE DEF r
  <2> QED
    BY <2>3, <2>4 DEF SlotTypes, SameBut, SameHand
<1> QED
  BY <1>1, <1>2

\* A subscriber that moves on in the slot it holds, or away from slots.
LEMMA SubStep ==
  ASSUME SlotTypes, RegionInv, NEW s \in Subs, alive[s],
         slot' \in [Slots -> SlotRecord], sub' \in [Subs -> SubRecord], SameBut(s),
         UNCHANGED <<alive, pub, accepted_ordinal>>,
         \A j \in Slots : slot'[j].raced = slot[j].raced,
         \A j \in Slots : Alike(slot'[j], slot[j]) \/ (j = sub[s].i /\ Holding(s)),
         Holding(s)' => Holding(s) /\ sub'[s].i = sub[s].i,
         StatedAt(s)', ClearAt(s)', FreshAt(s)'
  PROVE  RegionInv'
<1>1. ASSUME NEW t \in Subs, t # s
      PROVE  StatedAt(t)' /\ ClearAt(t)' /\ FreshAt(t)'
  <2>1. sub'[t] = sub[t] /\ sub[t].i \in Slots
    BY <1>1 DEF SameBut, SlotTypes, SubRecord
  <2>2. Sound(t)' => Sound(t) /\ Alike(slot'[sub[t].i], slot[sub[t].i])
    BY <1>1, <2>1 DEF Sound, Holding, Claiming, RegionInv, SoleAt
  <2>3. StatedAt(t) /\ ClearAt(t) /\ FreshAt(t)
    BY DEF RegionInv
  <2>4. \A p \in Pubs, j \in Slots : Inside(p, j)' <=> Inside(p, j)
    BY DEF Inside
  <2> QED
    BY <2>1, <2>2, <2>3, <2>4 DEF StatedAt, ClearAt, FreshAt, Alike, Claiming
<1>2. ASSUME NEW t \in Subs PROVE Sound(t)' => Sound(t) /\ sub'[t].i = sub[t].i
  BY <1>2 DEF Sound, Holding, Claiming, SameBut, SlotTypes, SubRecord
<1>3. ASSUME NEW t \in Subs, NEW u \in Subs PROVE SoleAt(t, u)'
  BY <1>2 DEF SoleAt, RegionInv
<1> QED
  BY <1>1, <1>3 DEF RegionInv

\* A claim: the slot is recorded as raced if anybody holds it.
LEMMA ClaimStep ==
  ASSUME SlotTypes, RegionInv, NEW s \in Subs, alive[s], ~Holding(s), NEW raced \in BOOLEAN,
         Occupied(sub[s].i) => raced, ClaimSlot(sub[s].i, raced),
         sub' \in [Subs -> SubRecord], SameBut(s), sub'[s].i = sub[s].i,
         sub'[s].pc \in {"grace", "init"},
         UNCHANGED <<alive, pub, accepted_ordinal>>,
         sub'[s].pc = "init" => raced \/ \A p \in Pubs : ~Inside(p, sub[s].i)
  PROVE  slot' \in [Slots -> SlotRecord] /\ RegionInv'
<1> DEFINE i == sub[s].i
<1>1. i \in Slots
  BY DEF SlotTypes, SubRecord
<1>2. /\ slot' \in [Slots -> SlotRecord]
      /\ \A j \in Slots : j # i => slot'[j] = slot[j]
      /\ slot'[i].state = "kClaimed" /\ slot'[i].raced = raced
  BY <1>1, ClaimSlotSlot
<1>3. ASSUME NEW t \in Subs, t # s, Sound(t)'
      PROVE  sub'[t] = sub[t] /\ sub[t].i \in Slots /\ sub[t].i # i /\ Sound(t)
  <2>1. sub'[t] = sub[t] /\ sub[t].i \in Slots
    BY <1>3 DEF SameBut, SlotTypes, SubRecord
  <2>2. sub[t].i # i
    BY <1>2, <1>3, <2>1 DEF Sound, Holding, Claiming, Occupied, Holds
  <2> QED
    BY <1>2, <1>3, <2>1, <2>2 DEF Sound, Holding, Claiming
<1>4. \A p \in Pubs, j \in Slots : Inside(p, j)' <=> Inside(p, j)
  BY DEF Inside
<1>5. ASSUME NEW t \in Subs, t # s
      PROVE  StatedAt(t)' /\ ClearAt(t)' /\ FreshAt(t)'
  <2>1. StatedAt(t) /\ ClearAt(t) /\ FreshAt(t)
    BY DEF RegionInv
  <2> QED
    BY <1>2, <1>3, <1>4, <1>5, <2>1 DEF StatedAt, ClearAt, FreshAt, Claiming
<1>6. StatedAt(s)' /\ ClearAt(s)' /\ FreshAt(s)'
  BY <1>1, <1>2, <1>4 DEF StatedAt, ClearAt, FreshAt, Sound, Claiming
<1>7. ASSUME NEW t \in Subs, NEW u \in Subs PROVE SoleAt(t, u)'
  <2>1. CASE t = s \/ u = s
    BY <1>3, <2>1 DEF SoleAt
  <2>2. CASE t # s /\ u # s
    BY <1>3, <2>2 DEF SoleAt, RegionInv
  <2> QED
    BY <2>1, <2>2
<1> QED
  BY <1>2, <1>5, <1>6, <1>7 DEF RegionInv

LEMMA SubCells ==
  ASSUME CellInv, UNCHANGED <<alive, pub, master>>, \A j \in Slots : Bad(j)' => Bad(j)
  PROVE  CellInv'
BY DEF CellInv, WholeAt, Owner

LEMMA AlikeCells ==
  ASSUME CellInv, UNCHANGED <<alive, pub, master>>, \A j \in Slots : Alike(slot'[j], slot[j])
  PROVE  CellInv'
BY SubCells DEF Bad, Mends, Alike

LEMMA Typed ==
  ASSUME SlotTypes, slot' \in [Slots -> SlotRecord], sub' \in [Subs -> SubRecord],
         UNCHANGED <<master, pub>>
  PROVE  SlotTypes'
BY DEF SlotTypes

\* Steps of a subscriber that ends up without a slot.
LEMMA SubAway ==
  ASSUME SlotInv, NEW s \in Subs, alive[s], UNCHANGED <<alive, header, pub>>,
         slot' \in [Slots -> SlotRecord], \A j \in Slots : Alike(slot'[j], slot[j]),
         sub' \in [Subs -> SubRecord], SameBut(s), ~Holding(s)'
  PROVE  SlotInv'
<1>1. StatedAt(s)' /\ ClearAt(s)' /\ FreshAt(s)'
  BY DEF StatedAt, ClearAt, FreshAt, Sound
<1>2. RegionInv'
  BY <1>1, SubStep DEF SlotInv, header, Alike
<1> QED
  BY <1>2, Typed, AlikeCells DEF SlotInv, header

\* Steps of a subscriber in the slot it holds.
LEMMA SubStays ==
  ASSUME SlotInv, NEW s \in Subs, alive[s], UNCHANGED <<alive, header, pub>>,
         slot' \in [Slots -> SlotRecord], \A j \in Slots : Alike(slot'[j], slot[j]),
         sub' \in [Subs -> SubRecord], SameBut(s), Holding(s), sub'[s].i = sub[s].i,
         StatedAt(s)', ClearAt(s)', FreshAt(s)'
  PROVE  SlotInv'
<1>1. RegionInv'
  BY SubStep DEF SlotInv, header, Alike
<1> QED
  BY <1>1, Typed, AlikeCells DEF SlotInv, header

LEMMA Unmoved ==
  ASSUME SlotTypes, UNCHANGED slot
  PROVE  slot' \in [Slots -> SlotRecord] /\ \A j \in Slots : Alike(slot'[j], slot[j])
BY DEF SlotTypes, Alike

LEMMA SubClaims ==
  ASSUME SlotInv, NEW s \in Subs, UNCHANGED <<alive, header, pub>>, ClaimSubscriberSlot(s)
  PROVE  SlotInv'
<1> DEFINE i == sub[s].i
           raced == Occupied(i) \/ \E p \in Pubs : Inside(p, i)
<1>0. alive[s] /\ ~Holding(s) /\ i \in Slots
  BY DEF ClaimSubscriberSlot, SubAt, SlotInv, SlotTypes, SubRecord, Holding, Claiming
<1>1. CASE ClaimSlot(i, raced) /\ SubGoto(s, "init")
  <2>1. raced \in BOOLEAN /\ (Occupied(i) => raced) /\ (raced \/ \A p \in Pubs : ~Inside(p, i))
    OBVIOUS
  <2> HIDE DEF raced
  <2>2. /\ sub' \in [Subs -> SubRecord] /\ SameBut(s)
        /\ sub'[s].pc = "init" /\ sub'[s].i = sub[s].i
    BY <1>1, GotoSub DEF SubPcs, SlotInv
  <2>3. slot' \in [Slots -> SlotRecord] /\ RegionInv'
    BY <1>0, <1>1, <2>1, <2>2, ClaimStep DEF SlotInv, header
  <2>4. \A j \in Slots : Bad(j)' => Bad(j)
    BY <1>0, <1>1, <2>1, ClaimSlotSlot DEF Bad, Mends, SlotInv
  <2> QED
    BY <2>2, <2>3, <2>4, SubCells, Typed DEF SlotInv, header
<1>2. CASE SubGoto(s, "probe") /\ UNCHANGED slot
  BY <1>0, <1>2, GotoSub, Unmoved, SubAway DEF SlotInv, SubPcs, Holding, Claiming
<1>3. CASE NextSlot(s) /\ UNCHANGED slot
  BY <1>0, <1>3, NextSlotSub, Unmoved, SubAway DEF SlotInv, Holding, Claiming
<1> QED
  BY <1>1, <1>2, <1>3 DEF ClaimSubscriberSlot

LEMMA SubProbes ==
  ASSUME SlotInv, NEW s \in Subs, UNCHANGED <<alive, header, pub>>, ProbeHolder(s)
  PROVE  SlotInv'
<1>0. alive[s] /\ UNCHANGED slot /\ (NextSlot(s) \/ SubGoto(s, "reclaim"))
  BY DEF ProbeHolder, SubAt
<1>1. CASE SubGoto(s, "reclaim")
  BY <1>0, <1>1, GotoSub, Unmoved, SubAway DEF SlotInv, SubPcs, Holding, Claiming
<1>2. CASE NextSlot(s)
  BY <1>0, <1>2, NextSlotSub, Unmoved, SubAway DEF SlotInv, Holding, Claiming
<1> QED
  BY <1>0, <1>1, <1>2

LEMMA SubReclaims ==
  ASSUME SlotInv, NEW s \in Subs, UNCHANGED <<alive, header, pub>>, ReclaimSlot(s)
  PROVE  SlotInv'
<1> DEFINE i == sub[s].i
           raced == Occupied(i)
<1>0. alive[s] /\ ~Holding(s) /\ i \in Slots
  BY DEF ReclaimSlot, SubAt, SlotInv, SlotTypes, SubRecord, Holding, Claiming
<1>1. CASE ClaimSlot(i, raced) /\ SubGoto(s, "grace")
  <2>1. raced \in BOOLEAN /\ (Occupied(i) => raced)
    BY DEF Occupied
  <2> HIDE DEF raced
  <2>2. /\ sub' \in [Subs -> SubRecord] /\ SameBut(s)
        /\ sub'[s].pc = "grace" /\ sub'[s].i = sub[s].i
    BY <1>1, GotoSub DEF SubPcs, SlotInv
  <2>3. slot' \in [Slots -> SlotRecord] /\ RegionInv'
    BY <1>0, <1>1, <2>1, <2>2, ClaimStep DEF SlotInv, header
  <2>4. \A j \in Slots : Bad(j)' => Bad(j)
    BY <1>0, <1>1, <2>1, ClaimSlotSlot DEF Bad, Mends, SlotInv
  <2> QED
    BY <2>2, <2>3, <2>4, SubCells, Typed DEF SlotInv, header
<1>2. CASE NextSlot(s) /\ UNCHANGED slot
  BY <1>0, <1>2, NextSlotSub, Unmoved, SubAway DEF SlotInv, Holding, Claiming
<1> QED
  BY <1>1, <1>2 DEF ReclaimSlot

\* No live publisher in the header, nobody inside: a live owner's pid is there.
LEMMA InsideOwns ==
  ASSUME PubInv, NEW p \in Pubs, NEW j \in Slots, Inside(p, j)
  PROVE  alive[p] /\ Owner(p) /\ pub_pid = p /\ ProcessAlive(pub_pid)
BY ShmAssumption DEF PubInv, OwnerInv, Inside, Owner, ProcessAlive

LEMMA SubWaits ==
  ASSUME PubInv, SlotInv, NEW s \in Subs, UNCHANGED <<alive, header, pub>>, GraceBegins(s)
  PROVE  SlotInv'
<1> DEFINE i == sub[s].i
<1>0. alive[s] /\ Holding(s) /\ Claiming(s) /\ i \in Slots /\ sub[s] \in SubRecord
  BY DEF GraceBegins, SubAt, SlotInv, SlotTypes, SubRecord, Holding, Claiming
<1>1. UNCHANGED slot /\ StatedAt(s)
  BY DEF GraceBegins, SlotInv, RegionInv
<1>2. CASE ~NeedsGrace
  <2>1. /\ sub' \in [Subs -> SubRecord] /\ SameBut(s)
        /\ sub'[s].pc = "init" /\ sub'[s].i = i
    BY <1>2, GotoSub DEF GraceBegins, SlotInv, SubPcs
  <2>2. \A p \in Pubs : ~Inside(p, i)
    BY <1>0, <1>2, InsideOwns DEF NeedsGrace
  <2>3. StatedAt(s)' /\ ClearAt(s)' /\ FreshAt(s)'
    BY <1>0, <1>1, <2>1, <2>2 DEF StatedAt, ClearAt, FreshAt, Sound, Holding, Claiming, Inside
  <2> QED
    BY <1>0, <1>1, <2>1, <2>3, Unmoved, SubStays DEF SlotInv
<1>3. CASE NeedsGrace
  <2> DEFINE r == [sub[s] EXCEPT !.pc = "wait", !.start = accepted_ordinal]
  <2>1. accepted_ordinal \in Nat
    BY DEF PubInv, PidTypes
  <2>2. r \in SubRecord /\ r.pc = "wait" /\ r.start = accepted_ordinal /\ r.i = i
    BY <1>0, <2>1 DEF SubRecord, SubPcs
  <2>3. sub' = [sub EXCEPT ![s] = r]
    BY <1>3 DEF GraceBegins
  <2> HIDE DEF r
  <2>4. sub' \in [Subs -> SubRecord] /\ SameBut(s) /\ sub'[s] = r
    BY <2>2, <2>3 DEF SlotInv, SlotTypes, SameBut
  <2>5. StatedAt(s)' /\ ClearAt(s)' /\ FreshAt(s)'
    BY <1>0, <1>1, <2>1, <2>2, <2>4
       DEF StatedAt, ClearAt, FreshAt, Sound, Holding, Claiming, header
  <2> QED
    BY <1>0, <1>1, <2>2, <2>4, <2>5, Unmoved, SubStays DEF SlotInv
<1> QED
  BY <1>2, <1>3

LEMMA SubGrace ==
  ASSUME Prompt, PubInv, SlotInv, NEW s \in Subs, UNCHANGED <<alive, header, pub>>, GraceEnds(s)
  PROVE  SlotInv'
<1> DEFINE i == sub[s].i
<1>0. /\ alive[s] /\ Holding(s) /\ Claiming(s) /\ sub[s].pc = "wait" /\ i \in Slots
      /\ sub[s].start \in Nat /\ accepted_ordinal \in Nat
  BY DEF GraceEnds, SubAt, SlotInv, SlotTypes, SubRecord, Holding, Claiming, PubInv, PidTypes
<1>1. UNCHANGED slot /\ StatedAt(s) /\ ClearAt(s)
  BY DEF GraceEnds, SlotInv, RegionInv
<1>2. /\ sub' \in [Subs -> SubRecord] /\ SameBut(s)
      /\ sub'[s].pc = "init" /\ sub'[s].i = i
  BY GotoSub DEF GraceEnds, SlotInv, SubPcs
<1>3. ASSUME Sound(s), NEW p \in Pubs PROVE ~Inside(p, i)
  BY <1>0, <1>1, <1>3 DEF GraceEnds, ClearAt
<1>4. StatedAt(s)' /\ ClearAt(s)' /\ FreshAt(s)'
  BY <1>0, <1>1, <1>2, <1>3 DEF StatedAt, ClearAt, FreshAt, Sound, Holding, Claiming, Inside
<1> QED
  BY <1>0, <1>1, <1>2, <1>4, Unmoved, SubStays DEF SlotInv

LEMMA SubInits ==
  ASSUME SlotInv, NEW s \in Subs, UNCHANGED <<alive, header, pub>>, InitSlot(s)
  PROVE  SlotInv'
<1> DEFINE i == sub[s].i
<1>0. alive[s] /\ Holding(s) /\ Claiming(s) /\ i \in Slots /\ sub[s].pc = "init"
  BY DEF InitSlot, SubAt, SlotInv, SlotTypes, SubRecord, Holding, Claiming
<1>1. StatedAt(s) /\ ClearAt(s) /\ SlotTypes
  BY DEF SlotInv, RegionInv
<1>2. /\ sub' \in [Subs -> SubRecord] /\ SameBut(s) /\ sub'[s].i = i
      /\ sub'[s].queued = sub[s].queued /\ sub'[s].pc \in {"activate", "seed"}
  BY <1>1, GotoSub DEF InitSlot, SubPcs
<1>3. PICK r \in SlotRecord :
        /\ Put(i, r) /\ r.state = slot[i].state /\ r.raced = slot[i].raced
        /\ r.queued = sub[s].queued /\ (~sub[s].queued => ~r.box.torn)
  BY <1>1, InitSlotSlot
<1>4. /\ slot' \in [Slots -> SlotRecord] /\ slot'[i] = r
      /\ \A j \in Slots : j # i => slot'[j] = slot[j]
  BY <1>0, <1>1, <1>3, PutSlot
<1>5. StatedAt(s)' /\ ClearAt(s)' /\ FreshAt(s)'
  BY <1>0, <1>1, <1>2, <1>3, <1>4
     DEF StatedAt, ClearAt, FreshAt, Sound, Holding, Claiming, Inside
<1>6. RegionInv'
  BY <1>0, <1>2, <1>3, <1>4, <1>5, SubStep DEF SlotInv, header, Alike
<1>7. \A j \in Slots : Bad(j)' => Bad(j)
  <2>1. Sound(s) => ~Mends(r)
    BY <1>0, <1>1, <1>3 DEF StatedAt, Mends
  <2>2. ~Sound(s) => r.raced
    BY <1>0, <1>3, <1>4 DEF Sound, SlotRecord
  <2> QED
    BY <1>4, <2>1, <2>2 DEF Bad, Mends
<1> QED
  BY <1>1, <1>2, <1>4, <1>6, <1>7, SubCells, Typed DEF SlotInv, header

LEMMA SubSeeds ==
  ASSUME SlotInv, NEW s \in Subs, UNCHANGED <<alive, header, pub>>, SeedSlot(s)
  PROVE  SlotInv'
<1> DEFINE i == sub[s].i
<1>0. alive[s] /\ Holding(s) /\ Claiming(s) /\ i \in Slots /\ sub[s].pc = "seed"
  BY DEF SeedSlot, SubAt, SlotInv, SlotTypes, SubRecord, Holding, Claiming
<1>1. StatedAt(s) /\ ClearAt(s) /\ FreshAt(s) /\ SlotTypes /\ slot[i] \in SlotRecord
  BY <1>0 DEF SlotInv, RegionInv, SlotTypes
<1>2. /\ sub' \in [Subs -> SubRecord] /\ SameBut(s) /\ sub'[s].i = i
      /\ sub'[s].queued = sub[s].queued /\ sub'[s].pc = "activate"
  BY <1>1, GotoSub DEF SeedSlot, SubPcs
<1>3. /\ slot' \in [Slots -> SlotRecord] /\ \A j \in Slots : j # i => slot'[j] = slot[j]
      /\ slot'[i].state = slot[i].state /\ slot'[i].queued = slot[i].queued
      /\ slot'[i].raced = slot[i].raced /\ (slot'[i] = slot[i] \/ ~slot'[i].box.torn)
  <2>1. CASE slot' = slot
    BY <1>1, <2>1 DEF SlotTypes
  <2>2. CASE ~master.torn /\ Put(i, [slot[i] EXCEPT !.box = master])
    <3> DEFINE r == [slot[i] EXCEPT !.box = master]
    <3>1. /\ r \in SlotRecord /\ r.box = master
          /\ r.state = slot[i].state /\ r.queued = slot[i].queued /\ r.raced = slot[i].raced
      BY <1>1, SlotBox DEF SlotTypes
    <3>2. Put(i, r)
      BY <2>2
    <3> HIDE DEF r
    <3> QED
      BY <1>0, <1>1, <2>2, <3>1, <3>2, PutSlot
  <2> QED
    BY <1>1, <2>1, <2>2, SeedSlotSlot
<1>4. StatedAt(s)' /\ ClearAt(s)' /\ FreshAt(s)'
  BY <1>0, <1>1, <1>2, <1>3
     DEF StatedAt, ClearAt, FreshAt, Sound, Holding, Claiming, Inside
<1>5. RegionInv'
  BY <1>0, <1>2, <1>3, <1>4, SubStep DEF SlotInv, header, Alike
<1>6. \A j \in Slots : Bad(j)' => Bad(j)
  BY <1>3 DEF Bad, Mends
<1> QED
  BY <1>1, <1>2, <1>3, <1>5, <1>6, SubCells, Typed DEF SlotInv, header

LEMMA SubActivates ==
  ASSUME SlotInv, NEW s \in Subs, UNCHANGED <<alive, header, pub>>, Activate(s)
  PROVE  SlotInv'
<1> DEFINE i == sub[s].i
<1>0. alive[s] /\ Holding(s) /\ Claiming(s) /\ i \in Slots /\ sub[s].pc = "activate"
  BY DEF Activate, SubAt, SlotInv, SlotTypes, SubRecord, Holding, Claiming
<1>1. StatedAt(s) /\ ClearAt(s) /\ FreshAt(s) /\ SlotTypes
  BY DEF SlotInv, RegionInv
<1>2. /\ sub' \in [Subs -> SubRecord] /\ SameBut(s) /\ sub'[s].i = i /\ sub'[s].pc = "active"
  BY <1>1, GotoSub DEF Activate, SubPcs
<1>3. /\ slot' \in [Slots -> SlotRecord] /\ \A j \in Slots : j # i => slot'[j] = slot[j]
      /\ slot'[i].state = "kActive" /\ slot'[i].queued = slot[i].queued
      /\ slot'[i].raced = slot[i].raced /\ slot'[i].box = slot[i].box
  BY <1>1, StateSlot DEF Activate
<1>4. StatedAt(s)' /\ ClearAt(s)' /\ FreshAt(s)'
  BY <1>0, <1>1, <1>2, <1>3
     DEF StatedAt, ClearAt, FreshAt, Sound, Holding, Claiming
<1>5. RegionInv'
  BY <1>0, <1>2, <1>3, <1>4, SubStep DEF SlotInv, header, Alike
<1>6. \A j \in Slots : Bad(j)' => Bad(j)
  <2>1. ~Bad(i)'
    BY <1>0, <1>1, <1>2, <1>3 DEF Bad, Mends, FreshAt, Sound
  <2> QED
    BY <1>2, <1>3, <2>1 DEF Bad, Mends
<1> QED
  BY <1>1, <1>2, <1>3, <1>5, <1>6, SubCells, Typed DEF SlotInv, header

LEMMA SubDetaches ==
  ASSUME SlotInv, NEW s \in Subs, UNCHANGED <<alive, header, pub>>, DetachState(s)
  PROVE  SlotInv'
<1> DEFINE i == sub[s].i
<1>0. alive[s] /\ Holding(s) /\ i \in Slots /\ SlotTypes
  BY DEF DetachState, SubAt, SlotInv, SlotTypes, SubRecord, Holding
<1>1. /\ sub' \in [Subs -> SubRecord] /\ SameBut(s) /\ sub'[s].pc = "detaching"
  BY <1>0, GotoSub DEF DetachState, SubPcs
<1>2. /\ slot' \in [Slots -> SlotRecord] /\ \A j \in Slots : j # i => slot'[j] = slot[j]
      /\ slot'[i].state = "kFree" /\ slot'[i].raced = slot[i].raced
  BY <1>0, StateSlot DEF DetachState
<1>3. ~Holding(s)'
  BY <1>1 DEF Holding, Claiming
<1>4. StatedAt(s)' /\ ClearAt(s)' /\ FreshAt(s)'
  BY <1>3 DEF StatedAt, ClearAt, FreshAt, Sound
<1>5. RegionInv'
  BY <1>0, <1>1, <1>2, <1>3, <1>4, SubStep DEF SlotInv, header, Alike
<1>6. \A j \in Slots : Bad(j)' => Bad(j)
  BY <1>2 DEF Bad, Mends
<1> QED
  BY <1>0, <1>1, <1>2, <1>5, <1>6, SubCells, Typed DEF SlotInv, header

LEMMA SubTakes ==
  ASSUME SlotInv, NEW s \in Subs, UNCHANGED <<alive, header, pub>>,
         LoadLatest(s) \/ TakeLatest(s) \/ TryTake(s)
  PROVE  SlotInv'
<1> DEFINE i == sub[s].i
<1>0. /\ alive[s] /\ Holding(s) /\ i \in Slots /\ SlotTypes /\ sub[s] \in SubRecord
      /\ sub[s].pc \in {"active", "loaded"} /\ slot[i].box \in Cell /\ StatedAt(s)
  BY DEF LoadLatest, TakeLatest, TryTake, SubAt, SlotInv, SlotTypes, SubRecord, Holding,
     SlotRecord, RegionInv
<1>1. slot' \in [Slots -> SlotRecord] /\ \A j \in Slots : Alike(slot'[j], slot[j])
  BY <1>0, Unmoved, TakeLatestSlot, TryTakeSlot DEF LoadLatest
<1>2. /\ sub' \in [Subs -> SubRecord] /\ SameBut(s) /\ sub'[s].i = i
      /\ sub'[s].pc \in {"active", "loaded"}
  <2>1. CASE LoadLatest(s)
    <3> DEFINE box == slot[i].box
               got == IF box.torn \/ box = Empty THEN sub[s].cached ELSE box.ordinal
               r == [sub[s] EXCEPT !.pc = "loaded", !.cached = got, !.record = got]
    <3>1. got \in Nat
      BY <1>0 DEF Cell, SubRecord
    <3>2. sub' = [sub EXCEPT ![s] = r]
      BY <2>1 DEF LoadLatest, Refreshed
    <3> HIDE DEF got
    <3>3. r \in SubRecord /\ r.pc = "loaded" /\ r.i = i
      BY <1>0, <3>1 DEF SubRecord, SubPcs
    <3> HIDE DEF r
    <3> QED
      BY <1>0, <3>2, <3>3 DEF SlotTypes, SameBut
  <2>2. CASE TakeLatest(s)
    <3> DEFINE r == [sub[s] EXCEPT !.pc = "active", !.record = 0]
    <3>1. sub' = [sub EXCEPT ![s] = r]
      BY <2>2 DEF TakeLatest
    <3>2. r \in SubRecord /\ r.pc = "active" /\ r.i = i
      BY <1>0 DEF SubRecord, SubPcs
    <3> HIDE DEF r
    <3> QED
      BY <1>0, <3>1, <3>2 DEF SlotTypes, SameBut
  <2>3. CASE TryTake(s)
    BY <1>0, <2>3 DEF TryTake, SlotTypes, SameBut
  <2> QED
    BY <2>1, <2>2, <2>3
<1>3. StatedAt(s)' /\ ClearAt(s)' /\ FreshAt(s)'
  BY <1>0, <1>1, <1>2 DEF StatedAt, ClearAt, FreshAt, Sound, Holding, Claiming, Alike
<1> QED
  BY <1>0, <1>1, <1>2, <1>3, SubStays

LEMMA SubscriberKeeps ==
  ASSUME Prompt, PubInv, SlotInv, NEW s \in Subs, Subscriber(s)
  PROVE  SlotInv'
<1>0. UNCHANGED <<alive, header, pub>>
  BY DEF Subscriber, life
<1>1. CASE DetachPid(s)
  <2>1. alive[s] /\ sub' \in [Subs -> SubRecord] /\ SameBut(s) /\ sub'[s].pc = "closed"
    BY <1>1, GotoSub DEF DetachPid, SubAt, SubPcs, SlotInv
  <2> QED
    BY <1>0, <1>1, <2>1, DetachPidSlot, SubAway DEF SlotInv, Holding, Claiming
<1> QED
  BY <1>0, <1>1, SubClaims, SubProbes, SubReclaims, SubWaits, SubGrace, SubInits, SubSeeds,
     SubActivates, SubDetaches, SubTakes DEF Subscriber

-----------------------------------------------------------------------------
\* Steps of a publisher.

OthersPub(p) == \A q \in Pubs : q # p => pub'[q] = pub[q]

LEMMA GotoPub ==
  ASSUME PubInv, NEW p \in Pubs, NEW x \in PubPcs, PubGoto(p, x)
  PROVE  /\ OthersPub(p) /\ pub'[p].pc = x /\ pub'[p].i = pub[p].i
         /\ pub'[p].ordinal = pub[p].ordinal
BY DEF PubInv, PidTypes, PubRecord, PubGoto, OthersPub

LEMMA AdvancePub ==
  ASSUME PubInv, SlotTypes, NEW p \in Pubs, NEW loop \in PubPcs, NEW done \in PubPcs,
         PubAdvance(p, loop, done)
  PROVE  /\ OthersPub(p) /\ pub'[p].i \in Slots /\ pub'[p].ordinal = pub[p].ordinal
         /\ \/ pub'[p].pc = loop /\ pub'[p].i = pub[p].i + 1
            \/ pub'[p].pc = done /\ pub[p].i = kMaxSubscribers
<1>1. pub[p].i \in Slots /\ pub \in [Pubs -> PubRecord] /\ kMaxSubscribers \in Nat \ {0}
  BY ShmAssumption DEF SlotTypes, PubInv, PidTypes
<1>2. CASE LastSlot(p)
  <2>1. pub' = [pub EXCEPT ![p].pc = done, ![p].i = 1]
    BY <1>2 DEF PubAdvance
  <2> QED
    BY <1>1, <1>2, <2>1 DEF PubRecord, LastSlot, OthersPub, Slots
<1>3. CASE ~LastSlot(p)
  <2>1. pub' = [pub EXCEPT ![p].pc = loop, ![p].i = @ + 1]
    BY <1>3 DEF PubAdvance
  <2> QED
    BY <1>1, <1>3, <2>1 DEF PubRecord, LastSlot, OthersPub, Slots
<1> QED
  BY <1>2, <1>3

\* A publisher outside the slots that tries for, wins or gives up the topic.
LEMMA PubOutside ==
  ASSUME SlotInv, NEW p \in Pubs, OthersPub(p), pub'[p].i = pub[p].i,
         pub'[p].pc \in {"probe", "reclaim", "refused", "claimed", "closed"},
         UNCHANGED <<alive, accepted_ordinal, master, slot, sub>>
  PROVE  SlotInv'
<1>1. SlotTypes'
  BY DEF SlotInv, SlotTypes, OthersPub
<1>2. \A q \in Pubs, j \in Slots : Inside(q, j)' => Inside(q, j)
  BY DEF Inside, OthersPub
<1>3. RegionInv'
  BY <1>2, SMTT(30) DEF SlotInv, SlotTypes, SubRecord, RegionInv, StatedAt, ClearAt, FreshAt, SoleAt, Sound,
     Holding, Claiming
<1>4. ASSUME NEW q \in Pubs PROVE WholeAt(q)'
  <2>1. WholeAt(q) /\ \A j \in Slots : Bad(j)' = Bad(j)
    BY DEF SlotInv, CellInv, Bad, Mends
  <2>2. CASE q = p
    BY <2>1, <2>2 DEF WholeAt, Owner
  <2>3. CASE q # p
    BY <2>1, <2>3 DEF WholeAt, Owner, OthersPub
  <2> QED
    BY <2>2, <2>3
<1> QED
  BY <1>1, <1>3, <1>4 DEF SlotInv, CellInv

\* The owner moves on: it writes only cells it is inside of, enters only active
\* slots, and counts a record only outside all of them.
LEMMA OwnerMoves ==
  ASSUME PubInv, SlotInv, NEW p \in Pubs, alive[p], Owner(p), UNCHANGED <<alive, sub>>,
         OthersPub(p), pub'[p].i \in Slots, master' \in Cell, slot' \in [Slots -> SlotRecord],
         \A j \in Slots : /\ slot'[j].state = slot[j].state
                          /\ slot'[j].queued = slot[j].queued
                          /\ slot'[j].raced = slot[j].raced
                          /\ slot'[j].box = slot[j].box \/ Inside(p, j)
                          /\ Inside(p, j)' => Inside(p, j) \/ slot[j].state = "kActive",
         UNCHANGED accepted_ordinal \/ \A j \in Slots : ~Inside(p, j)',
         WholeAt(p)'
  PROVE  SlotInv'
<1>1. SlotTypes'
  BY DEF SlotInv, SlotTypes, OthersPub
<1>2. \A q \in Pubs : alive[q] /\ Owner(q) => q = p
  BY DEF PubInv, OwnerInv
<1>3. \A q \in Pubs : q # p => ~(alive'[q] /\ Owner(q)')
  BY <1>2 DEF Owner, OthersPub
<1>4. CellInv'
  BY <1>3 DEF CellInv, WholeAt
<1>5. \A q \in Pubs, j \in Slots : Inside(q, j)' => q = p
  BY <1>3 DEF Inside, Owner
<1>6. ASSUME NEW s \in Subs PROVE StatedAt(s)' /\ ClearAt(s)' /\ FreshAt(s)'
  <2>1. sub[s].i \in Slots /\ StatedAt(s) /\ ClearAt(s) /\ FreshAt(s)
    BY DEF SlotInv, SlotTypes, SubRecord, RegionInv
  <2>2. Sound(s)' <=> Sound(s)
    BY <2>1 DEF Sound, Holding, Claiming
  <2>3. StatedAt(s)'
    BY <2>1, <2>2 DEF StatedAt, Claiming
  <2>4. ClearAt(s)'
    BY <1>5, <2>1, <2>2 DEF ClearAt, StatedAt, Claiming
  <2>5. FreshAt(s)'
    BY <2>1, <2>2 DEF FreshAt, ClearAt
  <2> QED
    BY <2>3, <2>4, <2>5
<1>7. ASSUME NEW s \in Subs, NEW t \in Subs PROVE SoleAt(s, t)'
  BY DEF SlotInv, SlotTypes, SubRecord, RegionInv, SoleAt, Sound, Holding, Claiming
<1> QED
  BY <1>1, <1>4, <1>6, <1>7 DEF SlotInv, RegionInv

\* One cell of the owner's slot is written.
LEMMA CellPut ==
  ASSUME SlotTypes, NEW p \in Pubs, NEW box \in Cell,
         Put(pub[p].i, [slot[pub[p].i] EXCEPT !.box = box])
  PROVE  /\ slot' \in [Slots -> SlotRecord] /\ slot'[pub[p].i].box = box
         /\ \A j \in Slots : j # pub[p].i => slot'[j] = slot[j]
         /\ \A j \in Slots : /\ slot'[j].state = slot[j].state
                             /\ slot'[j].queued = slot[j].queued
                             /\ slot'[j].raced = slot[j].raced
<1> DEFINE i == pub[p].i
           r == [slot[i] EXCEPT !.box = box]
<1>1. i \in Slots /\ slot[i] \in SlotRecord
  BY DEF SlotTypes
<1>2. /\ r \in SlotRecord /\ r.box = box
      /\ r.state = slot[i].state /\ r.queued = slot[i].queued /\ r.raced = slot[i].raced
  BY <1>1, SlotBox
<1>3. Put(i, r)
  OBVIOUS
<1> HIDE DEF r
<1> QED
  BY <1>1, <1>2, <1>3, PutSlot

\* The claim of the topic and its release.
LEMMA PubEnters ==
  ASSUME PubInv, SlotInv, NEW p \in Pubs, UNCHANGED <<life, sub>>,
         \/ ClaimPublisherSlot(p) \/ ProbeOwner(p) \/ ReclaimPublisher(p) \/ ReleasePublisher(p)
  PROVE  SlotInv'
<1>1. UNCHANGED <<alive, accepted_ordinal, master, slot, sub>>
  BY DEF ClaimPublisherSlot, ProbeOwner, ReclaimPublisher, ReleasePublisher, life, header
<1>2. \/ \E x \in {"reclaim", "refused", "claimed", "closed"} : PubGoto(p, x)
      \/ pub' = [pub EXCEPT ![p].pc = "probe", ![p].expected = pub_pid]
  BY DEF ClaimPublisherSlot, ProbeOwner, ReclaimPublisher, ReleasePublisher
<1>3. /\ OthersPub(p) /\ pub'[p].i = pub[p].i
      /\ pub'[p].pc \in {"probe", "reclaim", "refused", "claimed", "closed"}
  BY <1>2 DEF PubInv, PidTypes, PubRecord, PubGoto, OthersPub
<1> QED
  BY <1>1, <1>3, PubOutside

\* A publisher that claims the topic starts its repairs at the first slot.
CursorInv ==
  \A p \in Pubs : pub[p].pc \in {"unborn", "probe", "reclaim", "claimed"} => pub[p].i = 1

LEMMA OwnerOutside ==
  ASSUME PubInv, CursorInv, SlotInv, NEW p \in Pubs, UNCHANGED <<life, sub>>,
         RepairMaster(p) \/ Publish(p) \/ MasterStoreBegins(p) \/ MasterStoreEnds(p)
  PROVE  SlotInv'
<1>1. /\ alive[p] /\ Owner(p) /\ UNCHANGED <<alive, sub, slot>>
      /\ WholeAt(p) /\ SlotTypes /\ pub[p].i \in Slots
  BY DEF RepairMaster, Publish, MasterStoreBegins, MasterStoreEnds, PubAt, Owner, life, SlotInv,
     CellInv, SlotTypes
<1>2. /\ OthersPub(p) /\ pub'[p].i = pub[p].i
      /\ pub'[p].pc \in {"repair", "accepted", "master", "load"}
  BY DEF RepairMaster, Publish, MasterStoreBegins, MasterStoreEnds, PubInv, PidTypes, PubRecord,
     PubGoto, OthersPub
<1>3. CASE RepairMaster(p)
  <2>1. pub[p].pc = "claimed" /\ pub[p].i = 1 /\ pub'[p].pc = "repair"
    BY <1>3, GotoPub DEF RepairMaster, PubAt, PubPcs, CursorInv
  <2>2. master' \in Cell /\ ~master'.torn
    BY <1>1, <1>3 DEF RepairMaster, MasterRestored, Repaired, Empty, Cell, SlotTypes
  <2>3. WholeAt(p)'
    BY <1>1, <1>2, <2>1, <2>2 DEF WholeAt, Slots
  <2> QED
    BY <1>1, <1>2, <2>1, <2>2, <2>3, OwnerMoves DEF Inside, SlotTypes
<1>4. CASE Publish(p)
  <2>1. pub[p].pc = "idle" /\ pub'[p].pc = "accepted" /\ UNCHANGED master
    BY <1>4 DEF Publish, PubAt, PubInv, PidTypes, PubRecord
  <2>2. WholeAt(p)'
    BY <1>1, <2>1 DEF WholeAt, Bad, Mends
  <2> QED
    BY <1>1, <1>2, <2>1, <2>2, OwnerMoves DEF Inside, SlotTypes
<1>5. CASE MasterStoreBegins(p)
  <2>1. pub[p].pc = "accepted" /\ pub'[p].pc = "master"
    BY <1>5, GotoPub DEF MasterStoreBegins, PubAt, PubPcs
  <2>2. master' \in Cell
    BY <1>1, <1>5 DEF MasterStoreBegins, Cell, SlotTypes
  <2>3. WholeAt(p)'
    BY <1>1, <2>1 DEF WholeAt, Bad, Mends
  <2> QED
    BY <1>1, <1>2, <2>1, <2>2, <2>3, OwnerMoves DEF Inside, SlotTypes
<1>6. CASE MasterStoreEnds(p)
  <2>1. pub[p].pc = "master" /\ pub'[p].pc = "load"
    BY <1>6, GotoPub DEF MasterStoreEnds, PubAt, PubPcs
  <2>2. master' \in Cell /\ ~master'.torn
    BY <1>6 DEF MasterStoreEnds, Cell, PubInv, PidTypes, PubRecord
  <2>3. WholeAt(p)'
    BY <1>1, <2>1, <2>2 DEF WholeAt, Bad, Mends
  <2> QED
    BY <1>1, <1>2, <2>1, <2>2, <2>3, OwnerMoves DEF Inside, SlotTypes
<1> QED
  BY <1>3, <1>4, <1>5, <1>6

\* Steps that read a slot, or write only what the argument does not look at.
LEMMA OwnerReads ==
  ASSUME PubInv, SlotInv, NEW p \in Pubs, UNCHANGED <<life, sub>>,
         RepairLoad(p) \/ LoadState(p) \/ LoadKind(p) \/ StampBaseline(p) \/ Push(p)
  PROVE  SlotInv'
<1> DEFINE i == pub[p].i
<1>1. /\ alive[p] /\ Owner(p) /\ UNCHANGED <<alive, sub, accepted_ordinal, master>>
      /\ WholeAt(p) /\ SlotTypes /\ i \in Slots
  BY DEF RepairLoad, LoadState, LoadKind, StampBaseline, Push, PubAt, Owner, life, header, SlotInv,
     CellInv, SlotTypes
<1>2. slot' \in [Slots -> SlotRecord] /\ \A j \in Slots : Alike(slot'[j], slot[j])
  BY <1>1, Unmoved, StampBaselineSlot, PushSlot DEF RepairLoad, LoadState, LoadKind
<1>3. ASSUME OthersPub(p), pub'[p].i \in Slots, WholeAt(p)',
             \A j \in Slots : Inside(p, j)' => Inside(p, j) \/ slot[j].state = "kActive"
      PROVE  SlotInv'
  BY <1>1, <1>2, <1>3, OwnerMoves DEF Alike, SlotTypes
<1>4. \A j \in Slots : Bad(j)' <=> Bad(j)
  BY <1>2 DEF Bad, Mends, Alike
<1>5. CASE RepairLoad(p) /\ Mends(slot[i])
  <2>1. OthersPub(p) /\ pub'[p].pc = "mend" /\ pub'[p].i = i /\ pub[p].pc = "repair"
    BY <1>5, GotoPub DEF RepairLoad, PubAt, PubPcs
  <2> QED
    BY <1>1, <1>3, <1>4, <1>5, <2>1 DEF WholeAt, Inside, Mends
<1>6. CASE RepairLoad(p) /\ ~Mends(slot[i])
  <2>1. PubAdvance(p, "repair", "idle") /\ pub[p].pc = "repair"
    BY <1>6 DEF RepairLoad, PubAt
  <2>2. /\ OthersPub(p) /\ pub'[p].i \in Slots
        /\ \/ pub'[p].pc = "repair" /\ pub'[p].i = i + 1
           \/ pub'[p].pc = "idle" /\ i = kMaxSubscribers
    BY <1>1, <2>1, AdvancePub DEF PubPcs
  <2>3. \A j \in Slots : Bad(j) => i < j
    BY <1>1, <1>6, <2>1 DEF WholeAt, Bad, Slots
  <2>4. WholeAt(p)'
    BY <1>1, <1>4, <2>1, <2>2, <2>3, ShmAssumption DEF WholeAt, Slots
  <2> QED
    BY <1>3, <2>2, <2>4 DEF Inside
<1>7. CASE LoadKind(p) \/ StampBaseline(p)
  <2>1. PICK x \in {"push", "stamp", "begin"} : PubGoto(p, x)
    BY <1>7 DEF LoadKind, StampBaseline
  <2>2. /\ OthersPub(p) /\ pub'[p].pc = x /\ pub'[p].i = i /\ pub[p].pc \in {"kind", "stamp"}
    BY <1>7, <2>1, GotoPub DEF LoadKind, StampBaseline, PubAt, PubPcs
  <2> QED
    BY <1>1, <1>3, <1>4, <2>2 DEF WholeAt, Inside
<1>8. CASE LoadState(p) /\ slot[i].state = "kActive"
  <2>1. OthersPub(p) /\ pub'[p].pc = "kind" /\ pub'[p].i = i /\ pub[p].pc = "load"
    BY <1>8, GotoPub DEF LoadState, PubAt, PubPcs
  <2> QED
    BY <1>1, <1>3, <1>4, <1>8, <2>1 DEF WholeAt, Inside
<1>9. CASE (LoadState(p) /\ slot[i].state # "kActive") \/ Push(p)
  <2>1. PubAdvance(p, "load", "idle") /\ pub[p].pc \in {"load", "push"}
    BY <1>9 DEF LoadState, Push, PubAt
  <2>2. OthersPub(p) /\ pub'[p].i \in Slots /\ pub'[p].pc \in {"load", "idle"}
    BY <1>1, <2>1, AdvancePub DEF PubPcs
  <2> QED
    BY <1>1, <1>3, <1>4, <2>1, <2>2 DEF WholeAt, Inside
<1> QED
  BY <1>5, <1>6, <1>7, <1>8, <1>9

\* Steps that write the mailbox of the slot the owner is inside of.
LEMMA OwnerWrites ==
  ASSUME PubInv, SlotInv, NEW p \in Pubs, UNCHANGED <<life, sub>>,
         RepairMailbox(p) \/ StoreBegins(p) \/ StoreEnds(p)
  PROVE  SlotInv'
<1> DEFINE i == pub[p].i
<1>1. /\ alive[p] /\ Owner(p) /\ UNCHANGED <<alive, sub, accepted_ordinal, master>>
      /\ WholeAt(p) /\ SlotTypes /\ i \in Slots /\ Inside(p, i)
  BY DEF RepairMailbox, StoreBegins, StoreEnds, PubAt, Owner, life, header, SlotInv, CellInv,
     SlotTypes, Inside
<1>2. PICK box \in Cell : /\ Put(i, [slot[i] EXCEPT !.box = box])
                          /\ box.torn => StoreBegins(p)
  BY <1>1, RepairMailboxSlot, StoreBeginsSlot, StoreEndsSlot
<1>3. /\ slot' \in [Slots -> SlotRecord] /\ slot'[i].box = box
      /\ \A j \in Slots : j # i => slot'[j] = slot[j]
      /\ \A j \in Slots : /\ slot'[j].state = slot[j].state
                          /\ slot'[j].queued = slot[j].queued
                          /\ slot'[j].raced = slot[j].raced
  BY <1>1, <1>2, CellPut
<1>4. ASSUME OthersPub(p), pub'[p].i \in Slots, WholeAt(p)',
             \A j \in Slots : Inside(p, j)' => Inside(p, j)
      PROVE  SlotInv'
  BY <1>1, <1>3, <1>4, OwnerMoves DEF SlotTypes
<1>5. CASE StoreBegins(p)
  <2>1. OthersPub(p) /\ pub'[p].pc = "store" /\ pub'[p].i = i /\ pub[p].pc = "begin"
    BY <1>5, GotoPub DEF StoreBegins, PubAt, PubPcs
  <2>2. \A j \in Slots : Bad(j)' => j = i
    BY <1>1, <1>3, <2>1 DEF Bad, Mends, WholeAt
  <2> QED
    BY <1>1, <1>4, <2>1, <2>2 DEF WholeAt, Inside
<1>6. CASE ~StoreBegins(p)
  <2>1. \/ pub[p].pc = "mend" /\ PubAdvance(p, "repair", "idle")
        \/ pub[p].pc = "store" /\ PubAdvance(p, "load", "idle")
    BY <1>6 DEF RepairMailbox, StoreEnds, PubAt
  <2>2. \A j \in Slots : Bad(j)' => j # i /\ Bad(j)
    BY <1>1, <1>2, <1>3, <1>6 DEF Bad, Mends
  <2>3. CASE pub[p].pc = "mend" /\ PubAdvance(p, "repair", "idle")
    <3>1. /\ OthersPub(p) /\ pub'[p].i \in Slots
          /\ \/ pub'[p].pc = "repair" /\ pub'[p].i = i + 1
             \/ pub'[p].pc = "idle" /\ i = kMaxSubscribers
      BY <1>1, <2>3, AdvancePub DEF PubPcs
    <3>2. ASSUME NEW j \in Slots, Bad(j)' PROVE i < j
      <4>1. j # i /\ Bad(j)
        BY <2>2, <3>2
      <4>2. i <= j
        BY <1>1, <2>3, <4>1 DEF WholeAt
      <4> QED
        BY <1>1, <4>1, <4>2 DEF Slots
    <3>3. ASSUME NEW j \in Slots, Bad(j)'
          PROVE  pub'[p].pc = "repair" /\ pub'[p].i <= j
      <4>1. i < j
        BY <3>2, <3>3
      <4> QED
        BY <1>1, <3>1, <4>1, ShmAssumption DEF Slots
    <3>4. WholeAt(p)'
      BY <1>1, <2>3, <3>1, <3>3 DEF WholeAt
    <3> QED
      BY <1>4, <3>1, <3>4 DEF Inside
  <2>4. CASE pub[p].pc = "store" /\ PubAdvance(p, "load", "idle")
    <3>1. OthersPub(p) /\ pub'[p].i \in Slots /\ pub'[p].pc \in {"load", "idle"}
      BY <1>1, <2>4, AdvancePub DEF PubPcs
    <3>2. WholeAt(p)'
      BY <1>1, <2>2, <2>4, <3>1 DEF WholeAt
    <3> QED
      BY <1>4, <3>1, <3>2 DEF Inside
  <2> QED
    BY <2>1, <2>3, <2>4
<1> QED
  BY <1>5, <1>6

LEMMA PublisherKeeps ==
  ASSUME PubInv, CursorInv, SlotInv, NEW p \in Pubs, Publisher(p)
  PROVE  SlotInv'
BY PubEnters, OwnerOutside, OwnerReads, OwnerWrites DEF Publisher

LEMMA CursorNext ==
  ASSUME PubInv, CursorInv, SlotTypes, [Next]_vars
  PROVE  CursorInv'
<1>1. ASSUME NEW p \in Pubs, ClaimPublisherSlot(p) \/ ProbeOwner(p) \/ ReclaimPublisher(p)
      PROVE  CursorInv'
  <2>1. pub[p].i = 1
    BY <1>1 DEF ClaimPublisherSlot, ProbeOwner, ReclaimPublisher, PubAt, CursorInv
  <2>2. OthersPub(p) /\ pub'[p].i = pub[p].i
    BY <1>1 DEF ClaimPublisherSlot, ProbeOwner, ReclaimPublisher, PubInv, PidTypes, PubRecord,
       PubGoto, OthersPub
  <2> QED
    BY <2>1, <2>2 DEF CursorInv, OthersPub
<1>2. ASSUME NEW p \in Pubs, OthersPub(p),
             pub'[p].pc \notin {"unborn", "probe", "reclaim", "claimed"}
      PROVE  CursorInv'
  BY <1>2 DEF CursorInv, OthersPub
<1>3. ASSUME NEW p \in Pubs,
             \/ RepairMaster(p) \/ RepairLoad(p) \/ RepairMailbox(p) \/ ReleasePublisher(p)
             \/ Publish(p) \/ MasterStoreBegins(p) \/ MasterStoreEnds(p) \/ LoadState(p)
             \/ LoadKind(p) \/ StampBaseline(p) \/ StoreBegins(p) \/ StoreEnds(p) \/ Push(p)
      PROVE  CursorInv'
  <2>1. \/ \E x \in PubPcs \ {"unborn", "probe", "reclaim", "claimed"} : PubGoto(p, x)
        \/ PubAdvance(p, "repair", "idle") \/ PubAdvance(p, "load", "idle")
        \/ pub' = [pub EXCEPT ![p].pc = "accepted", ![p].ordinal = NextOrdinal(p)]
    BY <1>3 DEF RepairMaster, RepairLoad, RepairMailbox, ReleasePublisher, Publish,
       MasterStoreBegins, MasterStoreEnds, LoadState, LoadKind, StampBaseline, StoreBegins,
       StoreEnds, Push, PubPcs
  <2>2. OthersPub(p) /\ pub'[p].pc \notin {"unborn", "probe", "reclaim", "claimed"}
    BY <2>1 DEF PubInv, PidTypes, PubRecord, PubGoto, PubAdvance, OthersPub
  <2> QED
    BY <1>2, <2>2
<1>4. ASSUME UNCHANGED pub PROVE CursorInv'
  BY <1>4 DEF CursorInv
<1> QED
  BY <1>1, <1>3, <1>4 DEF Next, Publisher, Subscriber, Crash, vars

-----------------------------------------------------------------------------
\* Crashes, and the whole.

\* Killing a process takes it out of every condition; what it wrote stays.
LEMMA CrashKeeps ==
  ASSUME PubInv, SlotInv, NEW x \in Pubs \cup Subs, Crash(x)
  PROVE  SlotInv'
<1>1. UNCHANGED <<accepted_ordinal, master, slot, pub, sub>>
  BY DEF Crash, header
<1>2. \A y \in Pubs \cup Subs : alive'[y] => alive[y]
  BY DEF Crash, PubInv, PidTypes
<1>3. SlotTypes'
  BY <1>1 DEF SlotInv, SlotTypes
<1>4. RegionInv'
  <2> SUFFICES ASSUME NEW s \in Subs
               PROVE  StatedAt(s)' /\ ClearAt(s)' /\ FreshAt(s)' /\ \A t \in Subs : SoleAt(s, t)'
    BY DEF RegionInv
  <2>1. StatedAt(s) /\ ClearAt(s) /\ FreshAt(s) /\ \A t \in Subs : SoleAt(s, t)
    BY DEF SlotInv, RegionInv
  <2>2. \A t \in Subs : Sound(t)' => Sound(t)
    BY <1>1, <1>2 DEF Sound, Holding, Claiming
  <2>3. \A p \in Pubs, j \in Slots : Inside(p, j)' => Inside(p, j)
    BY <1>1, <1>2 DEF Inside
  <2>4. StatedAt(s)'
    BY <1>1, <2>1, <2>2 DEF StatedAt, Claiming
  <2>5. sub[s].i \in Slots
    BY DEF SlotInv, SlotTypes, SubRecord
  <2>6. ClearAt(s)'
    BY <1>1, <2>1, <2>2, <2>3, <2>5 DEF ClearAt
  <2>7. FreshAt(s)'
    BY <1>1, <2>1, <2>2 DEF FreshAt
  <2>8. \A t \in Subs : SoleAt(s, t)'
    BY <1>1, <2>1, <2>2 DEF SoleAt
  <2> QED
    BY <2>4, <2>6, <2>7, <2>8
<1>5. CellInv'
  BY <1>1, <1>2 DEF SlotInv, CellInv, WholeAt, Owner, Bad, Mends
<1> QED
  BY <1>3, <1>4, <1>5 DEF SlotInv

LEMMA SlotInit == Init => CursorInv /\ SlotInv
<1> SUFFICES ASSUME Init PROVE CursorInv /\ SlotInv
  OBVIOUS
<1>1. 1 \in Slots
  BY ShmAssumption DEF Slots
<1>2. Empty \in Cell /\ ~Empty.torn
  BY DEF Empty, Cell
<1>3. FreeSlot \in SlotRecord
  BY <1>2 DEF FreeSlot, SlotRecord
<1>4. sub \in [Subs -> SubRecord] /\ \A s \in Subs : sub[s].pc = "unborn"
  BY <1>1 DEF Init, SubRecord, SubPcs
<1>5. \A p \in Pubs : pub[p].pc = "unborn" /\ pub[p].i = 1
  BY DEF Init
<1>6. SlotTypes
  BY <1>1, <1>2, <1>3, <1>4, <1>5 DEF Init, SlotTypes
<1>7. RegionInv
  BY <1>4 DEF RegionInv, StatedAt, ClearAt, FreshAt, SoleAt, Sound, Holding, Claiming
<1>8. CellInv /\ CursorInv
  BY <1>5 DEF CellInv, WholeAt, Owner, CursorInv
<1> QED
  BY <1>6, <1>7, <1>8 DEF SlotInv

LEMMA SlotStutter ==
  ASSUME SlotInv, UNCHANGED vars
  PROVE  SlotInv'
<1> USE DEF vars
<1>1. SlotTypes'
  BY DEF SlotInv, SlotTypes
<1>2. RegionInv'
  <2> SUFFICES ASSUME NEW s \in Subs
               PROVE  StatedAt(s)' /\ ClearAt(s)' /\ FreshAt(s)' /\ \A t \in Subs : SoleAt(s, t)'
    BY DEF RegionInv
  <2>1. UNCHANGED <<slot, sub, pub, alive, accepted_ordinal>>
    OBVIOUS
  <2>2. StatedAt(s) /\ ClearAt(s) /\ FreshAt(s) /\ \A t \in Subs : SoleAt(s, t)
    BY DEF SlotInv, RegionInv
  <2>3. StatedAt(s)'
    BY <2>1, <2>2 DEF StatedAt, Sound, Holding, Claiming
  <2>4. ClearAt(s)'
    BY <2>1, <2>2 DEF ClearAt, Sound, Holding, Claiming, Inside
  <2>5. FreshAt(s)'
    BY <2>1, <2>2 DEF FreshAt, Sound, Holding, Claiming
  <2>6. \A t \in Subs : SoleAt(s, t)'
    BY <2>1, <2>2 DEF SoleAt, Sound, Holding, Claiming
  <2> QED
    BY <2>3, <2>4, <2>5, <2>6
<1>3. CellInv'
  BY DEF SlotInv, CellInv, WholeAt, Owner, Bad, Mends
<1> QED
  BY <1>1, <1>2, <1>3 DEF SlotInv

LEMMA SlotNext ==
  ASSUME Prompt
  PROVE  PubInv /\ CursorInv /\ SlotInv /\ [Next]_vars => CursorInv' /\ SlotInv'
<1> SUFFICES ASSUME PubInv, CursorInv, SlotInv, [Next]_vars PROVE CursorInv' /\ SlotInv'
  OBVIOUS
<1>1. CursorInv'
  BY CursorNext DEF SlotInv
<1>2. SlotInv'
  BY PublisherKeeps, SubscriberKeeps, CrashKeeps, SlotStutter DEF Next
<1> QED
  BY <1>1, <1>2

LEMMA SlotInvAlways ==
  ASSUME Prompt
  PROVE  Spec => []SlotInv
<1>1. PubInv /\ CursorInv /\ SlotInv /\ [Next]_vars => CursorInv' /\ SlotInv'
  BY SlotNext
<1> QED
  BY <1>1, PubInit, PubNext, SlotInit, PTL DEF Spec

\* The region of a claimant for any number of processes, slots and crashes: as
\* long as a live publisher leaves a slot within the grace, no publisher is inside
\* a reclaimed region that is being initialised, and nobody takes it away.
THEOREM ExclusiveRegionAlways ==
  ASSUME Prompt
  PROVE  Spec => []ExclusiveRegion
<1>1. SlotInv => ExclusiveRegion
  BY DEF SlotInv, RegionInv, StatedAt, ClearAt, Sound, Holding, Claiming, ExclusiveRegion
<1> QED
  BY <1>1, SlotInvAlways, PTL

\* M4-A2 for any number of publishers dying anywhere in a store or in the repairs
\* of another's: past its own repairs a live owner meets no torn cell in use but
\* the one it is storing.
THEOREM CellsRepairedAlways ==
  ASSUME Prompt
  PROVE  Spec => []CellsRepaired
<1>1. SlotInv => CellsRepaired
  BY DEF SlotInv, CellInv, WholeAt, Bad, CellsRepaired
<1> QED
  BY <1>1, SlotInvAlways, PTL
=============================================================================
