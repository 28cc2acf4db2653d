------------------------------ MODULE ShmTopic ------------------------------
(***************************************************************************)
(* One topic on the POSIX-shm reach: the segment header and data plane of  *)
(* detail/shm_segment.hpp driven by the ShmPubImpl and ShmSubImpl of       *)
(* detail/posix_shm.hpp, one endpoint per process.  Any process may be     *)
(* killed between any two shared-memory accesses; what it wrote stays.     *)
(* Pids are not recycled.  A seqlock cell (external MessageSlot) holds the *)
(* ordinal of its record, 0 when empty, and is torn from the first to the  *)
(* last word of a Store: a bounded load of a torn cell stalls, a repair    *)
(* empties it.  Stamps and freshness are those of Topic and left out.      *)
(***************************************************************************)
EXTENDS Integers, Sequences, FiniteSets

CONSTANTS
  Pubs, Subs,     \* publisher and subscriber processes
  Casts,          \* [runs, queued]: processes that run together, the subscribers
                  \* among them that declare queue history
  Detachers,      \* the subscribers that may close gracefully
  kMaxSubscribers, Depth,
  Prompt,         \* TRUE: a live publisher leaves a slot within the 20 ms grace
  MaxAccepted, MaxTakes, MaxCrashes,
  None            \* pid 0

ASSUME ShmAssumption ==
  /\ None \notin Pubs /\ None \notin Subs /\ Pubs \cap Subs = {}
  /\ Casts \subseteq [runs : SUBSET (Pubs \cup Subs), queued : SUBSET Subs]
  /\ Detachers \subseteq Subs /\ Prompt \in BOOLEAN
  /\ kMaxSubscribers \in Nat \ {0} /\ Depth \in Nat \ {0}
  /\ MaxAccepted \in Nat /\ MaxTakes \in Nat /\ MaxCrashes \in Nat

Slots == 1..kMaxSubscribers
kBaselineUnset == MaxAccepted + 1

Cell  == [ordinal : Nat, torn : BOOLEAN]
Empty == [ordinal |-> 0, torn |-> FALSE]
Repaired(cell) == IF cell.torn THEN Empty ELSE cell

VARIABLES
  alive, crashes,
  pub_pid, pub_epoch, accepted_ordinal, master,   \* segment header, master cell
  slot,     \* ShmSubSlot i with its mailbox and ring; history: claimed in a race
  pub,      \* publisher locals: pc, expected pid, record ordinal, slot cursor
  sub,      \* subscriber locals: pc, declaration, slot index, start ordinal,
            \* cached_, record
  offered, taken   \* history: ordinals delivered to and returned by a subscriber

vars == <<alive, crashes, pub_pid, pub_epoch, accepted_ordinal, master, slot,
          pub, sub, offered, taken>>
header == <<pub_pid, pub_epoch, accepted_ordinal, master>>
life   == <<alive, crashes>>
past   == <<offered, taken>>

FreeSlot == [state |-> "kFree", pid |-> None, queued |-> FALSE,
             last |-> 0, takes |-> 0, drops |-> 0, overwrites |-> 0,
             box |-> Empty, ring |-> <<>>, raced |-> FALSE]

Init ==
  /\ crashes = 0
  /\ pub_pid = None /\ pub_epoch = 0 /\ accepted_ordinal = 0 /\ master = Empty
  /\ slot = [i \in Slots |-> FreeSlot]
  /\ pub = [p \in Pubs |-> [pc |-> "unborn", expected |-> None, ordinal |-> 0, i |-> 1]]
  /\ \E cast \in Casts :
       /\ alive = [x \in Pubs \cup Subs |-> x \in cast.runs]
       /\ sub = [s \in Subs |-> [pc |-> "unborn", queued |-> s \in cast.queued, i |-> 1,
                                 start |-> 0, cached |-> 0, record |-> 0]]
  /\ offered = [s \in Subs |-> {}] /\ taken = [s \in Subs |-> {}]

\* kill(pid, 0): pid 0 and exited processes are dead.
ProcessAlive(x) == x # None /\ alive[x]

\* A running process at a point of its code.
PubAt(p, pc) == alive[p] /\ pub[p].pc = pc
SubAt(s, pc) == alive[s] /\ sub[s].pc = pc
PubGoto(p, pc) == pub' = [pub EXCEPT ![p].pc = pc]
SubGoto(s, pc) == sub' = [sub EXCEPT ![s].pc = pc]

-----------------------------------------------------------------------------
\* ClaimPublisherSlot.  No step of a publisher changes life, sub or taken.

ClaimPublisherSlot(p) ==
  /\ PubAt(p, "unborn")
  /\ IF pub_pid = None
     THEN pub_pid' = p /\ PubGoto(p, "claimed")
     ELSE /\ pub' = [pub EXCEPT ![p].pc = "probe", ![p].expected = pub_pid]
          /\ UNCHANGED pub_pid
  /\ UNCHANGED <<pub_epoch, accepted_ordinal, master, slot, offered>>

ProbeOwner(p) ==
  /\ PubAt(p, "probe")
  /\ PubGoto(p, IF ProcessAlive(pub[p].expected) THEN "refused" ELSE "reclaim")
  /\ UNCHANGED <<header, slot, offered>>

\* Mutant: the dead owner's pid is overwritten without a compare-exchange.
StillHeldAssumed(p) == TRUE

\* The reclaim's compare-exchange finds the pid that was probed.
StillHeld(p) == pub_pid = pub[p].expected

ReclaimPublisher(p) ==
  /\ PubAt(p, "reclaim")
  /\ IF StillHeld(p)
     THEN pub_pid' = p /\ PubGoto(p, "claimed")
     ELSE PubGoto(p, "refused") /\ UNCHANGED pub_pid
  /\ UNCHANGED <<pub_epoch, accepted_ordinal, master, slot, offered>>

\* Mutant: the master cell is taken over as it is.
MasterTakenOver == master

MasterRestored == Repaired(master)

RepairMaster(p) ==
  /\ PubAt(p, "claimed")
  /\ pub_epoch' = pub_epoch + 1
  /\ master' = MasterRestored
  /\ PubGoto(p, "repair")
  /\ UNCHANGED <<pub_pid, accepted_ordinal, slot, offered>>

LastSlot(p) == pub[p].i = kMaxSubscribers

\* The slot loops of the claim and of Publish step on, to `done' at the end.
PubAdvance(p, loop, done) ==
  pub' = [pub EXCEPT ![p].pc = IF LastSlot(p) THEN done ELSE loop,
                     ![p].i  = IF LastSlot(p) THEN 1 ELSE @ + 1]

Mends(at) == at.state = "kActive" /\ ~at.queued

\* Repair loop: the state and kind loads, then the repair of an active mailbox.
RepairLoad(p) ==
  /\ PubAt(p, "repair")
  /\ IF Mends(slot[pub[p].i]) THEN PubGoto(p, "mend") ELSE PubAdvance(p, "repair", "idle")
  /\ UNCHANGED <<header, slot, offered>>

RepairMailbox(p) ==
  /\ PubAt(p, "mend")
  /\ slot' = [slot EXCEPT ![pub[p].i].box = Repaired(@)]
  /\ PubAdvance(p, "repair", "idle")
  /\ UNCHANGED <<header, offered>>

\* ~ShmPubImpl: compare-exchange own pid -> 0.
ReleasePublisher(p) ==
  /\ PubAt(p, "idle")
  /\ pub_pid' = IF pub_pid = p THEN None ELSE pub_pid
  /\ PubGoto(p, "closed")
  /\ UNCHANGED <<pub_epoch, accepted_ordinal, master, slot, offered>>

-----------------------------------------------------------------------------
\* Publish.

\* The segment authors the ordinals, across publisher restarts.
NextOrdinal(p) == accepted_ordinal + 1

Publish(p) ==
  /\ PubAt(p, "idle") /\ accepted_ordinal < MaxAccepted
  /\ accepted_ordinal' = accepted_ordinal + 1
  /\ pub' = [pub EXCEPT ![p].pc = "accepted", ![p].ordinal = NextOrdinal(p)]
  /\ UNCHANGED <<pub_pid, pub_epoch, master, slot, offered>>

MasterStoreBegins(p) ==
  /\ PubAt(p, "accepted")
  /\ master' = [master EXCEPT !.torn = TRUE]
  /\ PubGoto(p, "master")
  /\ UNCHANGED <<pub_pid, pub_epoch, accepted_ordinal, slot, offered>>

MasterStoreEnds(p) ==
  /\ PubAt(p, "master")
  /\ master' = [ordinal |-> pub[p].ordinal, torn |-> FALSE]
  /\ PubGoto(p, "load")
  /\ UNCHANGED <<pub_pid, pub_epoch, accepted_ordinal, slot, offered>>

\* The fan-out loads the slot state, then the history kind.
LoadState(p) ==
  /\ PubAt(p, "load")
  /\ IF slot[pub[p].i].state = "kActive"
     THEN PubGoto(p, "kind") ELSE PubAdvance(p, "load", "idle")
  /\ UNCHANGED <<header, slot, offered>>

LoadKind(p) ==
  /\ PubAt(p, "kind")
  /\ PubGoto(p, IF slot[pub[p].i].queued THEN "push" ELSE "stamp")
  /\ UNCHANGED <<header, slot, offered>>

\* Mutant: the baseline counts the first delivery as consumed.
JoinPointAtRecord(o) == o

JoinPoint(o) == o - 1

StampBaseline(p) ==
  /\ PubAt(p, "stamp")
  /\ slot' = [slot EXCEPT ![pub[p].i].last =
                IF @ = kBaselineUnset THEN JoinPoint(pub[p].ordinal) ELSE @]
  /\ PubGoto(p, "begin")
  /\ UNCHANGED <<header, offered>>

StoreBegins(p) ==
  /\ PubAt(p, "begin")
  /\ slot' = [slot EXCEPT ![pub[p].i].box.torn = TRUE]
  /\ PubGoto(p, "store")
  /\ UNCHANGED <<header, offered>>

\* The subscribers that hold slot i, as they see it.
Holders(i) == {s \in Subs : sub[s].pc \in {"active", "loaded", "detaching"} /\ sub[s].i = i}

Offer(i, o) == offered' = [s \in Subs |-> offered[s] \cup (IF s \in Holders(i) THEN {o} ELSE {})]

StoreEnds(p) ==
  /\ PubAt(p, "store")
  /\ slot' = [slot EXCEPT ![pub[p].i].box = [ordinal |-> pub[p].ordinal, torn |-> FALSE]]
  /\ Offer(pub[p].i, pub[p].ordinal)
  /\ PubAdvance(p, "load", "idle")
  /\ UNCHANGED header

Push(p) ==
  /\ PubAt(p, "push")
  /\ LET i == pub[p].i IN
     /\ slot' = IF Len(slot[i].ring) < Depth
                THEN [slot EXCEPT ![i].ring = Append(@, pub[p].ordinal)]
                ELSE [slot EXCEPT ![i].drops = @ + 1]
     /\ Offer(i, pub[p].ordinal)
  /\ PubAdvance(p, "load", "idle")
  /\ UNCHANGED header

-----------------------------------------------------------------------------
\* ClaimSubscriberSlot, slot by slot.  No step of a subscriber changes life,
\* header or pub.

\* A live publisher is past its load of slot i and not yet done with it.
Inside(p, i) ==
  alive[p] /\ pub[p].i = i /\ pub[p].pc \in {"mend", "kind", "stamp", "begin", "store", "push"}

\* s believes slot i is its own.
Claiming(s) == sub[s].pc \in {"grace", "wait", "init", "seed", "activate"}
Holds(s, i) == /\ alive[s] /\ sub[s].i = i
               /\ Claiming(s) \/ sub[s].pc \in {"active", "loaded"}

\* A claim; `raced' records that somebody was still in the slot.
ClaimSlot(i, raced) == slot' = [slot EXCEPT ![i].state = "kClaimed", ![i].raced = raced]

Occupied(i) == \E s \in Subs : Holds(s, i)

NextSlot(s) ==
  IF sub[s].i = kMaxSubscribers
  THEN SubGoto(s, "refused")
  ELSE sub' = [sub EXCEPT ![s].pc = "claim", ![s].i = @ + 1]

\* Compare-exchange kFree -> kClaimed; an active slot is probed, a claimed one
\* passed over.
ClaimSubscriberSlot(s) ==
  /\ SubAt(s, "unborn") \/ SubAt(s, "claim")
  /\ LET i == sub[s].i IN
     CASE slot[i].state = "kFree" ->
            /\ ClaimSlot(i, Occupied(i) \/ \E p \in Pubs : Inside(p, i))
            /\ SubGoto(s, "init")
       [] slot[i].state = "kActive" -> SubGoto(s, "probe") /\ UNCHANGED slot
       [] OTHER -> NextSlot(s) /\ UNCHANGED slot
  /\ UNCHANGED past

ProbeHolder(s) ==
  /\ SubAt(s, "probe")
  /\ IF ProcessAlive(slot[sub[s].i].pid) THEN NextSlot(s) ELSE SubGoto(s, "reclaim")
  /\ UNCHANGED <<slot, past>>

\* Dead-owner reclaim: compare-exchange kActive -> kClaimed.
ReclaimSlot(s) ==
  /\ SubAt(s, "reclaim")
  /\ IF slot[sub[s].i].state = "kActive"
     THEN ClaimSlot(sub[s].i, Occupied(sub[s].i)) /\ SubGoto(s, "grace")
     ELSE NextSlot(s) /\ UNCHANGED slot
  /\ UNCHANGED past

\* Mutant: a reclaimed slot is initialised at once.
NeedsGraceNever == FALSE

\* Only a live publisher can still be inside the slot.
NeedsGrace == ProcessAlive(pub_pid)

GraceBegins(s) ==
  /\ SubAt(s, "grace")
  /\ IF NeedsGrace
     THEN sub' = [sub EXCEPT ![s].pc = "wait", ![s].start = accepted_ordinal]
     ELSE SubGoto(s, "init")
  /\ UNCHANGED <<slot, past>>

\* Two ordinal advances end the grace, or its 20 ms do.
GraceEnds(s) ==
  /\ SubAt(s, "wait")
  /\ \/ accepted_ordinal >= sub[s].start + 2
     \/ Prompt => \A p \in Pubs : ~Inside(p, sub[s].i)
  /\ SubGoto(s, "init")
  /\ UNCHANGED <<slot, past>>

\* The claimed slot is initialised: owner, declaration, counters, empty region.
InitSlot(s) ==
  /\ SubAt(s, "init")
  /\ LET at == slot[sub[s].i] IN
     slot' = [slot EXCEPT ![sub[s].i] =
                [at EXCEPT !.pid = s, !.queued = sub[s].queued, !.last = kBaselineUnset,
                           !.takes = 0, !.drops = 0, !.overwrites = 0,
                           !.box  = IF sub[s].queued THEN at.box ELSE Empty,
                           !.ring = IF sub[s].queued THEN <<>> ELSE at.ring]]
  /\ SubGoto(s, IF sub[s].queued THEN "activate" ELSE "seed")
  /\ UNCHANGED past

\* Warm start: a readable master record is stored into the mailbox.
SeedSlot(s) ==
  /\ SubAt(s, "seed")
  /\ slot' = IF master.torn \/ master = Empty THEN slot
             ELSE [slot EXCEPT ![sub[s].i].box = master]
  /\ SubGoto(s, "activate")
  /\ UNCHANGED past

Activate(s) ==
  /\ SubAt(s, "activate")
  /\ slot' = [slot EXCEPT ![sub[s].i].state = "kActive"]
  /\ SubGoto(s, "active")
  /\ UNCHANGED past

\* ~ShmSubImpl: state := kFree, then pid := 0.
DetachState(s) ==
  /\ SubAt(s, "active") /\ s \in Detachers
  /\ slot' = [slot EXCEPT ![sub[s].i].state = "kFree"]
  /\ SubGoto(s, "detaching")
  /\ UNCHANGED past

DetachPid(s) ==
  /\ SubAt(s, "detaching")
  /\ slot' = [slot EXCEPT ![sub[s].i].pid = None]
  /\ SubGoto(s, "closed")
  /\ UNCHANGED past

-----------------------------------------------------------------------------
\* Taking.

\* Mutant: a loaded value is not kept for later takes.
RefreshedNever(s, got) == sub[s].cached

\* cached_ after a load.
Refreshed(s, got) == got

\* TakeLatestSample's bounded load: a value refreshes the cache, an empty or
\* stalled mailbox falls back to it.
LoadLatest(s) ==
  /\ SubAt(s, "active") /\ ~sub[s].queued /\ slot[sub[s].i].takes < MaxTakes
  /\ LET box == slot[sub[s].i].box
         got == IF box.torn \/ box = Empty THEN sub[s].cached ELSE box.ordinal
     IN /\ got # 0
        /\ sub' = [sub EXCEPT ![s].pc = "loaded", ![s].cached = Refreshed(s, got), ![s].record = got]
  /\ UNCHANGED <<slot, past>>

\* The sample is counted in the slot.  (Its stamps, age and freshness: Topic.)
FillSample(at) == [at EXCEPT !.takes = @ + 1]

TakeLatest(s) ==
  /\ SubAt(s, "loaded")
  /\ LET at == FillSample(slot[sub[s].i])
         k  == sub[s].record
     IN /\ slot' = [slot EXCEPT ![sub[s].i] =
                      IF k > at.last
                      THEN [at EXCEPT !.overwrites = at.overwrites + (k - at.last - 1), !.last = k]
                      ELSE at]
        /\ taken' = [taken EXCEPT ![s] = @ \cup {k}]
  /\ sub' = [sub EXCEPT ![s].pc = "active", ![s].record = 0]
  /\ UNCHANGED offered

TryTake(s) ==
  /\ SubAt(s, "active") /\ sub[s].queued /\ slot[sub[s].i].takes < MaxTakes
  /\ LET at == FillSample(slot[sub[s].i]) IN
     /\ at.ring # <<>>
     /\ slot' = [slot EXCEPT ![sub[s].i] = [at EXCEPT !.ring = Tail(at.ring)]]
     /\ taken' = [taken EXCEPT ![s] = @ \cup {Head(at.ring)}]
  /\ UNCHANGED <<sub, offered>>

-----------------------------------------------------------------------------
\* SIGKILL.
Crash(x) ==
  /\ alive[x] /\ crashes < MaxCrashes
  /\ IF x \in Pubs THEN pub[x].pc \notin {"unborn", "refused", "closed"}
                   ELSE sub[x].pc \notin {"unborn", "refused", "closed"}
  /\ alive' = [alive EXCEPT ![x] = FALSE] /\ crashes' = crashes + 1
  /\ UNCHANGED <<header, slot, pub, sub, past>>

Publisher(p) ==
  /\ \/ ClaimPublisherSlot(p) \/ ProbeOwner(p) \/ ReclaimPublisher(p) \/ RepairMaster(p)
     \/ RepairLoad(p) \/ RepairMailbox(p) \/ ReleasePublisher(p) \/ Publish(p)
     \/ MasterStoreBegins(p) \/ MasterStoreEnds(p) \/ LoadState(p) \/ LoadKind(p)
     \/ StampBaseline(p) \/ StoreBegins(p) \/ StoreEnds(p) \/ Push(p)
  /\ UNCHANGED <<life, sub, taken>>

Subscriber(s) ==
  /\ \/ ClaimSubscriberSlot(s) \/ ProbeHolder(s) \/ ReclaimSlot(s) \/ GraceBegins(s)
     \/ GraceEnds(s) \/ InitSlot(s) \/ SeedSlot(s) \/ Activate(s) \/ DetachState(s)
     \/ DetachPid(s) \/ LoadLatest(s) \/ TakeLatest(s) \/ TryTake(s)
  /\ UNCHANGED <<life, header, pub>>

Next ==
  \/ \E p \in Pubs : Publisher(p)
  \/ \E s \in Subs : Subscriber(s)
  \/ \E x \in Pubs \cup Subs : Crash(x)

Spec == Init /\ [][Next]_vars

-----------------------------------------------------------------------------
\* Properties.

\* p has won the publisher slot and not released it.
Owner(p) == pub[p].pc \notin {"unborn", "probe", "reclaim", "refused", "closed"}

\* D15 across processes and restarts: at most one live process owns the
\* publisher slot, so the ordinal author and every cell have one live writer,
\* whichever processes race the dead-owner reclaim and die in it.
PublisherExclusive ==
  \A p, q \in Pubs : alive[p] /\ alive[q] /\ Owner(p) /\ Owner(q) => p = q

\* A claim that finds a publisher still inside a slot freed by its owner, or that
\* takes one from a live owner, leaves a region with two writers and is outside
\* what the next four properties say (README, "Seen while modelling").

\* M4-A2: a restarted publisher leaves no poisoned cell behind.  Past the repairs
\* of its claim, the master and every mailbox in use are torn only inside its own
\* Store, so a writer that died mid-store costs readers no record of the next one.
CellsRepaired ==
  \A p \in Pubs : alive[p] /\ Owner(p) =>
    /\ master.torn => pub[p].pc \in {"claimed", "master"}
    /\ \A i \in Slots :
         Mends(slot[i]) /\ slot[i].box.torn /\ ~slot[i].raced =>
           \/ pub[p].pc \in {"claimed", "repair", "mend"}
           \/ pub[p].pc = "store" /\ pub[p].i = i

\* The mailbox of s as LatestBox sees it: what a take would return.
Box(s) == INSTANCE LatestBox WITH
  Records  <- 0..MaxAccepted,
  value    <- LET box == slot[sub[s].i].box
              IN IF /\ alive[s] /\ ~sub[s].queued /\ sub[s].pc \in {"active", "loaded"}
                    /\ ~box.torn /\ box # Empty
                 THEN box.ordinal ELSE sub[s].cached,
  inhand   <- sub[s].record,
  returned <- IF sub[s].queued THEN {} ELSE taken[s]

\* The latest-only promise across processes: with publishers killed anywhere in
\* a store and restarted, and slots reclaimed, a mailbox only ever moves on to a
\* newer record or back to the one its reader saw last.
Conflates ==
  /\ \A s \in Subs : Box(s)!Init
  /\ [][\A s \in Subs : slot'[sub'[s].i].raced \/ Box(s)!CrashStep]_vars

\* posix_shm.hpp: ClaimSubscriberSlot refuses "when all 16 are held by live
\* owners", reclaiming dead ones only: no two live subscribers hold one slot.
SlotOwnedOnce ==
  \A s, t \in Subs, i \in Slots : Holds(s, i) /\ Holds(t, i) => s = t

\* posix_shm.hpp: a claimant is "exclusive owner of the region between kClaimed
\* and kActive"; wire-contract: "Single-writer-per-slot holds".  While one
\* initialises its region no publisher is in it, also if one was inside when the
\* slot of a dead owner was reclaimed, and nobody hands it on.
ExclusiveRegion ==
  \A s \in Subs :
    LET i == sub[s].i IN
    alive[s] /\ sub[s].pc \in {"init", "seed", "activate"} /\ ~slot[i].raced =>
      slot[i].state = "kClaimed" /\ \A p \in Pubs : ~Inside(p, i)

\* Delivered records a later take skipped over and no take returned.
Missed(s) == {o \in offered[s] \ taken[s] : \E t \in taken[s] : o < t}

\* The overwrites charged to a live holder are the delivered records it never
\* read, at most one warm-start seed it did read, and at most one undelivered
\* ordinal for each publisher that died between accepting and delivering it.
OverwritesBounded ==
  \A s \in Subs :
    SubAt(s, "active") /\ ~sub[s].queued /\ ~slot[sub[s].i].raced =>
      slot[sub[s].i].overwrites \in
        Cardinality(Missed(s)) .. Cardinality(Missed(s)) + 1 + crashes

\* posix_shm.hpp: ClaimSubscriberSlot "returns false when all 16 are held by
\* live owners": a refusal meets no slot whose claimant is dead.
RefusedOnlyWhenHeld ==
  [][\A s \in Subs :
       sub[s].pc # "refused" /\ sub'[s].pc = "refused" =>
         \A i \in Slots : slot[i].state = "kClaimed" =>
           \E t \in Subs : alive[t] /\ Claiming(t) /\ sub[t].i = i]_vars
=============================================================================
