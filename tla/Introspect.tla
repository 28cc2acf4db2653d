----------------------------- MODULE Introspect -----------------------------
(***************************************************************************)
(* An external observer (IntrospectReader, introspect_reader.hpp) of one   *)
(* topic segment in use: it maps the segment read-only, gates its header   *)
(* and copies the fields one load at a time while publisher generations    *)
(* and subscribers claim, publish, detach and die.  What they do to the    *)
(* fields an observer reads is cut as finely as its loads; ShmTopic has    *)
(* the rest of their protocol, ShmSegment the life of the segment before.  *)
(*                                                                         *)
(* The master cell is modelled word by word: a sequence, odd inside a      *)
(* Store, and two words of the record, both the number of the publish.     *)
(* RepairAfterWriterCrash (external) sets the sequence of a torn cell to 0.*)
(***************************************************************************)
EXTENDS Naturals, Sequences, FiniteSets

CONSTANTS
  Pubs, Subs,              \* processes that advertise, that subscribe
  Casts,                   \* the sets of processes that run together
  kMaxSubscribers, kIntrospectRetryBudget,
  MaxAccepted, MaxCrashes,
  None                     \* pid 0

ASSUME IntrospectAssumption ==
  /\ None \notin Pubs \cup Subs /\ Pubs \cap Subs = {} /\ Casts \subseteq SUBSET (Pubs \cup Subs)
  /\ kMaxSubscribers \in Nat \ {0} /\ kIntrospectRetryBudget \in Nat
  /\ MaxAccepted \in Nat /\ MaxCrashes \in Nat

Procs == Pubs \cup Subs
Slots == 1..kMaxSubscribers

VARIABLES
  linked,       \* the name denotes the segment
  header,       \* pub_pid, pub_publish_count, accepted_ordinal
  cell,         \* the master cell: seq and the words stamp and ordinal
  slot,         \* ShmSubSlot: state and pid
  proc,         \* a process: pc, liveness, slot
  crashes,
  reader,       \* Snapshot's locals: pc, slot cursor, attempt, s1, staged words
  snap,         \* IntrospectSnapshot
  mended        \* history: the cell was repaired under the reader's copy

segment == <<header, cell, slot>>
vars == <<linked, segment, proc, crashes, reader, snap, mended>>

NoSnapshot == [pub_pid |-> None, pub_alive |-> FALSE, publish_count |-> 0,
               accepted_ordinal |-> 0, subscribers |-> {},
               master |-> "kStalled", stamp |-> 0, ordinal |-> 0]
Idle == [pc |-> "closed", i |-> 1, state |-> "kFree", attempt |-> 0, s1 |-> 0,
         stamp |-> 0, ordinal |-> 0]

Init ==
  /\ linked = TRUE
  /\ header = [pub_pid |-> None, publish_count |-> 0, accepted_ordinal |-> 0]
  /\ cell = [seq |-> 0, stamp |-> 0, ordinal |-> 0]
  /\ slot = [i \in Slots |-> [state |-> "kFree", pid |-> None]]
  /\ \E cast \in Casts :
       proc = [x \in Procs |-> [pc |-> "unborn", alive |-> x \in cast, i |-> 1]]
  /\ crashes = 0 /\ reader = Idle /\ snap = NoSnapshot /\ mended = FALSE

At(x, pc) == proc[x].alive /\ proc[x].pc = pc
Goto(x, pc) == proc' = [proc EXCEPT ![x].pc = pc]
ProcessAlive(x) == x # None /\ proc[x].alive

-----------------------------------------------------------------------------
\* The participants.  They find the segment by its name.

\* ClaimPublisherSlot: the slot, then the repair of the master cell.
ClaimPublisherSlot(p) ==
  /\ At(p, "unborn") /\ linked
  /\ IF ProcessAlive(header.pub_pid)
     THEN Goto(p, "closed") /\ UNCHANGED header
     ELSE header' = [header EXCEPT !.pub_pid = p] /\ Goto(p, "claimed")
  /\ UNCHANGED <<cell, slot>>

Torn == cell.seq % 2 = 1

RepairMaster(p) ==
  /\ At(p, "claimed")
  /\ cell' = IF Torn THEN [cell EXCEPT !.seq = 0] ELSE cell
  /\ Goto(p, "idle")
  /\ UNCHANGED <<header, slot>>

\* Publish: the ordinal, the Store of the master cell word by word, the count.
Accept(p) ==
  /\ At(p, "idle") /\ header.accepted_ordinal < MaxAccepted
  /\ header' = [header EXCEPT !.accepted_ordinal = @ + 1]
  /\ Goto(p, "begin")
  /\ UNCHANGED <<cell, slot>>

\* A word of the Store: `field' is written and the next one is due.
StoreWord(p, pc, field, value, next) ==
  /\ At(p, pc)
  /\ cell' = [cell EXCEPT ![field] = value]
  /\ Goto(p, next)
  /\ UNCHANGED <<header, slot>>

StoreMaster(p) ==
  \/ StoreWord(p, "begin", "seq", cell.seq + 1, "stamp")
  \/ StoreWord(p, "stamp", "stamp", header.accepted_ordinal, "ordinal")
  \/ StoreWord(p, "ordinal", "ordinal", header.accepted_ordinal, "end")
  \/ StoreWord(p, "end", "seq", cell.seq + 1, "count")

\* pub_publish_count comes last, after the fan-out.
Count(p) ==
  /\ At(p, "count")
  /\ header' = [header EXCEPT !.publish_count = @ + 1]
  /\ Goto(p, "idle")
  /\ UNCHANGED <<cell, slot>>

ReleasePublisher(p) ==
  /\ At(p, "idle")
  /\ header' = [header EXCEPT !.pub_pid = None]
  /\ Goto(p, "closed")
  /\ UNCHANGED <<cell, slot>>

\* ClaimSubscriberSlot: a free slot or a dead owner's; then pid, then kActive.
ClaimSubscriberSlot(s) ==
  /\ At(s, "unborn") /\ linked
  /\ \E i \in Slots :
       /\ \/ slot[i].state = "kFree"
          \/ slot[i].state = "kActive" /\ ~ProcessAlive(slot[i].pid)
       /\ slot' = [slot EXCEPT ![i].state = "kClaimed"]
       /\ proc' = [proc EXCEPT ![s].pc = "claimed", ![s].i = i]
  /\ UNCHANGED <<header, cell>>

\* A store into the own slot.
StoreSlot(s, pc, field, value, next) ==
  /\ At(s, pc)
  /\ slot' = [slot EXCEPT ![proc[s].i][field] = value]
  /\ Goto(s, next)
  /\ UNCHANGED <<header, cell>>

InitSlot(s) ==
  \/ StoreSlot(s, "claimed", "pid", s, "init")
  \/ StoreSlot(s, "init", "state", "kActive", "active")

Detach(s) ==
  \/ StoreSlot(s, "active", "state", "kFree", "detaching")
  \/ StoreSlot(s, "detaching", "pid", None, "closed")

\* SIGKILL.
Crash(x) ==
  /\ proc[x].alive /\ proc[x].pc \notin {"unborn", "closed"} /\ crashes < MaxCrashes
  /\ proc' = [proc EXCEPT ![x].alive = FALSE] /\ crashes' = crashes + 1
  /\ UNCHANGED segment

Participant ==
  /\ \/ /\ \E p \in Pubs : \/ ClaimPublisherSlot(p) \/ RepairMaster(p) \/ Accept(p)
                           \/ StoreMaster(p) \/ Count(p) \/ ReleasePublisher(p)
        /\ UNCHANGED crashes
     \/ /\ \E s \in Subs : ClaimSubscriberSlot(s) \/ InitSlot(s) \/ Detach(s)
        /\ UNCHANGED crashes
     \/ \E x \in Procs : Crash(x)
  /\ mended' = (mended \/ (Torn /\ cell'.seq = 0 /\ reader.pc \in {"copy", "copied", "check"}))
  /\ UNCHANGED <<linked, reader, snap>>

-----------------------------------------------------------------------------
\* Snapshot, from the adopted mapping on.  No step of it changes the segment.

ReaderGoto(pc) == reader' = [reader EXCEPT !.pc = pc]

LoadPublisher ==
  /\ reader.pc = "open"
  /\ snap' = [NoSnapshot EXCEPT !.pub_pid = header.pub_pid]
  /\ ReaderGoto("probe") /\ UNCHANGED mended

ProbePublisher ==
  /\ reader.pc = "probe"
  /\ snap' = [snap EXCEPT !.pub_alive = ProcessAlive(snap.pub_pid)]
  /\ ReaderGoto("counters") /\ UNCHANGED mended

\* Mutant: the ordinal is loaded before the count.
HeaderLoadsSwapped == <<"accepted_ordinal", "publish_count">>

\* The order in which the counters are loaded.
HeaderLoads == <<"publish_count", "accepted_ordinal">>

LoadCounter ==
  /\ reader.pc = "counters"
  /\ LET field == HeaderLoads[reader.i] IN snap' = [snap EXCEPT ![field] = header[field]]
  /\ reader' = IF reader.i = Len(HeaderLoads) THEN [reader EXCEPT !.pc = "slots", !.i = 1]
               ELSE [reader EXCEPT !.i = @ + 1]
  /\ UNCHANGED mended

\* The slot loop: state, and for a slot in use its pid and probe.
NextSlot ==
  reader' = IF reader.i = kMaxSubscribers THEN [Idle EXCEPT !.pc = "sequence"]
            ELSE [Idle EXCEPT !.pc = "slots", !.i = reader.i + 1]

LoadSlotState ==
  /\ reader.pc = "slots"
  /\ IF slot[reader.i].state = "kFree" THEN NextSlot
     ELSE reader' = [reader EXCEPT !.pc = "owner", !.state = slot[reader.i].state]
  /\ UNCHANGED <<snap, mended>>

LoadSlotOwner ==
  /\ reader.pc = "owner"
  /\ LET x == slot[reader.i].pid IN
     snap' = [snap EXCEPT !.subscribers =
                @ \cup {[i |-> reader.i, state |-> reader.state, pid |-> x,
                         alive |-> ProcessAlive(x)]}]
  /\ NextSlot /\ UNCHANGED mended

\* ReadMasterEnvelope: the sequence, the words, the sequence again.
EnvelopeRead(result, stamp, ordinal) ==
  /\ snap' = [snap EXCEPT !.master = result, !.stamp = stamp, !.ordinal = ordinal]
  /\ reader' = [Idle EXCEPT !.pc = "done"]

\* Mutant: a write in progress is waited out.
PatienceEndless == TRUE

Patience == reader.attempt < kIntrospectRetryBudget

Retry ==
  IF Patience
  THEN /\ reader' = [Idle EXCEPT !.pc = "sequence",
                                 !.attempt = IF reader.attempt < kIntrospectRetryBudget
                                             THEN reader.attempt + 1 ELSE reader.attempt]
       /\ UNCHANGED snap
  ELSE EnvelopeRead("kStalled", 0, 0)

LoadSequence ==
  /\ reader.pc = "sequence"
  /\ CASE cell.seq = 0 -> EnvelopeRead("kEmpty", 0, 0)
       [] Torn -> Retry
       [] OTHER -> reader' = [reader EXCEPT !.pc = "copy", !.s1 = cell.seq] /\ UNCHANGED snap
  /\ mended' = FALSE

CopyWords ==
  /\ \/ reader.pc = "copy" /\ reader' = [reader EXCEPT !.pc = "copied", !.stamp = cell.stamp]
     \/ reader.pc = "copied" /\ reader' = [reader EXCEPT !.pc = "check", !.ordinal = cell.ordinal]
  /\ UNCHANGED <<snap, mended>>

\* Mutant: the copy is believed without a second look at the sequence.
UnchangedSequenceAssumed == TRUE

UnchangedSequence == cell.seq = reader.s1

CheckSequence ==
  /\ reader.pc = "check"
  /\ IF UnchangedSequence THEN EnvelopeRead("kValue", reader.stamp, reader.ordinal) ELSE Retry
  /\ UNCHANGED mended

Snapshot ==
  /\ \/ LoadPublisher \/ ProbePublisher \/ LoadCounter \/ LoadSlotState \/ LoadSlotOwner
     \/ LoadSequence \/ CopyWords \/ CheckSequence
  /\ UNCHANGED <<linked, segment, proc, crashes>>

-----------------------------------------------------------------------------
\* Properties of a finished snapshot.

\* wire-contract 8.2, "a torn copy cannot validate": the envelope of a snapshot
\* is one record's, except when a publisher restarts the sequence by repairing
\* the cell between the reader's two looks at it.
EnvelopeWhole == snap.master = "kValue" /\ ~mended => snap.stamp = snap.ordinal

\* The parts of a snapshot, loaded one by one while publishers publish, die and
\* restart, fit together: no more publishes counted than accepted, none of them
\* newer than the last one shown, and "never published" only before the first
\* or after a crash.
SnapshotCoheres ==
  /\ snap.publish_count <= snap.accepted_ordinal \/ reader.pc = "counters"
  /\ snap.master = "kValue" /\ ~mended => snap.publish_count <= snap.ordinal
  /\ snap.master = "kEmpty" => snap.publish_count = 0 \/ crashes > 0
=============================================================================
