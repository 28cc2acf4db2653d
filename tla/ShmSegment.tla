----------------------------- MODULE ShmSegment -----------------------------
(***************************************************************************)
(* The life of one segment name on the POSIX-shm reach: racing processes   *)
(* open or create the segment (ShmMapping::OpenOrCreate, shm_segment.hpp), *)
(* publish it with MarkReady, validate it, record a type refusal, and wire *)
(* or are refused (ShmAdvertiseImpl, ShmSubscribeImpl, posix_shm.hpp);     *)
(* `xmmsg clean' probes for live owners and unlinks.  A process may be     *)
(* killed between any two steps and any system call may fail.  Objects are *)
(* the shared-memory objects the name has ever denoted: an unlinked one    *)
(* lives on in the processes that have it open.  ShmTopic models what the  *)
(* slots of a segment then do; here a claim is one step.                   *)
(***************************************************************************)
EXTENDS SchemaHash, FiniteSets

CONSTANTS
  Procs, Publishers,   \* processes, and those of them that advertise
  Profiles,            \* assignments of [type, build, asserts] to processes: the
                       \* payload type (a key of Decl), the layout version each was
                       \* compiled with, and whether with assertions
  kAttempts, kPolls,   \* 4 attempts, 2000 polls
  MaxFaults, MaxCleans,   \* bounds on crashes and failed calls, on cleans
  None

ASSUME SegmentAssumption ==
  /\ Publishers \subseteq Procs /\ None \notin Procs
  /\ \A f \in Profiles, p \in Procs :
       f[p].type \in DOMAIN Decl /\ f[p].build # None /\ f[p].asserts \in BOOLEAN
  /\ \A t \in DOMAIN Decl : SchemaHashOf(t) # None
  /\ kAttempts \in Nat \ {0} /\ kPolls \in Nat \ {0}
  /\ MaxFaults \in Nat /\ MaxCleans \in Nat

VARIABLES
  profile,   \* the assignment of this run, with the hash of each type
  link,      \* the object the name denotes, 0 when it is free
  objects,   \* number of objects created
  obj,       \* object: size, header identity, init_state, refusal record, owners
  proc,      \* process: progress, attempt, poll, object open or mapped, outcome
  clean,     \* xmmsg clean: its candidate, and (history) who was wired to it
  faults,    \* crashes and failed system calls so far
  raced      \* history: clean unlinked an object that a live process not yet wired
             \* at its probe had open

vars == <<profile, link, objects, obj, proc, clean, faults, raced>>
names == <<link, objects, faults>>

\* The name is freed by a failed creator or by a clean, so this many suffice.
Objects == 1..1 + MaxFaults + MaxCleans
RawPages == [creator |-> None, sized |-> FALSE, build |-> None, type |-> None,
             ready |-> FALSE, refused_type |-> None, refused_pid |-> None,
             refusal_count |-> 0, pub_pid |-> None, subs |-> {}]

\* The hash is computed first: where the assertion on the type fails, the process
\* ends before it touches the segment.
Starts(p) == profile[p].asserts => Asserted(profile[p].type)

Init ==
  /\ \E f \in Profiles :
       profile = [p \in Procs |-> [type |-> f[p].type, hash |-> SchemaHashOf(f[p].type),
                                   build |-> f[p].build, asserts |-> f[p].asserts]]
  /\ link = 0 /\ objects = 0 /\ obj = [o \in Objects |-> RawPages]
  /\ proc = [p \in Procs |-> [pc |-> "create", attempt |-> 1, poll |-> 0, obj |-> 0,
                              alive |-> Starts(p)]]
  /\ clean = [seen |-> 0, runs |-> 0, wired |-> {}] /\ faults = 0 /\ raced = FALSE

Type(p) == profile[p].hash
Build(p) == profile[p].build
At(p, pc) == proc[p].alive /\ proc[p].pc = pc
Goto(p, pc) == proc' = [proc EXCEPT ![p].pc = pc]
Mine(p) == obj[proc[p].obj]
ProcessAlive(x) == x # None /\ proc[x].alive

\* Outcomes: kUnavailable for a reason, kTypeMismatch, ownership refused, wired.
Reasons == {"os", "vanished", "timeout", "skew"}
Outcomes == Reasons \cup {"mismatch", "refused", "wired", "closed"}
Open(p, o) == proc[p].alive /\ proc[p].obj = o
GiveUp(p, outcome) == proc' = [proc EXCEPT ![p].pc = outcome, ![p].obj = 0]

-----------------------------------------------------------------------------
\* The creator: shm_open(O_CREAT | O_EXCL), ftruncate, mmap and header, MarkReady.
\* No step of a process changes profile, clean or raced.

Create(p) ==
  /\ At(p, "create")
  /\ IF link # 0
     THEN Goto(p, "open") /\ UNCHANGED <<link, objects, obj>>
     ELSE /\ objects' = objects + 1 /\ link' = objects + 1
          /\ obj' = [obj EXCEPT ![objects + 1].creator = p]
          /\ proc' = [proc EXCEPT ![p].pc = "truncate", ![p].obj = objects + 1]
  /\ UNCHANGED faults

Truncate(p) ==
  /\ At(p, "truncate")
  /\ obj' = [obj EXCEPT ![proc[p].obj].sized = TRUE]
  /\ Goto(p, "fill")
  /\ UNCHANGED names

FillHeader(p) ==
  /\ At(p, "fill")
  /\ obj' = [obj EXCEPT ![proc[p].obj].build = Build(p), ![proc[p].obj].type = Type(p)]
  /\ Goto(p, "publish")
  /\ UNCHANGED names

MarkReady(p) ==
  /\ At(p, "publish")
  /\ obj' = [obj EXCEPT ![proc[p].obj].ready = TRUE]
  /\ Goto(p, "attached")
  /\ UNCHANGED names

\* Mutant: an attacher that cannot map the segment unlinks it as well.
UnlinksAlways(p) == TRUE

\* Only a creator that fails takes the name back.
Unlinks(p) == proc[p].pc \in {"truncate", "fill"}

\* shm_open, ftruncate, fstat or mmap fails: kUnavailable.
OsRefuses(p) ==
  /\ proc[p].alive /\ faults < MaxFaults
  /\ proc[p].pc \in {"create", "truncate", "fill", "open", "size", "ready", "map"}
  /\ link' = IF Unlinks(p) THEN 0 ELSE link
  /\ GiveUp(p, "os")
  /\ faults' = faults + 1
  /\ UNCHANGED <<objects, obj>>

-----------------------------------------------------------------------------
\* The attacher: open, bounded waits for the size and for init_state, gates.

Retries(p) == proc[p].attempt < kAttempts

OpenExisting(p) ==
  /\ At(p, "open")
  /\ \/ /\ link # 0
        /\ proc' = [proc EXCEPT ![p].pc = "size", ![p].obj = link, ![p].poll = 0]
     \/ /\ link = 0 /\ Retries(p)
        /\ proc' = [proc EXCEPT ![p].pc = "create", ![p].attempt = @ + 1]
     \/ link = 0 /\ ~Retries(p) /\ GiveUp(p, "vanished")
  /\ UNCHANGED <<names, obj>>

\* Mutant: the waits are not bounded.
PatienceEndless(p) == TRUE

Patience(p) == proc[p].poll < kPolls

\* One poll: go on when `done', otherwise sleep 1 ms or give up.
Poll(p, done, next) ==
  /\ \/ done /\ proc' = [proc EXCEPT ![p].pc = next, ![p].poll = 0]
     \/ /\ ~done /\ Patience(p)
        /\ proc' = [proc EXCEPT ![p].poll = IF @ < kPolls THEN @ + 1 ELSE @]
     \/ ~done /\ ~Patience(p) /\ GiveUp(p, "timeout")
  /\ UNCHANGED <<names, obj>>

AwaitSize(p) == At(p, "size") /\ Poll(p, Mine(p).sized, "ready")

\* Mutant: a segment of the right size counts as ready.
IsReadyWhenSized(p) == Mine(p).sized

IsReady(p) == Mine(p).ready

AwaitReady(p) == At(p, "ready") /\ Poll(p, IsReady(p), "gate")

SameType(p) == Mine(p).type = Type(p)

\* Magic and versions, then schema hash, size and alignment.  (total_size,
\* max_subscribers and ring_capacity follow from these.)
Validate(p) ==
  /\ At(p, "gate")
  /\ \/ Mine(p).build # Build(p) /\ GiveUp(p, "skew")
     \/ Mine(p).build = Build(p) /\ ~SameType(p) /\ Goto(p, "refuse")
     \/ Mine(p).build = Build(p) /\ SameType(p) /\ Goto(p, "map")
  /\ UNCHANGED <<names, obj>>

\* Mutant: the refusal is counted before it is described.
RecordTypeLate(p) ==
  /\ At(p, "refuse")
  /\ obj' = [obj EXCEPT ![proc[p].obj].refusal_count = @ + 1]
  /\ Goto(p, "refuse_pid")
  /\ UNCHANGED names

\* The refusal record: two fields, then the count.
RecordType(p) ==
  /\ At(p, "refuse")
  /\ obj' = [obj EXCEPT ![proc[p].obj].refused_type = Type(p)]
  /\ Goto(p, "refuse_pid")
  /\ UNCHANGED names

RecordPid(p) ==
  /\ At(p, "refuse_pid")
  /\ obj' = [obj EXCEPT ![proc[p].obj].refused_pid = p]
  /\ Goto(p, "refuse_count")
  /\ UNCHANGED names

CountRefusal(p) ==
  /\ At(p, "refuse_count")
  /\ obj' = [obj EXCEPT ![proc[p].obj].refusal_count = @ + 1]
  /\ GiveUp(p, "mismatch")
  /\ UNCHANGED names

MapSegment(p) ==
  /\ At(p, "map")
  /\ Goto(p, "attached")
  /\ UNCHANGED <<names, obj>>

-----------------------------------------------------------------------------
\* Wiring and teardown.

\* ClaimPublisherSlot and ClaimSubscriberSlot; a refused handle detaches.
Claim(p) ==
  /\ At(p, "attached")
  /\ \/ /\ p \notin Publishers /\ Goto(p, "wired")
        /\ obj' = [obj EXCEPT ![proc[p].obj].subs = @ \cup {p}]
     \/ /\ p \in Publishers /\ ~ProcessAlive(Mine(p).pub_pid) /\ Goto(p, "wired")
        /\ obj' = [obj EXCEPT ![proc[p].obj].pub_pid = p]
     \/ /\ p \in Publishers /\ ProcessAlive(Mine(p).pub_pid) /\ GiveUp(p, "refused")
        /\ UNCHANGED obj
  /\ UNCHANGED names

\* The destructors give the slot back and unmap; the name stays.
Close(p) ==
  /\ At(p, "wired")
  /\ obj' = [obj EXCEPT ![proc[p].obj].subs = @ \ {p},
                        ![proc[p].obj].pub_pid = IF @ = p THEN None ELSE @]
  /\ GiveUp(p, "closed")
  /\ UNCHANGED names

\* SIGKILL.
Crash(p) ==
  /\ proc[p].alive /\ proc[p].pc \notin Outcomes \ {"wired"} /\ faults < MaxFaults
  /\ proc' = [proc EXCEPT ![p].alive = FALSE]
  /\ faults' = faults + 1
  /\ UNCHANGED <<link, objects, obj>>

\* CmdClean: a validated segment without a live publisher or subscriber, as one
\* snapshot shows it.  (A cleaner of another build skips the segment.)
Dead(o) == /\ obj[o].ready /\ ~ProcessAlive(obj[o].pub_pid)
           /\ \A s \in obj[o].subs : ~ProcessAlive(s)

CleanProbe ==
  /\ clean.seen = 0 /\ clean.runs < MaxCleans
  /\ link # 0 /\ Dead(link)
  /\ clean' = [seen |-> link, runs |-> clean.runs + 1,
               wired |-> {p \in Procs : At(p, "wired") /\ proc[p].obj = link}]
  /\ UNCHANGED <<profile, names, obj, proc, raced>>

\* shm_unlink, by name.
CleanUnlink ==
  /\ clean.seen # 0
  /\ raced' = (raced \/ \E p \in Procs \ clean.wired : link # 0 /\ Open(p, link))
  /\ link' = 0
  /\ clean' = [clean EXCEPT !.seen = 0, !.wired = {}]
  /\ UNCHANGED <<profile, objects, faults, obj, proc>>

Wiring(p) ==
  /\ \/ Create(p) \/ Truncate(p) \/ FillHeader(p) \/ MarkReady(p)
     \/ OpenExisting(p) \/ AwaitSize(p) \/ AwaitReady(p) \/ Validate(p)
     \/ RecordType(p) \/ RecordPid(p) \/ CountRefusal(p) \/ MapSegment(p) \/ Claim(p)
  /\ UNCHANGED <<profile, clean, raced>>

Interrupted(p) == (OsRefuses(p) \/ Close(p) \/ Crash(p)) /\ UNCHANGED <<profile, clean, raced>>

Next == (\E p \in Procs : Wiring(p) \/ Interrupted(p)) \/ CleanProbe \/ CleanUnlink

\* Every live process goes on with its wiring verb.
Spec == Init /\ [][Next]_vars /\ \A p \in Procs : WF_vars(Wiring(p))

-----------------------------------------------------------------------------
\* Properties.

\* M14-A1, "exactly one winner per name": every live endpoint is wired to the
\* object the name denotes, so two never miss each other, however creators fail
\* and die.  Only a clean that races an attach may break this: one that unlinks
\* a segment a process opened, without being wired, by the time of the probe.
OneSegment ==
  ~raced => \A p \in Procs : At(p, "wired") => proc[p].obj = link

\* R6 across processes: endpoints wired to one segment were built with one segment
\* layout and one type, whoever came first; and where XMMSG_DESCRIBE lists it, with
\* the same scalar of the same name at every byte, so neither reads a field that
\* the other wrote as another (M11-A2, a reorder under one name and size).  This
\* needs the fields to tile the payload: an assertion, so a Release build
\* trusts the list.
TypeAgreement ==
  \A p, q \in Procs :
    At(p, "wired") /\ At(q, "wired") /\ proc[p].obj = proc[q].obj =>
      LET t == profile[p].type  u == profile[q].type IN
      /\ Build(p) = Build(q) /\ IsWireDescribed(t) = IsWireDescribed(u)
      /\ IF IsWireDescribed(t)
         THEN (profile[p].asserts \/ profile[q].asserts \/ ExtentsTile(t)) => Layout[t] = Layout[u]
         ELSE Decl[t].name = Decl[u].name

\* No half-initialised header is ever judged: a segment refused as foreign was
\* created by another build, one refused by type by another type.
RefusedForCause ==
  [][\A p \in Procs :
       LET c == obj[proc[p].obj].creator IN
       /\ proc[p].pc = "gate" /\ proc'[p].pc = "skew" => Build(c) # Build(p)
       /\ proc[p].pc = "gate" /\ proc'[p].pc = "refuse" => Type(c) # Type(p)]_vars

\* M11-A3: once a refusal is counted, the record shows a hash that differs from
\* the topic's and a process that was refused, also when refusals interleave.
RefusalVisible ==
  \A o \in Objects :
    obj[o].refusal_count > 0 =>
      /\ obj[o].refused_type \notin {None, obj[o].type}
      /\ obj[o].refused_pid # None /\ Type(obj[o].refused_pid) # obj[o].type

\* Wiring is bounded: with creators dying at any point and names vanishing, a
\* live process gets its verdict.
WiringReturns ==
  \A p \in Procs : proc[p].alive ~> proc[p].pc \in Outcomes \/ ~proc[p].alive
=============================================================================
