------------------------- MODULE ShmSegment_proofs -------------------------
(***************************************************************************)
(* Proofs about ShmSegment for any number of processes, attempts, polls,   *)
(* crashes, failed calls and cleans, and any declared types and builds.    *)
(***************************************************************************)
EXTENDS ShmSegment, TLAPS

\* What a process at a program counter holds.
Creating == {"truncate", "fill", "publish"}
Refusing == {"refuse", "refuse_pid", "refuse_count"}
Accepted == {"map", "attached", "wired"}
Mapped   == {"gate"} \cup Refusing \cup Accepted
Holding  == Creating \cup {"size", "ready"} \cup Mapped
Pcs      == {"create", "open"} \cup Holding \cup Outcomes

Hashes == {SchemaHashOf(t) : t \in DOMAIN Decl}
Builds == {f[p].build : f \in Profiles, p \in Procs}

Profile == [type : DOMAIN Decl, hash : Hashes, build : Builds, asserts : BOOLEAN]
ProcRecord == [pc : Pcs, attempt : Int, poll : Int, obj : Objects \cup {0}, alive : BOOLEAN]
ObjRecord ==
  [creator : Procs \cup {None}, sized : BOOLEAN, build : Builds \cup {None},
   type : Hashes \cup {None}, ready : BOOLEAN, refused_type : Hashes \cup {None},
   refused_pid : Procs \cup {None}, refusal_count : Nat, pub_pid : Procs \cup {None},
   subs : SUBSET Procs]

TypeOK ==
  /\ profile \in [Procs -> Profile] /\ obj \in [Objects -> ObjRecord]
  /\ proc \in [Procs -> ProcRecord]
  /\ objects \in Nat /\ link \in 0..objects /\ faults \in 0..MaxFaults /\ raced \in BOOLEAN
  /\ clean \in [seen : Nat, runs : 0..MaxCleans, wired : SUBSET Procs]

\* A process that runs has a type its build accepts, and its hash is the type's.
ProfileAt(p) == /\ Type(p) = SchemaHashOf(profile[p].type)
                /\ proc[p].alive => Starts(p)

\* A published object says what its creator is, and its refusal record names
\* types and processes that differ from it.
ObjOK(x) ==
  /\ x.ready => x.creator \in Procs /\ x.build = Build(x.creator) /\ x.type = Type(x.creator)
  /\ x.refused_type # None => x.ready /\ x.refused_type # x.type
  /\ x.refused_pid # None => x.ready /\ Type(x.refused_pid) # x.type
  /\ x.refusal_count > 0 => x.refused_type # None /\ x.refused_pid # None

\* What process p, whose record is r, knows of the object x it has open.
ProcOK(p, r, x) ==
  /\ r.pc \in Creating => ~x.ready /\ x.creator = p
  /\ r.pc = "publish" => x.build = Build(p) /\ x.type = Type(p)
  /\ r.pc \in Mapped => x.ready
  /\ r.pc \in Refusing => x.type # Type(p)
  /\ r.pc \in {"refuse_pid", "refuse_count"} => x.refused_type # None
  /\ r.pc = "refuse_count" => x.refused_pid # None
  /\ r.pc \in Accepted => x.build = Build(p) /\ x.type = Type(p)
  /\ r.pc = "wired" => IF p \in Publishers THEN x.pub_pid = p ELSE p \in x.subs

\* A creator's object bears the name, and so does any published one that is open,
\* unless a clean took the name away under a process that was attaching.
NameOK(r, x, name, race) ==
  /\ r.pc \in Creating => r.obj = name
  /\ ~race /\ x.ready => r.obj = name

ProcAt(p) ==
  LET r == proc[p] IN
  r.alive /\ r.pc \in Holding =>
    r.obj \in 1..objects /\ ProcOK(p, r, obj[r.obj]) /\ NameOK(r, obj[r.obj], link, raced)

\* Every object but the first was made after the name was freed, by a failed
\* creator or by a clean; a clean still finds what it probed.
LinkInv ==
  /\ objects + (IF clean.seen # 0 THEN 1 ELSE 0)
       <= faults + clean.runs + (IF link # 0 THEN 1 ELSE 0)
  /\ clean.seen # 0 => link = clean.seen /\ obj[link].ready
  /\ clean.wired = {}

SegInv ==
  /\ TypeOK /\ LinkInv
  /\ \A o \in Objects : ObjOK(obj[o]) /\ (o > objects => obj[o] = RawPages)
  /\ \A p \in Procs : ProfileAt(p) /\ ProcAt(p)

-----------------------------------------------------------------------------
\* What the processes' steps have in common.

LEMMA Bounds ==
  /\ MaxFaults \in Nat /\ MaxCleans \in Nat /\ Objects = 1..(1 + MaxFaults + MaxCleans)
  /\ 0 \notin Objects /\ None \notin Procs
BY SegmentAssumption DEF Objects

\* Every object made so far is one of Objects, and so is the next one.
LEMMA ObjectsFit ==
  ASSUME TypeOK, LinkInv
  PROVE  /\ \A o \in 1..objects : o \in Objects
         /\ link = 0 => objects + 1 \in Objects
<1>1. /\ objects \in Nat /\ faults \in Nat /\ faults <= MaxFaults
      /\ clean.runs \in Nat /\ clean.runs <= MaxCleans
  BY Bounds DEF TypeOK
<1>2. objects <= faults + clean.runs + 1 /\ (link = 0 => objects <= faults + clean.runs)
  BY <1>1 DEF LinkInv
<1>3. objects <= 1 + MaxFaults + MaxCleans /\ (link = 0 => objects + 1 <= 1 + MaxFaults + MaxCleans)
  BY <1>1, <1>2, Bounds
<1> QED
  BY <1>1, <1>3, Bounds

\* What never changes of an object, and what another process than the one that
\* changes it relies on.
Stable(x, y) ==
  /\ y.creator = x.creator
  /\ x.ready => y.ready /\ y.build = x.build /\ y.type = x.type
  /\ x.refused_type # None => y.refused_type # None
  /\ x.refused_pid # None => y.refused_pid # None

Spares(q, x, y) ==
  /\ x.creator = q => y.ready = x.ready /\ y.build = x.build /\ y.type = x.type
  /\ ProcessAlive(q) /\ x.pub_pid = q => y.pub_pid = q
  /\ q \in x.subs => q \in y.subs

LEMMA OthersKeep ==
  ASSUME NEW q \in Procs, NEW r, NEW x, NEW y, ProcOK(q, r, x), ProcessAlive(q),
         Stable(x, y), Spares(q, x, y)
  PROVE  ProcOK(q, r, y)
BY DEF ProcOK, Stable, Spares, Creating, Mapped, Refusing, Accepted

\* A step of p that changes its own record and at most the object it has open.
LEMMA OwnStep ==
  ASSUME SegInv, NEW p \in Procs, NEW r \in ProcRecord, NEW o \in 1..objects, NEW y \in ObjRecord,
         proc[p].alive, proc' = [proc EXCEPT ![p] = r], obj' = [obj EXCEPT ![o] = y],
         UNCHANGED <<profile, link, objects, clean, faults, raced>>,
         ObjOK(y), Stable(obj[o], y), \A q \in Procs \ {p} : Spares(q, obj[o], y),
         y.ready /\ ~obj[o].ready => o = link,
         r.pc \in Holding => r.obj = o /\ ProcOK(p, r, y) /\ NameOK(r, y, link, raced)
  PROVE  SegInv'
<1>1. o \in Objects /\ ~(o > objects) /\ objects \in Nat
  BY ObjectsFit DEF SegInv, TypeOK
<1>2. TypeOK'
  BY <1>1 DEF SegInv, TypeOK
<1>3. /\ proc'[p] = r /\ \A q \in Procs : q # p => proc'[q] = proc[q]
      /\ obj'[o] = y /\ \A j \in Objects : j # o => obj'[j] = obj[j]
  BY <1>1 DEF SegInv, TypeOK
<1>4. LinkInv'
  <2>1. clean.seen # 0 => obj'[link].ready
    <3>1. ASSUME link = o, clean.seen # 0 PROVE y.ready
      BY <3>1 DEF SegInv, LinkInv, Stable
    <3>2. link # 0 => link \in Objects
      BY <1>1, ObjectsFit DEF SegInv, TypeOK
    <3> QED
      BY <1>3, <3>1, <3>2 DEF SegInv, LinkInv
  <2> QED
    BY <2>1 DEF SegInv, LinkInv
<1>5. \A j \in Objects : ObjOK(obj[j])' /\ (j > objects' => obj'[j] = RawPages)
  <2>1. ASSUME NEW j \in Objects, NEW x, obj'[j] = x, ObjOK(x) PROVE ObjOK(obj[j])'
    BY <2>1 DEF ObjOK, Build, Type
  <2> QED
    BY <1>1, <1>3, <2>1 DEF SegInv
<1>6. \A q \in Procs : ProfileAt(q)'
  <2>1. \A q \in Procs : proc'[q].alive => proc[q].alive
    BY <1>3
  <2> QED
    BY <2>1 DEF SegInv, ProfileAt, Starts, Type
<1>7. ASSUME NEW q \in Procs, NEW x, NEW z, z.obj \in Objects, proc'[q] = z, obj'[z.obj] = x,
             z.alive /\ z.pc \in Holding =>
               z.obj \in 1..objects /\ ProcOK(q, z, x) /\ NameOK(z, x, link, raced)
      PROVE  ProcAt(q)'
  BY <1>7 DEF ProcAt, ProcOK, NameOK, Build, Type
<1>8. ProcAt(p)'
  BY <1>1, <1>3, <1>7 DEF ProcAt
<1>9. ASSUME NEW q \in Procs, q # p PROVE ProcAt(q)'
  <2> DEFINE z == proc[q]
             j == z.obj
  <2>1. ProcAt(q) /\ proc'[q] = z
    BY <1>3, <1>9 DEF SegInv
  <2>2. CASE ~(z.alive /\ z.pc \in Holding)
    BY <2>1, <2>2 DEF ProcAt
  <2>3. CASE z.alive /\ z.pc \in Holding
    <3>1. j \in 1..objects /\ j \in Objects /\ ProcOK(q, z, obj[j]) /\ NameOK(z, obj[j], link, raced)
      BY <2>1, <2>3, ObjectsFit DEF ProcAt, SegInv
    <3>2. CASE j # o
      BY <1>3, <1>7, <2>1, <3>1, <3>2
    <3>3. CASE j = o
      <4>1. ProcessAlive(q) /\ Spares(q, obj[o], y)
        BY <1>9, <2>3, Bounds DEF ProcessAlive
      <4>2. ProcOK(q, z, y)
        BY <3>1, <3>3, <4>1, OthersKeep
      <4>3. NameOK(z, y, link, raced)
        BY <3>1, <3>3 DEF NameOK
      <4> QED
        BY <1>3, <1>7, <2>1, <3>1, <3>3, <4>2, <4>3
    <3> QED
      BY <3>2, <3>3
  <2> QED
    BY <2>2, <2>3
<1> QED
  BY <1>2, <1>4, <1>5, <1>6, <1>8, <1>9 DEF SegInv

\* A step of p that changes its own record alone.
LEMMA QuietStep ==
  ASSUME SegInv, NEW p \in Procs, NEW r \in ProcRecord,
         proc[p].alive, proc' = [proc EXCEPT ![p] = r],
         UNCHANGED <<profile, link, objects, obj, clean, raced>>,
         faults' \in 0..MaxFaults, faults <= faults',
         r.alive /\ r.pc \in Holding =>
           /\ r.obj \in 1..objects /\ ProcOK(p, r, obj[r.obj])
           /\ NameOK(r, obj[r.obj], link, raced)
  PROVE  SegInv'
<1>1. proc'[p] = r /\ \A q \in Procs : q # p => proc'[q] = proc[q]
  BY DEF SegInv, TypeOK
<1>2. TypeOK'
  BY DEF SegInv, TypeOK
<1>3. LinkInv'
  <2>1. /\ objects \in Nat /\ faults \in Nat /\ faults' \in Nat /\ clean.runs \in Nat
    BY Bounds DEF SegInv, TypeOK
  <2> QED
    BY <2>1 DEF SegInv, LinkInv
<1>4. \A j \in Objects : ObjOK(obj[j])' /\ (j > objects' => obj'[j] = RawPages)
  BY DEF SegInv, ObjOK, Build, Type
<1>5. \A q \in Procs : ProfileAt(q)'
  <2>1. \A q \in Procs : proc'[q].alive => proc[q].alive
    BY <1>1
  <2> QED
    BY <2>1 DEF SegInv, ProfileAt, Starts, Type
<1>6. ASSUME NEW q \in Procs, NEW z, proc'[q] = z,
             z.alive /\ z.pc \in Holding =>
               z.obj \in 1..objects /\ ProcOK(q, z, obj[z.obj]) /\ NameOK(z, obj[z.obj], link, raced)
      PROVE  ProcAt(q)'
  BY <1>6 DEF ProcAt, ProcOK, NameOK, Build, Type
<1>7. ASSUME NEW q \in Procs, q # p PROVE ProcAt(q)'
  <2>1. ProcAt(q) /\ proc'[q] = proc[q]
    BY <1>1, <1>7 DEF SegInv
  <2> QED
    BY <1>6, <2>1 DEF ProcAt
<1> QED
  BY <1>1, <1>2, <1>3, <1>4, <1>5, <1>6, <1>7 DEF SegInv

\* The record of a process that goes on, and of one that gives up.
LEMMA Goes ==
  ASSUME TypeOK, NEW p \in Procs, NEW pc \in Pcs, Goto(p, pc)
  PROVE  \E r \in ProcRecord : /\ proc' = [proc EXCEPT ![p] = r]
                               /\ r.pc = pc /\ r.obj = proc[p].obj /\ r.alive = proc[p].alive
<1> DEFINE r == [proc[p] EXCEPT !.pc = pc]
<1>1. proc' = [proc EXCEPT ![p] = r]
  BY DEF Goto
<1>2. r \in ProcRecord /\ r.pc = pc /\ r.obj = proc[p].obj /\ r.alive = proc[p].alive
  BY DEF TypeOK, ProcRecord
<1> QED
  BY <1>1, <1>2

LEMMA GivesUp ==
  ASSUME TypeOK, NEW p \in Procs, NEW pc \in Outcomes, GiveUp(p, pc)
  PROVE  \E r \in ProcRecord : proc' = [proc EXCEPT ![p] = r] /\ r.pc = pc
<1> DEFINE r == [proc[p] EXCEPT !.pc = pc, !.obj = 0]
<1>1. proc' = [proc EXCEPT ![p] = r]
  BY DEF GiveUp, TypeOK, ProcRecord
<1>2. r \in ProcRecord /\ r.pc = pc
  BY DEF TypeOK, ProcRecord, Pcs
<1> QED
  BY <1>1, <1>2

LEMMA PcsApart ==
  /\ \A pc \in {"create", "open"} : pc \in Pcs /\ pc \notin Holding
  /\ \A pc \in Outcomes \ {"wired"} : pc \notin Holding /\ pc \in Pcs
  /\ Holding \subseteq Pcs
BY DEF Pcs, Holding, Creating, Mapped, Refusing, Accepted, Outcomes, Reasons

\* A process that gives up leaves nothing behind.
LEMMA Quits ==
  ASSUME SegInv, NEW p \in Procs, NEW pc \in Outcomes \ {"wired"}, GiveUp(p, pc), proc[p].alive,
         UNCHANGED <<profile, link, objects, obj, clean, raced>>,
         faults' \in 0..MaxFaults, faults <= faults'
  PROVE  SegInv'
<1>1. PICK r \in ProcRecord : proc' = [proc EXCEPT ![p] = r] /\ r.pc = pc
  BY GivesUp DEF SegInv
<1> QED
  BY <1>1, PcsApart, QuietStep

LEMMA Faults ==
  ASSUME SegInv
  PROVE  /\ faults \in 0..MaxFaults /\ faults <= faults
         /\ faults < MaxFaults => faults + 1 \in 0..MaxFaults /\ faults <= faults + 1
BY Bounds DEF SegInv, TypeOK

\* What the process at a program counter that holds an object knows.
LEMMA Knows ==
  ASSUME SegInv, NEW p \in Procs, proc[p].alive, proc[p].pc \in Holding
  PROVE  /\ proc[p].obj \in 1..objects /\ proc[p].obj \in Objects
         /\ obj[proc[p].obj] \in ObjRecord /\ ObjOK(obj[proc[p].obj])
         /\ ProcOK(p, proc[p], obj[proc[p].obj])
         /\ NameOK(proc[p], obj[proc[p].obj], link, raced)
<1>1. ProcAt(p)
  BY DEF SegInv
<1>2. proc[p].obj \in 1..objects /\ proc[p].obj \in Objects
  BY <1>1, ObjectsFit DEF SegInv, ProcAt
<1> QED
  BY <1>1, <1>2 DEF SegInv, TypeOK, ProcAt

-----------------------------------------------------------------------------
\* The name comes and goes.

\* A process that keeps its object while the name changes: it is no creator, and
\* its object is not published unless a clean raced.
LEMMA Unnamed ==
  ASSUME SegInv, NEW q \in Procs, proc'[q] = proc[q], UNCHANGED profile,
         objects' \in Nat, objects <= objects',
         proc[q].alive /\ proc[q].pc \in Holding =>
           /\ obj'[proc[q].obj] = obj[proc[q].obj]
           /\ proc[q].pc \notin Creating
           /\ raced' \/ ~obj[proc[q].obj].ready
  PROVE  ProcAt(q)'
<1>1. ASSUME NEW z, NEW x, proc'[q] = z, obj'[z.obj] = x,
             z.alive /\ z.pc \in Holding =>
               /\ z.obj \in 1..objects' /\ ProcOK(q, z, x)
               /\ z.pc \notin Creating /\ (raced' \/ ~x.ready)
      PROVE  ProcAt(q)'
  BY <1>1 DEF ProcAt, ProcOK, NameOK, Build, Type
<1>2. CASE ~(proc[q].alive /\ proc[q].pc \in Holding)
  BY <1>2 DEF ProcAt
<1>3. CASE proc[q].alive /\ proc[q].pc \in Holding
  <2>1. proc[q].obj \in 1..objects' /\ ProcOK(q, proc[q], obj[proc[q].obj])
    BY <1>3, Knows DEF SegInv, TypeOK
  <2> QED
    BY <1>1, <1>3, <2>1
<1> QED
  BY <1>2, <1>3

LEMMA Unmoved ==
  ASSUME SegInv, UNCHANGED <<profile, link, objects, obj, proc, raced>>
  PROVE  /\ \A o \in Objects : ObjOK(obj[o])' /\ (o > objects' => obj'[o] = RawPages)
         /\ \A p \in Procs : ProfileAt(p)' /\ ProcAt(p)'
<1>1. \A o \in Objects : ObjOK(obj[o])' /\ (o > objects' => obj'[o] = RawPages)
  BY DEF SegInv, ObjOK, Build, Type
<1>2. \A p \in Procs : ProfileAt(p)'
  BY DEF SegInv, ProfileAt, Starts, Type
<1>3. ASSUME NEW p \in Procs PROVE ProcAt(p)'
  <2>1. ProcAt(p)
    BY DEF SegInv
  <2> QED
    BY <2>1 DEF ProcAt, ProcOK, NameOK, Build, Type
<1> QED
  BY <1>1, <1>2, <1>3

LEMMA SegCreate ==
  ASSUME SegInv, NEW p \in Procs, Create(p), UNCHANGED <<profile, clean, raced>>
  PROVE  SegInv'
<1>1. CASE link # 0
  <2>1. /\ Goto(p, "open") /\ UNCHANGED <<link, objects, obj, faults>> /\ proc[p].alive
    BY <1>1 DEF Create, At
  <2>2. "open" \in Pcs /\ "open" \notin Holding
    BY PcsApart
  <2>3. PICK r \in ProcRecord : proc' = [proc EXCEPT ![p] = r] /\ r.pc = "open"
    BY <2>1, <2>2, Goes DEF SegInv
  <2> QED
    BY <2>1, <2>2, <2>3, QuietStep, Faults
<1>2. CASE link = 0
  <2> DEFINE n == objects + 1
             r == [proc[p] EXCEPT !.pc = "truncate", !.obj = n]
             y == [RawPages EXCEPT !.creator = p]
  <2>1. n \in Objects /\ objects \in Nat /\ obj[n] = RawPages /\ TypeOK
    BY <1>2, ObjectsFit DEF SegInv, TypeOK
  <2>2. /\ objects' = n /\ link' = n /\ UNCHANGED faults /\ proc[p].alive
        /\ obj' = [obj EXCEPT ![n] = [obj[n] EXCEPT !.creator = p]]
        /\ proc' = [proc EXCEPT ![p].pc = "truncate", ![p].obj = n]
    BY <1>2 DEF Create, At
  <2> HIDE DEF n
  <2>3. r \in ProcRecord /\ r.pc = "truncate" /\ r.obj = n /\ r.alive
    BY <2>1, <2>2, PcsApart DEF TypeOK, ProcRecord, Holding, Creating
  <2>4. proc' = [proc EXCEPT ![p] = r]
    BY <2>1, <2>2 DEF TypeOK, ProcRecord
  <2>5. obj' = [obj EXCEPT ![n] = y]
    BY <2>1, <2>2
  <2>6. /\ y \in ObjRecord /\ ~y.ready /\ y.creator = p /\ y.refused_type = None
        /\ y.refused_pid = None /\ y.refusal_count = 0
    <3>1. /\ RawPages \in ObjRecord /\ ~RawPages.ready /\ RawPages.refused_type = None
          /\ RawPages.refused_pid = None /\ RawPages.refusal_count = 0
      BY DEF RawPages, ObjRecord
    <3> QED
      BY <3>1 DEF ObjRecord
  <2> HIDE DEF r, y
  <2>7. /\ proc'[p] = r /\ \A q \in Procs : q # p => proc'[q] = proc[q]
        /\ obj'[n] = y /\ \A j \in Objects : j # n => obj'[j] = obj[j]
    BY <2>1, <2>4, <2>5 DEF TypeOK
  <2>8. TypeOK'
    <3>1. n \in Nat /\ n \in 0..n
      BY <2>1 DEF n
    <3>2. proc' \in [Procs -> ProcRecord]
      BY <2>1, <2>3, <2>4 DEF TypeOK
    <3>3. obj' \in [Objects -> ObjRecord]
      BY <2>1, <2>5, <2>6 DEF TypeOK
    <3> QED
      BY <2>1, <2>2, <3>1, <3>2, <3>3 DEF TypeOK
  <2>9. LinkInv'
    <3>1. clean.seen = 0
      BY <1>2 DEF SegInv, LinkInv
    <3>2. n # 0 /\ n = objects + 1
      BY <2>1 DEF n
    <3>3. faults \in Nat /\ clean.runs \in Nat /\ objects <= faults + clean.runs
      BY <1>2, <3>1, Bounds DEF SegInv, LinkInv, TypeOK
    <3> QED
      BY <2>1, <2>2, <3>1, <3>2, <3>3 DEF SegInv, LinkInv
  <2>10. \A j \in Objects : ObjOK(obj[j])' /\ (j > objects' => obj'[j] = RawPages)
    <3>1. ASSUME NEW j \in Objects, NEW x, obj'[j] = x, ObjOK(x) PROVE ObjOK(obj[j])'
      BY <3>1 DEF ObjOK, Build, Type
    <3>2. ObjOK(y)
      BY <2>6 DEF ObjOK
    <3>3. \A j \in Objects : j > n => j > objects /\ j # n
      BY <2>1, Bounds DEF n
    <3> QED
      BY <2>2, <2>7, <3>1, <3>2, <3>3 DEF SegInv
  <2>11. \A q \in Procs : ProfileAt(q)'
    <3>1. \A q \in Procs : proc'[q].alive => proc[q].alive
      BY <2>2, <2>7
    <3> QED
      BY <3>1 DEF SegInv, ProfileAt, Starts, Type
  <2>12. ProcAt(p)'
    <3>1. n \in 1..n
      BY <2>1 DEF n
    <3> QED
      BY <2>2, <2>3, <2>6, <2>7, <3>1
         DEF ProcAt, ProcOK, NameOK, Creating, Mapped, Refusing, Accepted
  <2>13. ASSUME NEW q \in Procs, q # p PROVE ProcAt(q)'
    <3>1. ASSUME proc[q].alive, proc[q].pc \in Holding
          PROVE  /\ obj'[proc[q].obj] = obj[proc[q].obj]
                 /\ proc[q].pc \notin Creating
                 /\ raced' \/ ~obj[proc[q].obj].ready
      <4>1. /\ proc[q].obj \in 1..objects /\ proc[q].obj \in Objects
            /\ NameOK(proc[q], obj[proc[q].obj], link, raced)
        BY <3>1, Knows
      <4>2. proc[q].obj # n /\ proc[q].obj # 0
        BY <2>1, <4>1 DEF n
      <4> QED
        BY <1>2, <2>7, <4>1, <4>2 DEF NameOK
    <3>2. objects' \in Nat /\ objects <= objects'
      BY <2>1, <2>2 DEF n
    <3> QED
      BY <2>7, <2>13, <3>1, <3>2, Unnamed
  <2> QED
    BY <2>8, <2>9, <2>10, <2>11, <2>12, <2>13 DEF SegInv
<1> QED
  BY <1>1, <1>2

\* A failing call: a creator that has not published takes its name along.
LEMMA SegOsRefuses ==
  ASSUME SegInv, NEW p \in Procs, OsRefuses(p), UNCHANGED <<profile, clean, raced>>
  PROVE  SegInv'
<1>1. /\ proc[p].alive /\ faults < MaxFaults /\ GiveUp(p, "os") /\ faults' = faults + 1
      /\ UNCHANGED <<objects, obj>>
  BY DEF OsRefuses
<1>2. "os" \in Outcomes \ {"wired"} /\ "os" \notin Holding /\ "os" \in Outcomes
  BY PcsApart DEF Outcomes, Reasons
<1>3. CASE ~Unlinks(p)
  <2>1. UNCHANGED link
    BY <1>3 DEF OsRefuses
  <2> QED
    BY <1>1, <1>2, <2>1, Quits, Faults
<1>4. CASE Unlinks(p)
  <2>1. PICK r \in ProcRecord : proc' = [proc EXCEPT ![p] = r] /\ r.pc = "os"
    BY <1>1, <1>2, GivesUp DEF SegInv
  <2>2. proc[p].pc \in Creating /\ proc[p].pc \in Holding /\ link' = 0
    BY <1>4 DEF Unlinks, Creating, Holding, OsRefuses
  <2>3. link = proc[p].obj /\ link # 0 /\ ~obj[link].ready /\ obj[link].creator = p
    <3>1. /\ proc[p].obj \in 1..objects /\ ProcOK(p, proc[p], obj[proc[p].obj])
          /\ NameOK(proc[p], obj[proc[p].obj], link, raced)
      BY <1>1, <2>2, Knows
    <3>2. link = proc[p].obj
      BY <2>2, <3>1 DEF NameOK
    <3> QED
      BY <2>2, <3>1, <3>2 DEF ProcOK
  <2>4. proc'[p] = r /\ \A q \in Procs : q # p => proc'[q] = proc[q]
    BY <2>1 DEF SegInv, TypeOK
  <2>5. TypeOK'
    BY <1>1, <2>1, <2>2, Faults DEF SegInv, TypeOK
  <2>6. LinkInv'
    <3>1. clean.seen = 0
      BY <2>3 DEF SegInv, LinkInv
    <3>2. objects \in Nat /\ faults \in Nat /\ clean.runs \in Nat
      BY Bounds DEF SegInv, TypeOK
    <3> QED
      BY <1>1, <2>2, <2>3, <3>1, <3>2 DEF SegInv, LinkInv
  <2>7. \A j \in Objects : ObjOK(obj[j])' /\ (j > objects' => obj'[j] = RawPages)
    BY <1>1 DEF SegInv, ObjOK, Build, Type
  <2>8. \A q \in Procs : ProfileAt(q)'
    <3>1. \A q \in Procs : proc'[q].alive => proc[q].alive
      BY <1>1, <2>4
    <3> QED
      BY <3>1 DEF SegInv, ProfileAt, Starts, Type
  <2>9. ProcAt(p)'
    BY <1>2, <2>1, <2>4 DEF ProcAt
  <2>10. ASSUME NEW q \in Procs, q # p PROVE ProcAt(q)'
    <3>1. ASSUME proc[q].alive, proc[q].pc \in Holding
          PROVE  proc[q].pc \notin Creating /\ (raced' \/ ~obj[proc[q].obj].ready)
      BY <2>3, <2>10, <3>1, Knows DEF NameOK, ProcOK
    <3>2. objects' \in Nat /\ objects <= objects'
      BY <1>1 DEF SegInv, TypeOK
    <3> QED
      BY <1>1, <2>4, <2>10, <3>1, <3>2, Unnamed
  <2> QED
    BY <2>5, <2>6, <2>7, <2>8, <2>9, <2>10 DEF SegInv
<1> QED
  BY <1>3, <1>4

\* No live endpoint is wired to a segment that a probe finds dead.
LEMMA SegProbe ==
  ASSUME SegInv, CleanProbe
  PROVE  SegInv'
<1>1. /\ link # 0 /\ Dead(link) /\ clean.seen = 0 /\ clean.runs < MaxCleans
      /\ UNCHANGED <<profile, link, objects, faults, obj, proc, raced>>
  BY DEF CleanProbe, names
<1> DEFINE w == {p \in Procs : At(p, "wired") /\ proc[p].obj = link}
<1>2. clean' = [seen |-> link, runs |-> clean.runs + 1, wired |-> w]
  BY DEF CleanProbe
<1>3. w = {}
  <2> SUFFICES ASSUME NEW p \in Procs, At(p, "wired"), proc[p].obj = link PROVE FALSE
    OBVIOUS
  <2>1. ProcOK(p, proc[p], obj[link]) /\ proc[p].alive /\ proc[p].pc = "wired"
    BY Knows DEF At, Holding, Mapped, Accepted
  <2> QED
    BY <1>1, <2>1, Bounds DEF ProcOK, Dead, ProcessAlive
<1> HIDE DEF w
<1>4. /\ link \in Nat /\ clean.runs \in Nat /\ clean.runs + 1 \in 0..MaxCleans
      /\ objects \in Nat /\ faults \in Nat
  BY <1>1, Bounds DEF SegInv, TypeOK
<1>5. clean' \in [seen : Nat, runs : 0..MaxCleans, wired : SUBSET Procs]
  BY <1>2, <1>3, <1>4
<1>6. TypeOK'
  BY <1>1, <1>5 DEF SegInv, TypeOK
<1>7. obj[link].ready
  BY <1>1 DEF Dead
<1>8. clean'.seen = link /\ clean'.runs = clean.runs + 1 /\ clean'.wired = {}
  BY <1>2, <1>3
<1>9. LinkInv'
  BY <1>1, <1>4, <1>7, <1>8 DEF SegInv, LinkInv
<1> QED
  BY <1>1, <1>6, <1>9, Unmoved DEF SegInv

LEMMA SegUnlink ==
  ASSUME SegInv, CleanUnlink
  PROVE  SegInv'
<1>1. /\ clean.seen # 0 /\ link' = 0 /\ UNCHANGED <<profile, objects, faults, obj, proc>>
      /\ clean' = [clean EXCEPT !.seen = 0, !.wired = {}]
      /\ raced' = (raced \/ \E p \in Procs \ clean.wired : link # 0 /\ Open(p, link))
  BY DEF CleanUnlink
<1>2. link # 0 /\ obj[link].ready /\ clean.wired = {}
  BY <1>1 DEF SegInv, LinkInv
<1>3. /\ clean' \in [seen : Nat, runs : 0..MaxCleans, wired : SUBSET Procs]
      /\ clean'.seen = 0 /\ clean'.wired = {} /\ clean'.runs = clean.runs
  BY <1>1 DEF SegInv, TypeOK
<1>4. TypeOK'
  BY <1>1, <1>3 DEF SegInv, TypeOK
<1>5. LinkInv'
  <2>1. objects \in Nat /\ faults \in Nat /\ clean.runs \in Nat
    BY Bounds DEF SegInv, TypeOK
  <2> QED
    BY <1>1, <1>2, <1>3, <2>1 DEF SegInv, LinkInv
<1>6. ASSUME NEW q \in Procs PROVE ProcAt(q)'
  <2>1. ASSUME proc[q].alive, proc[q].pc \in Holding
        PROVE  proc[q].pc \notin Creating /\ (raced' \/ ~obj[proc[q].obj].ready)
    <3>1. /\ NameOK(proc[q], obj[proc[q].obj], link, raced)
          /\ ProcOK(q, proc[q], obj[proc[q].obj])
      BY <2>1, Knows
    <3>2. proc[q].pc \notin Creating
      BY <1>2, <3>1 DEF NameOK, ProcOK
    <3>3. proc[q].obj = link => raced'
      BY <1>1, <1>2, <2>1 DEF Open
    <3>4. raced => raced'
      BY <1>1
    <3> QED
      BY <3>1, <3>2, <3>3, <3>4 DEF NameOK
  <2>2. objects' \in Nat /\ objects <= objects' /\ proc'[q] = proc[q]
    BY <1>1 DEF SegInv, TypeOK
  <2> QED
    BY <1>1, <2>1, <2>2, Unnamed
<1> QED
  BY <1>1, <1>4, <1>5, <1>6 DEF SegInv, ObjOK, ProfileAt, Starts, Build, Type

-----------------------------------------------------------------------------
\* The creator's steps.

LEMMA SegTruncate ==
  ASSUME SegInv, NEW p \in Procs, Truncate(p), UNCHANGED <<profile, clean, raced>>
  PROVE  SegInv'
<1> DEFINE o == proc[p].obj
           x == obj[o]
           y == [x EXCEPT !.sized = TRUE]
<1>1. /\ proc[p].alive /\ proc[p].pc = "truncate" /\ Goto(p, "fill")
      /\ UNCHANGED <<link, objects, faults>> /\ obj' = [obj EXCEPT ![o] = y]
  BY DEF Truncate, At, names
<1>2. "fill" \in Pcs /\ "truncate" \in Holding /\ "truncate" \in Creating
  BY PcsApart DEF Holding, Creating
<1>3. PICK r \in ProcRecord : proc' = [proc EXCEPT ![p] = r] /\ r.pc = "fill" /\ r.obj = o
  BY <1>1, <1>2, Goes DEF SegInv
<1>4. /\ o \in 1..objects /\ x \in ObjRecord /\ ObjOK(x)
      /\ ~x.ready /\ x.creator = p /\ o = link
  BY <1>1, <1>2, Knows DEF ProcOK, NameOK
<1>5. /\ y \in ObjRecord /\ y.creator = x.creator /\ y.ready = x.ready /\ y.build = x.build
      /\ y.type = x.type /\ y.refused_type = x.refused_type /\ y.refused_pid = x.refused_pid
      /\ y.refusal_count = x.refusal_count /\ y.pub_pid = x.pub_pid /\ y.subs = x.subs
  BY <1>4 DEF ObjRecord
<1> HIDE DEF y
<1>6. ObjOK(y) /\ Stable(x, y) /\ \A q \in Procs \ {p} : Spares(q, x, y)
  BY <1>4, <1>5 DEF ObjOK, Stable, Spares
<1>7. ProcOK(p, r, y) /\ NameOK(r, y, link, raced)
  BY <1>3, <1>4, <1>5 DEF ProcOK, NameOK, Creating, Mapped, Refusing, Accepted
<1> QED
  BY <1>1, <1>3, <1>4, <1>5, <1>6, <1>7, OwnStep

LEMMA SegFillHeader ==
  ASSUME SegInv, NEW p \in Procs, FillHeader(p), UNCHANGED <<profile, clean, raced>>
  PROVE  SegInv'
<1> DEFINE o == proc[p].obj
           x == obj[o]
           b == Build(p)
           t == Type(p)
           y == [x EXCEPT !.build = b, !.type = t]
<1>1. /\ proc[p].alive /\ proc[p].pc = "fill" /\ Goto(p, "publish")
      /\ UNCHANGED <<link, objects, faults>>
      /\ obj' = [obj EXCEPT ![o].build = b, ![o].type = t]
  BY DEF FillHeader, At, names
<1>2. "publish" \in Pcs /\ "fill" \in Holding /\ "fill" \in Creating
  BY PcsApart DEF Holding, Creating
<1>3. PICK r \in ProcRecord : proc' = [proc EXCEPT ![p] = r] /\ r.pc = "publish" /\ r.obj = o
  BY <1>1, <1>2, Goes DEF SegInv
<1>4. /\ o \in 1..objects /\ o \in Objects /\ x \in ObjRecord /\ ObjOK(x)
      /\ ~x.ready /\ x.creator = p /\ o = link
  BY <1>1, <1>2, Knows DEF ProcOK, NameOK
<1>5. b \in Builds /\ t \in Hashes
  BY DEF SegInv, TypeOK, Profile, Build, Type
<1>6. obj' = [obj EXCEPT ![o] = y]
  BY <1>1, <1>4 DEF SegInv, TypeOK
<1>7. /\ y \in ObjRecord /\ y.creator = x.creator /\ y.ready = x.ready /\ y.build = b
      /\ y.type = t /\ y.refused_type = x.refused_type /\ y.refused_pid = x.refused_pid
      /\ y.refusal_count = x.refusal_count /\ y.pub_pid = x.pub_pid /\ y.subs = x.subs
  BY <1>4, <1>5 DEF ObjRecord
<1> HIDE DEF y
<1>8. ObjOK(y) /\ Stable(x, y) /\ \A q \in Procs \ {p} : Spares(q, x, y)
  BY <1>4, <1>7 DEF ObjOK, Stable, Spares
<1>9. ProcOK(p, r, y) /\ NameOK(r, y, link, raced)
  BY <1>3, <1>4, <1>7 DEF ProcOK, NameOK, Creating, Mapped, Refusing, Accepted
<1> QED
  BY <1>1, <1>3, <1>4, <1>6, <1>7, <1>8, <1>9, OwnStep

LEMMA SegMarkReady ==
  ASSUME SegInv, NEW p \in Procs, MarkReady(p), UNCHANGED <<profile, clean, raced>>
  PROVE  SegInv'
<1> DEFINE o == proc[p].obj
           x == obj[o]
           y == [x EXCEPT !.ready = TRUE]
<1>1. /\ proc[p].alive /\ proc[p].pc = "publish" /\ Goto(p, "attached")
      /\ UNCHANGED <<link, objects, faults>> /\ obj' = [obj EXCEPT ![o] = y]
  BY DEF MarkReady, At, names
<1>2. "attached" \in Pcs /\ "publish" \in Holding /\ "publish" \in Creating
  BY PcsApart DEF Holding, Creating, Mapped, Accepted
<1>3. PICK r \in ProcRecord : proc' = [proc EXCEPT ![p] = r] /\ r.pc = "attached" /\ r.obj = o
  BY <1>1, <1>2, Goes DEF SegInv
<1>4. /\ o \in 1..objects /\ x \in ObjRecord /\ ObjOK(x) /\ ~x.ready /\ x.creator = p
      /\ o = link /\ x.build = Build(p) /\ x.type = Type(p)
  BY <1>1, <1>2, Knows DEF ProcOK, NameOK
<1>5. /\ y \in ObjRecord /\ y.creator = x.creator /\ y.ready /\ y.build = x.build
      /\ y.type = x.type /\ y.refused_type = x.refused_type /\ y.refused_pid = x.refused_pid
      /\ y.refusal_count = x.refusal_count /\ y.pub_pid = x.pub_pid /\ y.subs = x.subs
  BY <1>4 DEF ObjRecord
<1> HIDE DEF y
<1>6. ObjOK(y) /\ Stable(x, y) /\ \A q \in Procs \ {p} : Spares(q, x, y)
  BY <1>4, <1>5 DEF ObjOK, Stable, Spares
<1>7. ProcOK(p, r, y) /\ NameOK(r, y, link, raced)
  BY <1>3, <1>4, <1>5 DEF ProcOK, NameOK, Creating, Mapped, Refusing, Accepted
<1> QED
  BY <1>1, <1>3, <1>4, <1>5, <1>6, <1>7, OwnStep

-----------------------------------------------------------------------------
\* The attacher's steps.

\* A step between two program counters that hold the same object.
LEMMA KeepsObject ==
  ASSUME SegInv, NEW p \in Procs, NEW r \in ProcRecord, proc[p].alive, proc[p].pc \in Holding,
         proc' = [proc EXCEPT ![p] = r], r.obj = proc[p].obj, r.pc \notin Creating,
         UNCHANGED <<profile, link, objects, obj, clean, faults, raced>>,
         ProcOK(p, r, obj[proc[p].obj])
  PROVE  SegInv'
<1>1. /\ proc[p].obj \in 1..objects /\ NameOK(r, obj[proc[p].obj], link, raced)
  BY Knows DEF NameOK
<1> QED
  BY <1>1, Faults, QuietStep

LEMMA SegOpenExisting ==
  ASSUME SegInv, NEW p \in Procs, OpenExisting(p), UNCHANGED <<profile, clean, raced>>
  PROVE  SegInv'
<1>1. proc[p].alive /\ UNCHANGED <<link, objects, faults, obj>> /\ TypeOK
  BY DEF OpenExisting, At, names, SegInv
<1>2. CASE link = 0 /\ ~Retries(p)
  <2>1. GiveUp(p, "vanished") /\ "vanished" \in Outcomes \ {"wired"}
    BY <1>2 DEF OpenExisting, Outcomes, Reasons
  <2> QED
    BY <1>1, <2>1, Quits, Faults
<1>3. CASE link = 0 /\ Retries(p)
  <2> DEFINE k == proc[p].attempt + 1
             r == [proc[p] EXCEPT !.pc = "create", !.attempt = k]
  <2>1. proc' = [proc EXCEPT ![p].pc = "create", ![p].attempt = k]
    BY <1>3 DEF OpenExisting
  <2>2. k \in Int /\ "create" \in Pcs /\ "create" \notin Holding
    BY <1>1, PcsApart DEF TypeOK, ProcRecord
  <2> HIDE DEF k
  <2>3. proc' = [proc EXCEPT ![p] = r]
    BY <1>1, <2>1 DEF TypeOK, ProcRecord
  <2>4. r \in ProcRecord /\ r.pc = "create"
    BY <1>1, <2>2 DEF TypeOK, ProcRecord
  <2> QED
    BY <1>1, <2>2, <2>3, <2>4, QuietStep, Faults
<1>4. CASE link # 0
  <2> DEFINE s == [proc[p] EXCEPT !.pc = "size", !.obj = link]
             r == [s EXCEPT !.poll = 0]
  <2>1. proc' = [proc EXCEPT ![p].pc = "size", ![p].obj = link, ![p].poll = 0]
    BY <1>4 DEF OpenExisting
  <2>2. link \in 1..objects /\ link \in Objects /\ "size" \in Pcs
    BY <1>1, <1>4, ObjectsFit, PcsApart DEF SegInv, TypeOK, Holding
  <2>3. s \in ProcRecord /\ s.pc = "size" /\ s.obj = link
    BY <1>1, <2>2 DEF TypeOK, ProcRecord
  <2>4. proc' = [proc EXCEPT ![p] = r]
    BY <1>1, <2>1 DEF TypeOK, ProcRecord
  <2> HIDE DEF s
  <2>5. r \in ProcRecord /\ r.pc = "size" /\ r.obj = link
    BY <2>3 DEF ProcRecord
  <2> HIDE DEF r
  <2>6. ProcOK(p, r, obj[link]) /\ NameOK(r, obj[link], link, raced)
    BY <2>5 DEF ProcOK, NameOK, Creating, Mapped, Refusing, Accepted
  <2> QED
    BY <1>1, <2>2, <2>4, <2>5, <2>6, QuietStep, Faults
<1> QED
  BY <1>2, <1>3, <1>4

\* The record of a poll that waits.
LEMMA PollsAgain ==
  ASSUME TypeOK, NEW p \in Procs,
         proc' = [proc EXCEPT ![p].poll = IF @ < kPolls THEN @ + 1 ELSE @]
  PROVE  \E r \in ProcRecord : /\ proc' = [proc EXCEPT ![p] = r]
                               /\ r.pc = proc[p].pc /\ r.obj = proc[p].obj
<1> DEFINE k == IF proc[p].poll < kPolls THEN proc[p].poll + 1 ELSE proc[p].poll
           r == [proc[p] EXCEPT !.poll = k]
<1>1. k \in Int
  BY DEF TypeOK, ProcRecord
<1>2. proc' = [proc EXCEPT ![p] = r]
  OBVIOUS
<1> HIDE DEF k
<1>3. r \in ProcRecord /\ r.pc = proc[p].pc /\ r.obj = proc[p].obj
  BY <1>1 DEF TypeOK, ProcRecord
<1> HIDE DEF r
<1> QED
  BY <1>2, <1>3

LEMMA SegAwaitSize ==
  ASSUME SegInv, NEW p \in Procs, AwaitSize(p), UNCHANGED <<profile, clean, raced>>
  PROVE  SegInv'
<1>1. /\ proc[p].alive /\ proc[p].pc = "size" /\ UNCHANGED <<link, objects, faults, obj>> /\ TypeOK
  BY DEF AwaitSize, Poll, At, names, SegInv
<1>2. proc[p].pc \in Holding /\ "ready" \in Pcs
  BY <1>1, PcsApart DEF Holding
<1>3. ASSUME NEW r, r.pc = "size" \/ r.pc = "ready"
      PROVE  ProcOK(p, r, obj[proc[p].obj]) /\ r.pc \notin Creating
  BY <1>3 DEF ProcOK, Creating, Mapped, Refusing, Accepted
<1>4. CASE Mine(p).sized
  <2>1. proc' = [proc EXCEPT ![p].pc = "ready", ![p].poll = 0]
    BY <1>4 DEF AwaitSize, Poll
  <2> DEFINE s == [proc[p] EXCEPT !.pc = "ready"]
             r == [s EXCEPT !.poll = 0]
  <2>2. proc' = [proc EXCEPT ![p] = r]
    BY <1>1, <2>1 DEF TypeOK, ProcRecord
  <2>3. s \in ProcRecord /\ s.pc = "ready" /\ s.obj = proc[p].obj
    BY <1>1, <1>2 DEF TypeOK, ProcRecord
  <2> HIDE DEF s
  <2>4. r \in ProcRecord /\ r.pc = "ready" /\ r.obj = proc[p].obj
    BY <2>3 DEF ProcRecord
  <2> HIDE DEF r
  <2>5. ProcOK(p, r, obj[proc[p].obj]) /\ r.pc \notin Creating
    BY <1>3, <1>4, <2>4
  <2> QED
    BY <1>1, <1>2, <2>2, <2>4, <2>5, KeepsObject
<1>5. CASE ~Mine(p).sized /\ Patience(p)
  <2>1. proc' = [proc EXCEPT ![p].poll = IF @ < kPolls THEN @ + 1 ELSE @]
    BY <1>5 DEF AwaitSize, Poll
  <2>2. PICK r \in ProcRecord : proc' = [proc EXCEPT ![p] = r] /\ r.pc = "size" /\ r.obj = proc[p].obj
    BY <1>1, <2>1, PollsAgain
  <2>3. ProcOK(p, r, obj[proc[p].obj]) /\ r.pc \notin Creating
    BY <1>3, <2>2
  <2> QED
    BY <1>1, <1>2, <2>2, <2>3, KeepsObject
<1>6. CASE ~Mine(p).sized /\ ~Patience(p)
  <2>1. GiveUp(p, "timeout") /\ "timeout" \in Outcomes \ {"wired"}
    BY <1>6 DEF AwaitSize, Poll, Outcomes, Reasons
  <2> QED
    BY <1>1, <2>1, Quits, Faults
<1> QED
  BY <1>4, <1>5, <1>6

LEMMA SegAwaitReady ==
  ASSUME SegInv, NEW p \in Procs, AwaitReady(p), UNCHANGED <<profile, clean, raced>>
  PROVE  SegInv'
<1>1. /\ proc[p].alive /\ proc[p].pc = "ready" /\ UNCHANGED <<link, objects, faults, obj>> /\ TypeOK
  BY DEF AwaitReady, Poll, At, names, SegInv
<1>2. proc[p].pc \in Holding /\ "gate" \in Pcs
  BY <1>1, PcsApart DEF Holding, Mapped
<1>3. ASSUME NEW r, r.pc = "ready" \/ (r.pc = "gate" /\ IsReady(p))
      PROVE  ProcOK(p, r, obj[proc[p].obj]) /\ r.pc \notin Creating
  BY <1>3 DEF ProcOK, Creating, Mapped, Refusing, Accepted, IsReady, Mine
<1>4. CASE IsReady(p)
  <2>1. proc' = [proc EXCEPT ![p].pc = "gate", ![p].poll = 0]
    BY <1>4 DEF AwaitReady, Poll
  <2> DEFINE s == [proc[p] EXCEPT !.pc = "gate"]
             r == [s EXCEPT !.poll = 0]
  <2>2. proc' = [proc EXCEPT ![p] = r]
    BY <1>1, <2>1 DEF TypeOK, ProcRecord
  <2>3. s \in ProcRecord /\ s.pc = "gate" /\ s.obj = proc[p].obj
    BY <1>1, <1>2 DEF TypeOK, ProcRecord
  <2> HIDE DEF s
  <2>4. r \in ProcRecord /\ r.pc = "gate" /\ r.obj = proc[p].obj
    BY <2>3 DEF ProcRecord
  <2> HIDE DEF r
  <2>5. ProcOK(p, r, obj[proc[p].obj]) /\ r.pc \notin Creating
    BY <1>3, <1>4, <2>4
  <2> QED
    BY <1>1, <1>2, <2>2, <2>4, <2>5, KeepsObject
<1>5. CASE ~IsReady(p) /\ Patience(p)
  <2>1. proc' = [proc EXCEPT ![p].poll = IF @ < kPolls THEN @ + 1 ELSE @]
    BY <1>5 DEF AwaitReady, Poll
  <2>2. PICK r \in ProcRecord : proc' = [proc EXCEPT ![p] = r] /\ r.pc = "ready" /\ r.obj = proc[p].obj
    BY <1>1, <2>1, PollsAgain
  <2>3. ProcOK(p, r, obj[proc[p].obj]) /\ r.pc \notin Creating
    BY <2>2 DEF ProcOK, Creating, Mapped, Refusing, Accepted
  <2> QED
    BY <1>1, <1>2, <2>2, <2>3, KeepsObject
<1>6. CASE ~IsReady(p) /\ ~Patience(p)
  <2>1. GiveUp(p, "timeout") /\ "timeout" \in Outcomes \ {"wired"}
    BY <1>6 DEF AwaitReady, Poll, Outcomes, Reasons
  <2> QED
    BY <1>1, <2>1, Quits, Faults
<1> QED
  BY <1>4, <1>5, <1>6

LEMMA SegValidate ==
  ASSUME SegInv, NEW p \in Procs, Validate(p), UNCHANGED <<profile, clean, raced>>
  PROVE  SegInv'
<1>1. /\ proc[p].alive /\ proc[p].pc = "gate" /\ UNCHANGED <<link, objects, faults, obj>> /\ TypeOK
  BY DEF Validate, At, names, SegInv
<1>2. "gate" \in Holding /\ "refuse" \in Pcs /\ "map" \in Pcs /\ "gate" \in Mapped
  BY PcsApart DEF Holding, Mapped, Refusing, Accepted
<1>3. obj[proc[p].obj].ready
  BY <1>1, <1>2, Knows DEF ProcOK
<1>4. CASE Mine(p).build # Build(p) /\ GiveUp(p, "skew")
  <2>1. "skew" \in Outcomes \ {"wired"}
    BY DEF Outcomes, Reasons
  <2> QED
    BY <1>1, <1>4, <2>1, Quits, Faults
<1>5. CASE Mine(p).build = Build(p) /\ ~SameType(p) /\ Goto(p, "refuse")
  <2>1. PICK r \in ProcRecord : proc' = [proc EXCEPT ![p] = r] /\ r.pc = "refuse" /\ r.obj = proc[p].obj
    BY <1>1, <1>2, <1>5, Goes
  <2>2. ProcOK(p, r, obj[proc[p].obj]) /\ r.pc \notin Creating
    BY <1>3, <1>5, <2>1 DEF ProcOK, Creating, Mapped, Refusing, Accepted, SameType, Mine
  <2> QED
    BY <1>1, <1>2, <2>1, <2>2, KeepsObject
<1>6. CASE Mine(p).build = Build(p) /\ SameType(p) /\ Goto(p, "map")
  <2>1. PICK r \in ProcRecord : proc' = [proc EXCEPT ![p] = r] /\ r.pc = "map" /\ r.obj = proc[p].obj
    BY <1>1, <1>2, <1>6, Goes
  <2>2. ProcOK(p, r, obj[proc[p].obj]) /\ r.pc \notin Creating
    BY <1>3, <1>6, <2>1 DEF ProcOK, Creating, Mapped, Refusing, Accepted, SameType, Mine
  <2> QED
    BY <1>1, <1>2, <2>1, <2>2, KeepsObject
<1> QED
  BY <1>4, <1>5, <1>6 DEF Validate

LEMMA SegMapSegment ==
  ASSUME SegInv, NEW p \in Procs, MapSegment(p), UNCHANGED <<profile, clean, raced>>
  PROVE  SegInv'
<1>1. /\ proc[p].alive /\ proc[p].pc = "map" /\ UNCHANGED <<link, objects, faults, obj>> /\ TypeOK
      /\ Goto(p, "attached")
  BY DEF MapSegment, At, names, SegInv
<1>2. "map" \in Holding /\ "attached" \in Pcs
  BY PcsApart DEF Holding, Mapped, Accepted
<1>3. PICK r \in ProcRecord : proc' = [proc EXCEPT ![p] = r] /\ r.pc = "attached" /\ r.obj = proc[p].obj
  BY <1>1, <1>2, Goes
<1>4. ProcOK(p, r, obj[proc[p].obj]) /\ r.pc \notin Creating
  BY <1>1, <1>2, <1>3, Knows DEF ProcOK, Creating, Mapped, Refusing, Accepted
<1> QED
  BY <1>1, <1>2, <1>3, <1>4, KeepsObject

-----------------------------------------------------------------------------
\* A refusal is described, then counted.

LEMMA SegRecordType ==
  ASSUME SegInv, NEW p \in Procs, RecordType(p), UNCHANGED <<profile, clean, raced>>
  PROVE  SegInv'
<1> DEFINE o == proc[p].obj
           x == obj[o]
           t == Type(p)
           y == [x EXCEPT !.refused_type = t]
<1>1. /\ proc[p].alive /\ proc[p].pc = "refuse" /\ Goto(p, "refuse_pid")
      /\ UNCHANGED <<link, objects, faults>> /\ obj' = [obj EXCEPT ![o] = y]
  BY DEF RecordType, At, names
<1>2. "refuse_pid" \in Pcs /\ proc[p].pc \in Holding
  BY <1>1, PcsApart DEF Holding, Mapped, Refusing
<1>3. PICK r \in ProcRecord : proc' = [proc EXCEPT ![p] = r] /\ r.pc = "refuse_pid" /\ r.obj = o
  BY <1>1, <1>2, Goes DEF SegInv
<1>4. /\ o \in 1..objects /\ x \in ObjRecord /\ ObjOK(x) /\ NameOK(proc[p], x, link, raced)
      /\ x.ready /\ x.type # t
  BY <1>1, <1>2, Knows DEF ProcOK, Mapped, Refusing
<1>5. t \in Hashes /\ t # None
  <2>1. profile[p] \in Profile /\ t = SchemaHashOf(profile[p].type)
    BY DEF SegInv, TypeOK, ProfileAt
  <2>2. profile[p].type \in DOMAIN Decl /\ profile[p].hash \in Hashes
    BY <2>1 DEF Profile
  <2> QED
    BY <2>1, <2>2, SegmentAssumption DEF Type
<1>6. /\ y \in ObjRecord /\ y.creator = x.creator /\ y.ready = x.ready /\ y.build = x.build
      /\ y.type = x.type /\ y.refused_type = t /\ y.refused_pid = x.refused_pid
      /\ y.refusal_count = x.refusal_count /\ y.pub_pid = x.pub_pid /\ y.subs = x.subs
  BY <1>4, <1>5 DEF ObjRecord
<1> HIDE DEF y
<1>7. ObjOK(y) /\ Stable(x, y) /\ \A q \in Procs \ {p} : Spares(q, x, y)
  BY <1>4, <1>5, <1>6 DEF ObjOK, Stable, Spares
<1>8. ProcOK(p, r, y) /\ NameOK(r, y, link, raced)
  BY <1>3, <1>4, <1>5, <1>6 DEF ProcOK, NameOK, Creating, Mapped, Refusing, Accepted
<1> QED
  BY <1>1, <1>3, <1>4, <1>6, <1>7, <1>8, OwnStep

LEMMA SegRecordPid ==
  ASSUME SegInv, NEW p \in Procs, RecordPid(p), UNCHANGED <<profile, clean, raced>>
  PROVE  SegInv'
<1> DEFINE o == proc[p].obj
           x == obj[o]
           y == [x EXCEPT !.refused_pid = p]
<1>1. /\ proc[p].alive /\ proc[p].pc = "refuse_pid" /\ Goto(p, "refuse_count")
      /\ UNCHANGED <<link, objects, faults>> /\ obj' = [obj EXCEPT ![o] = y]
  BY DEF RecordPid, At, names
<1>2. "refuse_count" \in Pcs /\ proc[p].pc \in Holding
  BY <1>1, PcsApart DEF Holding, Mapped, Refusing
<1>3. PICK r \in ProcRecord : proc' = [proc EXCEPT ![p] = r] /\ r.pc = "refuse_count" /\ r.obj = o
  BY <1>1, <1>2, Goes DEF SegInv
<1>4. /\ o \in 1..objects /\ x \in ObjRecord /\ ObjOK(x) /\ NameOK(proc[p], x, link, raced)
      /\ x.ready /\ x.type # Type(p) /\ x.refused_type # None
  BY <1>1, <1>2, Knows DEF ProcOK, Mapped, Refusing
<1>5. p # None
  BY Bounds
<1>6. /\ y \in ObjRecord /\ y.creator = x.creator /\ y.ready = x.ready /\ y.build = x.build
      /\ y.type = x.type /\ y.refused_type = x.refused_type /\ y.refused_pid = p
      /\ y.refusal_count = x.refusal_count /\ y.pub_pid = x.pub_pid /\ y.subs = x.subs
  BY <1>4 DEF ObjRecord
<1> HIDE DEF y
<1>7. ObjOK(y) /\ Stable(x, y) /\ \A q \in Procs \ {p} : Spares(q, x, y)
  BY <1>4, <1>5, <1>6 DEF ObjOK, Stable, Spares
<1>8. ProcOK(p, r, y) /\ NameOK(r, y, link, raced)
  BY <1>3, <1>4, <1>5, <1>6 DEF ProcOK, NameOK, Creating, Mapped, Refusing, Accepted
<1> QED
  BY <1>1, <1>3, <1>4, <1>6, <1>7, <1>8, OwnStep

LEMMA SegCountRefusal ==
  ASSUME SegInv, NEW p \in Procs, CountRefusal(p), UNCHANGED <<profile, clean, raced>>
  PROVE  SegInv'
<1> DEFINE o == proc[p].obj
           x == obj[o]
           c == x.refusal_count + 1
           y == [x EXCEPT !.refusal_count = c]
<1>1. /\ proc[p].alive /\ proc[p].pc = "refuse_count" /\ GiveUp(p, "mismatch")
      /\ UNCHANGED <<link, objects, faults>> /\ obj' = [obj EXCEPT ![o] = y]
  BY DEF CountRefusal, At, names
<1>2. /\ "mismatch" \in Outcomes /\ "mismatch" \notin Holding /\ proc[p].pc \in Holding
  BY <1>1, PcsApart DEF Outcomes, Holding, Mapped, Refusing
<1>3. PICK r \in ProcRecord : proc' = [proc EXCEPT ![p] = r] /\ r.pc = "mismatch"
  BY <1>1, <1>2, GivesUp DEF SegInv
<1>4. /\ o \in 1..objects /\ x \in ObjRecord /\ ObjOK(x)
      /\ x.ready /\ x.refused_type # None /\ x.refused_pid # None
  BY <1>1, <1>2, Knows DEF ProcOK, Mapped, Refusing
<1>5. c \in Nat
  BY <1>4 DEF ObjRecord
<1> HIDE DEF c
<1>6. /\ y \in ObjRecord /\ y.creator = x.creator /\ y.ready = x.ready /\ y.build = x.build
      /\ y.type = x.type /\ y.refused_type = x.refused_type /\ y.refused_pid = x.refused_pid
      /\ y.pub_pid = x.pub_pid /\ y.subs = x.subs
  BY <1>4, <1>5 DEF ObjRecord
<1> HIDE DEF y
<1>7. ObjOK(y) /\ Stable(x, y) /\ \A q \in Procs \ {p} : Spares(q, x, y)
  BY <1>4, <1>6 DEF ObjOK, Stable, Spares
<1> QED
  BY <1>1, <1>2, <1>3, <1>4, <1>6, <1>7, OwnStep

-----------------------------------------------------------------------------
\* Slots are claimed and given back; a process dies.

LEMMA SegClaim ==
  ASSUME SegInv, NEW p \in Procs, Claim(p), UNCHANGED <<profile, clean, raced>>
  PROVE  SegInv'
<1> DEFINE o == proc[p].obj
           x == obj[o]
<1>1. /\ proc[p].alive /\ proc[p].pc = "attached" /\ UNCHANGED <<link, objects, faults>>
  BY DEF Claim, At, names
<1>2. /\ "wired" \in Pcs /\ proc[p].pc \in Holding /\ "refused" \in Outcomes \ {"wired"}
  BY <1>1, PcsApart DEF Holding, Mapped, Accepted, Outcomes
<1>3. /\ o \in 1..objects /\ x \in ObjRecord /\ ObjOK(x) /\ NameOK(proc[p], x, link, raced)
      /\ x.ready /\ x.build = Build(p) /\ x.type = Type(p)
  BY <1>1, <1>2, Knows DEF ProcOK, Mapped, Accepted
<1>4. ASSUME Goto(p, "wired"), NEW y \in ObjRecord, obj' = [obj EXCEPT ![o] = y],
             y.creator = x.creator, y.ready = x.ready, y.build = x.build, y.type = x.type,
             y.refused_type = x.refused_type, y.refused_pid = x.refused_pid,
             y.refusal_count = x.refusal_count, IF p \in Publishers THEN y.pub_pid = p ELSE p \in y.subs,
             \A q \in Procs \ {p} : Spares(q, x, y)
      PROVE  SegInv'
  <2>1. PICK r \in ProcRecord : proc' = [proc EXCEPT ![p] = r] /\ r.pc = "wired" /\ r.obj = o
    <3>1. TypeOK /\ "wired" \in Pcs /\ Goto(p, "wired")
      BY <1>2, <1>4 DEF SegInv
    <3> QED
      BY <3>1, Goes
  <2>2. ObjOK(y) /\ Stable(x, y)
    BY <1>3, <1>4 DEF ObjOK, Stable
  <2>3. ProcOK(p, r, y) /\ NameOK(r, y, link, raced)
    BY <1>3, <1>4, <2>1 DEF ProcOK, NameOK, Creating, Mapped, Refusing, Accepted
  <2> QED
    BY <1>1, <1>3, <1>4, <2>1, <2>2, <2>3, OwnStep
<1>5. CASE p \notin Publishers
  <2> DEFINE w == x.subs \cup {p}
             y == [x EXCEPT !.subs = w]
  <2>1. Goto(p, "wired") /\ obj' = [obj EXCEPT ![o] = y]
    BY <1>5 DEF Claim
  <2>2. w \in SUBSET Procs /\ p \in w /\ x.subs \subseteq w
    BY <1>3 DEF ObjRecord
  <2> HIDE DEF w
  <2>3. /\ y \in ObjRecord /\ y.creator = x.creator /\ y.ready = x.ready /\ y.build = x.build
        /\ y.type = x.type /\ y.refused_type = x.refused_type /\ y.refused_pid = x.refused_pid
        /\ y.refusal_count = x.refusal_count /\ y.pub_pid = x.pub_pid /\ y.subs = w
    BY <1>3, <2>2 DEF ObjRecord
  <2> HIDE DEF y
  <2>4. \A q \in Procs \ {p} : Spares(q, x, y)
    BY <2>2, <2>3 DEF Spares
  <2> QED
    BY <1>4, <1>5, <2>1, <2>2, <2>3, <2>4
<1>6. CASE p \in Publishers /\ ~ProcessAlive(x.pub_pid)
  <2> DEFINE y == [x EXCEPT !.pub_pid = p]
  <2>1. Goto(p, "wired") /\ obj' = [obj EXCEPT ![o] = y]
    BY <1>6 DEF Claim, Mine
  <2>2. /\ y \in ObjRecord /\ y.creator = x.creator /\ y.ready = x.ready /\ y.build = x.build
        /\ y.type = x.type /\ y.refused_type = x.refused_type /\ y.refused_pid = x.refused_pid
        /\ y.refusal_count = x.refusal_count /\ y.pub_pid = p /\ y.subs = x.subs
    BY <1>3 DEF ObjRecord
  <2> HIDE DEF y
  <2>3. \A q \in Procs \ {p} : Spares(q, x, y)
    BY <1>6, <2>2 DEF Spares
  <2> QED
    BY <1>4, <1>6, <2>1, <2>2, <2>3
<1>7. CASE p \in Publishers /\ ProcessAlive(x.pub_pid)
  <2>1. GiveUp(p, "refused") /\ UNCHANGED obj
    BY <1>7 DEF Claim, Mine
  <2> QED
    BY <1>1, <1>2, <2>1, Quits, Faults
<1> QED
  BY <1>5, <1>6, <1>7

LEMMA SegClose ==
  ASSUME SegInv, NEW p \in Procs, Close(p), UNCHANGED <<profile, clean, raced>>
  PROVE  SegInv'
<1> DEFINE o == proc[p].obj
           x == obj[o]
           w == x.subs \ {p}
           b == IF x.pub_pid = p THEN None ELSE x.pub_pid
           y == [x EXCEPT !.subs = w, !.pub_pid = b]
<1>1. /\ proc[p].alive /\ proc[p].pc = "wired" /\ GiveUp(p, "closed")
      /\ UNCHANGED <<link, objects, faults>>
      /\ obj' = [obj EXCEPT ![o].subs = @ \ {p}, ![o].pub_pid = IF @ = p THEN None ELSE @]
  BY DEF Close, At, names
<1>2. /\ "closed" \in Outcomes /\ "closed" \notin Holding /\ proc[p].pc \in Holding
  BY <1>1, PcsApart DEF Outcomes, Holding, Mapped, Accepted
<1>3. PICK r \in ProcRecord : proc' = [proc EXCEPT ![p] = r] /\ r.pc = "closed"
  BY <1>1, <1>2, GivesUp DEF SegInv
<1>4. o \in 1..objects /\ o \in Objects /\ x \in ObjRecord /\ ObjOK(x)
  BY <1>1, <1>2, Knows
<1>5. w \in SUBSET Procs /\ b \in Procs \cup {None}
  BY <1>4 DEF ObjRecord
<1>6. obj' = [obj EXCEPT ![o] = y]
  BY <1>1, <1>4 DEF SegInv, TypeOK, ObjRecord
<1>7. ASSUME NEW q \in Procs \ {p}
      PROVE  (x.pub_pid = q => b = q) /\ (q \in x.subs => q \in w)
  OBVIOUS
<1> HIDE DEF w, b
<1>8. /\ y \in ObjRecord /\ y.creator = x.creator /\ y.ready = x.ready /\ y.build = x.build
      /\ y.type = x.type /\ y.refused_type = x.refused_type /\ y.refused_pid = x.refused_pid
      /\ y.refusal_count = x.refusal_count /\ y.pub_pid = b /\ y.subs = w
  BY <1>4, <1>5 DEF ObjRecord
<1> HIDE DEF y
<1>9. ObjOK(y) /\ Stable(x, y) /\ \A q \in Procs \ {p} : Spares(q, x, y)
  BY <1>4, <1>7, <1>8 DEF ObjOK, Stable, Spares
<1> QED
  BY <1>1, <1>2, <1>3, <1>4, <1>6, <1>8, <1>9, OwnStep

LEMMA SegCrash ==
  ASSUME SegInv, NEW p \in Procs, Crash(p), UNCHANGED <<profile, clean, raced>>
  PROVE  SegInv'
<1> DEFINE r == [proc[p] EXCEPT !.alive = FALSE]
<1>1. /\ proc[p].alive /\ faults < MaxFaults /\ faults' = faults + 1
      /\ UNCHANGED <<link, objects, obj>> /\ proc' = [proc EXCEPT ![p] = r]
  BY DEF Crash
<1>2. r \in ProcRecord /\ ~r.alive
  BY DEF SegInv, TypeOK, ProcRecord
<1> QED
  BY <1>1, <1>2, QuietStep, Faults

-----------------------------------------------------------------------------
\* The inductive invariant.

LEMMA SegInit ==
  Init => SegInv
<1> SUFFICES ASSUME Init PROVE SegInv
  OBVIOUS
<1>1. PICK f \in Profiles :
        profile = [p \in Procs |-> [type |-> f[p].type, hash |-> SchemaHashOf(f[p].type),
                                   build |-> f[p].build, asserts |-> f[p].asserts]]
  BY DEF Init
<1>2. \A p \in Procs : /\ profile[p] \in Profile /\ Type(p) = SchemaHashOf(profile[p].type)
  <2> SUFFICES ASSUME NEW p \in Procs
               PROVE  profile[p] \in Profile /\ Type(p) = SchemaHashOf(profile[p].type)
    OBVIOUS
  <2>1. /\ f[p].type \in DOMAIN Decl /\ f[p].asserts \in BOOLEAN
        /\ SchemaHashOf(f[p].type) \in Hashes /\ f[p].build \in Builds
    BY SegmentAssumption DEF Hashes, Builds
  <2>2. profile[p] = [type |-> f[p].type, hash |-> SchemaHashOf(f[p].type),
                      build |-> f[p].build, asserts |-> f[p].asserts]
    BY <1>1
  <2> QED
    BY <2>1, <2>2 DEF Profile, Type
<1>3. \A p \in Procs : Starts(p) \in BOOLEAN
  BY DEF Starts
<1>4. RawPages \in ObjRecord /\ ObjOK(RawPages)
  <2>1. RawPages \in ObjRecord
    BY DEF RawPages, ObjRecord
  <2>2. /\ RawPages.ready = FALSE /\ RawPages.refused_type = None /\ RawPages.refused_pid = None
        /\ RawPages.refusal_count = 0
    BY DEF RawPages
  <2> QED
    BY <2>1, <2>2 DEF ObjOK
<1>5. \A p \in Procs : /\ proc[p] \in ProcRecord /\ proc[p].pc = "create"
                       /\ proc[p].alive = Starts(p)
  BY <1>3, PcsApart DEF Init, ProcRecord
<1>6. proc = [p \in Procs |-> proc[p]] /\ profile = [p \in Procs |-> profile[p]]
  BY <1>1 DEF Init
<1>7. TypeOK
  <2>1. /\ obj \in [Objects -> ObjRecord] /\ objects \in Nat /\ link \in 0..objects
        /\ faults \in 0..MaxFaults /\ raced \in BOOLEAN
    <3>1. obj = [o \in Objects |-> RawPages] /\ raced = FALSE
      BY DEF Init
    <3>2. obj \in [Objects -> ObjRecord]
      BY <1>4, <3>1
    <3>3. objects = 0 /\ link = 0 /\ faults = 0 /\ MaxFaults \in Nat
      BY Bounds DEF Init
    <3>4. 0 \in 0..0 /\ 0 \in 0..MaxFaults
      BY <3>3
    <3> QED
      BY <3>1, <3>2, <3>3, <3>4, Zenon
  <2>2. clean \in [seen : Nat, runs : 0..MaxCleans, wired : SUBSET Procs]
    BY Bounds DEF Init
  <2>3. proc \in [Procs -> ProcRecord] /\ profile \in [Procs -> Profile]
    <3>1. proc \in [Procs -> ProcRecord]
      BY <1>5, <1>6
    <3>2. profile \in [Procs -> Profile]
      BY <1>2, <1>6
    <3> QED
      BY <3>1, <3>2
  <2> QED
    BY <2>1, <2>2, <2>3 DEF TypeOK
<1>8. LinkInv
  BY DEF Init, LinkInv
<1>9. \A o \in Objects : ObjOK(obj[o]) /\ (o > objects => obj[o] = RawPages)
  BY <1>4 DEF Init
<1>10. \A p \in Procs : ProfileAt(p) /\ ProcAt(p)
  BY <1>2, <1>5, PcsApart DEF ProfileAt, ProcAt
<1> QED
  BY <1>7, <1>8, <1>9, <1>10 DEF SegInv

LEMMA SegNext ==
  SegInv /\ [Next]_vars => SegInv'
<1> SUFFICES ASSUME SegInv, [Next]_vars PROVE SegInv'
  OBVIOUS
<1>1. CASE UNCHANGED vars
  <2>1. UNCHANGED <<profile, link, objects, obj, proc, clean, faults, raced>>
    BY <1>1 DEF vars
  <2>2. TypeOK'
    BY <2>1 DEF SegInv, TypeOK
  <2>3. LinkInv'
    BY <2>1 DEF SegInv, LinkInv
  <2> QED
    BY <2>1, <2>2, <2>3, Unmoved DEF SegInv
<1>2. ASSUME NEW p \in Procs, Wiring(p) PROVE SegInv'
  BY <1>2, SegCreate, SegTruncate, SegFillHeader, SegMarkReady, SegOpenExisting, SegAwaitSize,
     SegAwaitReady, SegValidate, SegRecordType, SegRecordPid, SegCountRefusal, SegMapSegment,
     SegClaim DEF Wiring
<1>3. ASSUME NEW p \in Procs, Interrupted(p) PROVE SegInv'
  BY <1>3, SegOsRefuses, SegClose, SegCrash DEF Interrupted
<1> QED
  BY <1>1, <1>2, <1>3, SegProbe, SegUnlink DEF Next

LEMMA SegAlways ==
  Spec => []SegInv
<1>1. Init => SegInv
  BY SegInit
<1>2. SegInv /\ [Next]_vars => SegInv'
  BY SegNext
<1> QED
  BY <1>1, <1>2, PTL DEF Spec

-----------------------------------------------------------------------------
\* The theorems.

\* M14-A1: whatever creators fail, die or time out, however many processes race
\* for the name and however often it is cleaned, every live endpoint is wired to
\* the segment the name denotes, unless a clean unlinked a segment that a process
\* was attaching to (OpenOrCreate, CmdClean).
THEOREM OneSegmentAlways == Spec => []OneSegment
<1>1. SegInv => OneSegment
  <2> SUFFICES ASSUME SegInv, ~raced, NEW p \in Procs, At(p, "wired") PROVE proc[p].obj = link
    BY DEF OneSegment
  <2>1. proc[p].alive /\ proc[p].pc = "wired" /\ proc[p].pc \in Holding /\ proc[p].pc \in Mapped
    BY DEF At, Holding, Mapped, Accepted
  <2> QED
    BY <2>1, Knows DEF ProcOK, NameOK
<1> QED
  BY <1>1, SegAlways, PTL

\* M11-A3: a counted refusal always shows a hash other than the topic's and a
\* process that was refused, however many refusals interleave (the refusal record
\* that OpenOrCreate writes before it returns kTypeMismatch).
THEOREM RefusalVisibleAlways == Spec => []RefusalVisible
<1>1. SegInv => RefusalVisible
  <2> SUFFICES ASSUME SegInv, NEW o \in Objects, obj[o].refusal_count > 0
               PROVE  /\ obj[o].refused_type \notin {None, obj[o].type}
                      /\ obj[o].refused_pid # None /\ Type(obj[o].refused_pid) # obj[o].type
    BY DEF RefusalVisible
  <2>1. ObjOK(obj[o])
    BY DEF SegInv
  <2> QED
    BY <2>1 DEF ObjOK
<1> QED
  BY <1>1, SegAlways, PTL

\* No header is judged before its creator published it: a process that refuses a
\* segment as foreign, or by type, differs from the process that created it
\* (the gates of OpenOrCreate, after the wait for init_state).
THEOREM RefusedForCauseAlways == Spec => RefusedForCause
<1> DEFINE Cause(p) ==
      LET c == obj[proc[p].obj].creator IN
      /\ proc[p].pc = "gate" /\ proc'[p].pc = "skew" => Build(c) # Build(p)
      /\ proc[p].pc = "gate" /\ proc'[p].pc = "refuse" => Type(c) # Type(p)
<1>1. SegInv /\ [Next]_vars => [\A p \in Procs : Cause(p)]_vars
  <2> SUFFICES ASSUME SegInv, Next, NEW p \in Procs, proc[p].pc = "gate",
                      proc'[p].pc \in {"skew", "refuse"}
               PROVE  /\ proc'[p].pc = "skew" => Build(obj[proc[p].obj].creator) # Build(p)
                      /\ proc'[p].pc = "refuse" => Type(obj[proc[p].obj].creator) # Type(p)
    OBVIOUS
  <2>1. Validate(p)
    <3>1. ASSUME NEW q \in Procs, Wiring(q) \/ Interrupted(q) PROVE q = p
      <4>1. ASSUME q # p PROVE proc'[p] = proc[p]
        BY <3>1, <4>1 DEF Wiring, Interrupted, Create, Truncate, FillHeader, MarkReady,
           OpenExisting, AwaitSize, AwaitReady, Poll, Validate, RecordType, RecordPid, CountRefusal,
           MapSegment, Claim, OsRefuses, Close, Crash, Goto, GiveUp, SegInv, TypeOK
      <4> QED
        BY <4>1
    <3>2. ~CleanProbe /\ ~CleanUnlink
      BY DEF CleanProbe, CleanUnlink
    <3>3. Wiring(p) \/ Interrupted(p)
      BY <3>1, <3>2 DEF Next
    <3>4. ~Interrupted(p)
      BY DEF Interrupted, OsRefuses, Close, Crash, At, SegInv, TypeOK, ProcRecord
    <3> QED
      BY <3>3, <3>4 DEF Wiring, Create, Truncate, FillHeader, MarkReady, OpenExisting, AwaitSize,
         AwaitReady, RecordType, RecordPid, CountRefusal, MapSegment, Claim, At
  <2>2. proc[p].alive /\ proc[p].pc \in Holding /\ "gate" \in Mapped
    BY <2>1 DEF Validate, At, Holding, Mapped
  <2>3. /\ obj[proc[p].obj].ready /\ ObjOK(obj[proc[p].obj])
    BY <2>2, Knows DEF ProcOK
  <2>4. TypeOK
    BY DEF SegInv
  <2>5. CASE GiveUp(p, "skew") /\ Mine(p).build # Build(p)
    <3>1. proc'[p].pc = "skew"
      BY <2>4, <2>5 DEF GiveUp, TypeOK, ProcRecord
    <3> QED
      BY <2>3, <2>5, <3>1 DEF ObjOK, Mine
  <2>6. CASE Goto(p, "refuse") /\ ~SameType(p)
    <3>1. proc'[p].pc = "refuse"
      BY <2>4, <2>6 DEF Goto, TypeOK, ProcRecord
    <3> QED
      BY <2>3, <2>6, <3>1 DEF ObjOK, Mine, SameType
  <2>7. CASE Goto(p, "map")
    <3>1. proc'[p].pc = "map"
      BY <2>4, <2>7 DEF Goto, TypeOK, ProcRecord
    <3> QED
      BY <3>1
  <2> QED
    BY <2>1, <2>5, <2>6, <2>7 DEF Validate
<1> QED
  BY <1>1, SegAlways, PTL DEF Spec, RefusedForCause

\* What the schema hash is trusted to tell: two declared types with one hash are
\* both described or both opaque; opaque ones have one name, and described ones
\* one layout once the fields of either are known to tile the payload.
HashTells ==
  \A t, u \in DOMAIN Decl :
    SchemaHashOf(t) = SchemaHashOf(u) =>
      /\ IsWireDescribed(t) = IsWireDescribed(u)
      /\ IF IsWireDescribed(t)
         THEN (Asserted(t) \/ Asserted(u) \/ ExtentsTile(t)) => Layout[t] = Layout[u]
         ELSE Decl[t].name = Decl[u].name

\* R6 across processes: where the hash tells types apart, endpoints wired to one
\* segment have one build and one type, whoever created it and whoever died.
THEOREM TypeAgreementAlways ==
  ASSUME HashTells
  PROVE  Spec => []TypeAgreement
<1>1. SegInv => TypeAgreement
  <2> SUFFICES ASSUME SegInv, NEW p \in Procs, NEW q \in Procs, At(p, "wired"), At(q, "wired"),
                      proc[p].obj = proc[q].obj
               PROVE  LET t == profile[p].type  u == profile[q].type IN
                      /\ Build(p) = Build(q) /\ IsWireDescribed(t) = IsWireDescribed(u)
                      /\ IF IsWireDescribed(t)
                         THEN (profile[p].asserts \/ profile[q].asserts \/ ExtentsTile(t)) =>
                                Layout[t] = Layout[u]
                         ELSE Decl[t].name = Decl[u].name
    BY DEF TypeAgreement
  <2> DEFINE t == profile[p].type
             u == profile[q].type
  <2>1. ASSUME NEW a \in Procs, At(a, "wired")
        PROVE  /\ obj[proc[a].obj].build = Build(a) /\ obj[proc[a].obj].type = Type(a)
               /\ Type(a) = SchemaHashOf(profile[a].type) /\ profile[a].type \in DOMAIN Decl
               /\ profile[a].asserts => Asserted(profile[a].type)
    <3>1. proc[a].alive /\ proc[a].pc = "wired" /\ proc[a].pc \in Holding /\ "wired" \in Accepted
      BY <2>1 DEF At, Holding, Mapped, Accepted
    <3>2. ProfileAt(a) /\ profile[a] \in Profile
      BY DEF SegInv, TypeOK
    <3> QED
      BY <3>1, <3>2, Knows DEF ProcOK, ProfileAt, Starts, Profile
  <2>2. /\ Build(p) = Build(q) /\ SchemaHashOf(t) = SchemaHashOf(u)
        /\ t \in DOMAIN Decl /\ u \in DOMAIN Decl
    BY <2>1
  <2>3. (profile[p].asserts => Asserted(t)) /\ (profile[q].asserts => Asserted(u))
    BY <2>1
  <2> HIDE DEF t, u
  <2>4. /\ IsWireDescribed(t) = IsWireDescribed(u)
        /\ IF IsWireDescribed(t)
           THEN (Asserted(t) \/ Asserted(u) \/ ExtentsTile(t)) => Layout[t] = Layout[u]
           ELSE Decl[t].name = Decl[u].name
    BY <2>2 DEF HashTells
  <2> QED
    BY <2>2, <2>3, <2>4 DEF t, u
<1> QED
  BY <1>1, SegAlways, PTL
=============================================================================
