-------------------------------- MODULE Xmmsg --------------------------------
(***************************************************************************)
(* The xmmsg tool (tools/xmmsg/xmmsg.cpp) over a directory of shared-memory *)
(* objects: the segment of Introspect, in use, and objects at rest beside   *)
(* it (dead, half-initialised, foreign or skewed ones).  A command scans    *)
(* the directory, opens and snapshots each match one after the other, then  *)
(* prints, or unlinks.  Another operator may clean the dead ones.           *)
(***************************************************************************)
EXTENDS Introspect, SegmentNames

CONSTANTS
  Directory,   \* sequence of [name, key, live, object]: the isolation key its
               \* creator derived (Any: not made by a process of the library),
               \* live marks the segment in use
  Commands     \* the command lines: verb, topic (raw: a segment name), domain, yes, json

Any == <<>>    \* an option that is not given

VARIABLES
  cmd,         \* the command line
  tool,        \* pc, objects left to visit, views, objects to unlink, exit code
  g_stop,
  gone,        \* the objects at rest that have been unlinked
  out,         \* the lines printed by the last pass
  since        \* history: processes wired ever since the tool opened the segment

toolVars == <<cmd, tool, g_stop, gone, out>>
allVars  == <<vars, toolVars, since>>

ToolInit == [pc |-> "start", todo |-> <<>>, views |-> <<>>, doomed |-> <<>>,
             failures |-> 0, exit |-> 0]

XInit ==
  /\ Init /\ cmd \in Commands /\ tool = ToolInit /\ g_stop = FALSE /\ gone = {}
  /\ out = <<>> /\ since = {}

Entry(e) == Directory[e]
IsTopic(e) == Entry(e).live
Linked(e) == IF IsTopic(e) THEN linked ELSE e \notin gone
Parses == [e \in DOMAIN Directory |-> ParseSegmentName(Directory[e].name)]
Parsed(e) == Parses[e]

ToolGoto(pc) == tool' = [tool EXCEPT !.pc = pc]
Exit(code) == tool' = [ToolInit EXCEPT !.pc = "exit", !.exit = code]

\* main: the option rules of each verb; anything else is Usage, exit code 2.
WellFormed(c) ==
  \/ c.verb = "list"  /\ c.topic = Any /\ ~c.yes
  \/ c.verb = "stat"  /\ c.topic # Any /\ ~c.yes
  \/ c.verb = "watch" /\ c.topic # Any /\ ~c.yes /\ ~c.json
  \/ c.verb = "clean" /\ c.topic = Any

Main ==
  /\ tool.pc = "start"
  /\ IF WellFormed(cmd) THEN ToolGoto("scan") ELSE Exit(2)
  /\ UNCHANGED <<vars, g_stop, gone, out>>

-----------------------------------------------------------------------------
\* Collect: scan the directory, then open and snapshot one match at a time.

Matches(e) == Linked(e) /\ Parsed(e).found /\ (cmd.domain = Any \/ Parsed(e).key = cmd.domain)

Discover ==
  /\ tool.pc = "scan"
  /\ tool' = [ToolInit EXCEPT !.pc = "collect",
                !.todo = SelectSeq([e \in DOMAIN Directory |-> e], Matches)]
  /\ out' = <<>>
  /\ UNCHANGED <<vars, g_stop, gone>>

\* The header an observer maps; that of the segment in use is as it should be.
Object(e) == Entry(e).object

\* IntrospectReader::Open.
Open(e) ==
  LET o == Object(e) IN
  IF ~Linked(e) \/ ~o.readable THEN "kUnavailable"
  ELSE IF ~o.sized \/ ~o.ready THEN "kNotReady"
  ELSE IF ~o.magic THEN "kForeign"
  ELSE IF ~o.version THEN "kVersionSkew"
  ELSE IF ~o.consistent THEN "kForeign" ELSE "kOk"

View(e, status, s) == [e |-> e, status |-> status, snap |-> s]
Collected(views) == tool' = [tool EXCEPT !.todo = Tail(@), !.views = views]

\* The next match is opened.  A foreign object is dropped, one that does not
\* validate kept for the report; an object at rest has no process left.
CollectOpen ==
  /\ tool.pc = "collect" /\ tool.todo # <<>> /\ reader.pc = "closed"
  /\ LET e == Head(tool.todo)
         status == Open(e)
     IN CASE status = "kOk" /\ IsTopic(e) ->
               reader' = [Idle EXCEPT !.pc = "open"] /\ UNCHANGED tool
          [] status = "kForeign" -> Collected(tool.views) /\ UNCHANGED reader
          [] OTHER -> Collected(Append(tool.views, View(e, status, NoSnapshot)))
                      /\ UNCHANGED reader
  /\ UNCHANGED <<linked, segment, proc, crashes, snap, mended, g_stop, gone, out>>

CollectSnapshot ==
  /\ tool.pc = "collect" /\ reader.pc = "done"
  /\ Collected(Append(tool.views, View(Head(tool.todo), "kOk", snap)))
  /\ reader' = Idle /\ snap' = NoSnapshot /\ mended' = FALSE
  /\ UNCHANGED <<linked, segment, proc, crashes, g_stop, gone, out>>

-----------------------------------------------------------------------------
\* What is printed of a view.

PubString(s) == IF s.pub_pid = None THEN "none" ELSE IF s.pub_alive THEN "alive" ELSE "DEAD"

\* The age is that of the last publish, named by its ordinal.
AgeString(s) ==
  CASE s.master = "kEmpty" -> "never" [] s.master = "kStalled" -> "unknown"
    [] OTHER -> s.ordinal

Active(s) == Cardinality({u \in s.subscribers : u.state = "kActive"})

\* A row of `list', and all of a topic as `--json' and `stat' show it: the same
\* and every subscriber.  A segment that did not validate shows its status alone.
Row(view) ==
  IF view.status # "kOk" THEN [e |-> view.e, status |-> view.status]
  ELSE [e |-> view.e, status |-> "kOk", pid |-> view.snap.pub_pid,
        pub |-> PubString(view.snap), age |-> AgeString(view.snap),
        active |-> Active(view.snap), subs |-> {}]

PrintTopicJson(view) ==
  IF view.status # "kOk" THEN Row(view) ELSE [Row(view) EXCEPT !.subs = view.snap.subscribers]

PrintStatPlain(view) == PrintTopicJson(view)

AllCollected == tool.pc = "collect" /\ tool.todo = <<>>

CmdList ==
  /\ AllCollected /\ cmd.verb = "list"
  /\ out' = [i \in DOMAIN tool.views |->
               IF cmd.json THEN PrintTopicJson(tool.views[i]) ELSE Row(tool.views[i])]
  /\ Exit(0)
  /\ UNCHANGED <<vars, g_stop, gone>>

\* Mutant: the first of several matches is taken.
UniqueFirst(views) == views # <<>>

Unique(views) == Len(views) = 1

\* ResolveTopic: by segment name, or by topic.
Wanted(view) == IF cmd.raw THEN Entry(view.e).name = cmd.topic
                ELSE Parsed(view.e).topic = cmd.topic

\* A topic that is not there, or in several domains, ends the command.
ResolveTopic(next) ==
  /\ LET matches == SelectSeq(tool.views, Wanted) IN
     IF Unique(matches)
     THEN /\ tool' = next
          /\ out' = <<IF cmd.json THEN PrintTopicJson(matches[1]) ELSE PrintStatPlain(matches[1])>>
     ELSE Exit(1) /\ UNCHANGED out
  /\ UNCHANGED <<vars, g_stop, gone>>

CmdStat ==
  /\ AllCollected /\ cmd.verb = "stat"
  /\ ResolveTopic([ToolInit EXCEPT !.pc = "exit"])

\* One round of the loop.
CmdWatch ==
  /\ AllCollected /\ cmd.verb = "watch"
  /\ ResolveTopic([ToolInit EXCEPT !.pc = "sleep"])

\* After the interval, or woken by the signal, the loop looks at g_stop.
WatchAgain ==
  /\ tool.pc = "sleep"
  /\ IF g_stop THEN Exit(0) ELSE ToolGoto("scan")
  /\ UNCHANGED <<vars, g_stop, gone, out>>

Interrupt ==
  /\ cmd.verb = "watch" /\ tool.pc \notin {"start", "exit"} /\ ~g_stop /\ g_stop' = TRUE
  /\ UNCHANGED <<vars, cmd, tool, gone, out, since>>

\* Mutant: subscribers are not looked at.
HasLiveSubscriberNever(s) == FALSE

HasLiveSubscriber(s) == \E u \in s.subscribers : u.state = "kActive" /\ u.alive

\* CmdClean: a validated segment without a live publisher or subscriber.
Candidate(view) ==
  /\ view.status = "kOk"
  /\ ~(view.snap.pub_pid # None /\ view.snap.pub_alive) /\ ~HasLiveSubscriber(view.snap)

CmdClean ==
  /\ AllCollected /\ cmd.verb = "clean"
  /\ LET doomed == SelectSeq(tool.views, Candidate) IN
     tool' = [ToolInit EXCEPT !.pc = "unlink",
                !.doomed = IF cmd.yes THEN [i \in DOMAIN doomed |-> doomed[i].e] ELSE <<>>]
  /\ UNCHANGED <<vars, g_stop, gone, out>>

\* shm_unlink fails if the name is gone.
Unlink ==
  /\ tool.pc = "unlink" /\ tool.doomed # <<>>
  /\ LET e == Head(tool.doomed) IN
     /\ linked' = (linked /\ ~IsTopic(e))
     /\ gone' = IF IsTopic(e) THEN gone ELSE gone \cup {e}
     /\ tool' = [tool EXCEPT !.doomed = Tail(@),
                             !.failures = IF Linked(e) THEN @ ELSE @ + 1]
  /\ UNCHANGED <<segment, proc, crashes, reader, snap, mended, g_stop, out>>

CleanExits ==
  /\ tool.pc = "unlink" /\ tool.doomed = <<>>
  /\ Exit(IF tool.failures = 0 THEN 0 ELSE 1)
  /\ UNCHANGED <<vars, g_stop, gone, out>>

-----------------------------------------------------------------------------
\* Another operator's clean removes a dead segment while a command runs.
Vanish(e) ==
  /\ tool.pc \notin {"start", "exit"} /\ ~IsTopic(e) /\ Parsed(e).found /\ Open(e) = "kOk" /\ gone' = gone \cup {e}
  /\ UNCHANGED <<vars, cmd, tool, g_stop, out, since>>

\* Alive and in a slot: as publisher from the claim on, as subscriber once active.
Wired == {x \in Procs : /\ proc[x].alive
                        /\ IF x \in Pubs
                           THEN proc[x].pc \notin {"unborn", "closed"}
                           ELSE proc[x].pc = "active"}

ToolStep ==
  /\ \/ Main \/ Discover \/ CollectOpen \/ CollectSnapshot \/ CmdList \/ CmdStat
     \/ CmdWatch \/ WatchAgain \/ CmdClean \/ Unlink \/ CleanExits
     \/ Snapshot /\ UNCHANGED <<tool, g_stop, gone, out>>
  /\ UNCHANGED cmd
  /\ since' = IF reader'.pc = "open" THEN Wired ELSE since

\* The processes are followed while a command runs.
Observed == /\ tool.pc \notin {"start", "exit"} /\ Participant
            /\ since' = since \cap Wired' /\ UNCHANGED toolVars

XNext ==
  \/ ToolStep
  \/ Observed
  \/ Interrupt
  \/ \E e \in DOMAIN Directory : Vanish(e)

\* The tool runs; nothing is assumed of the observed processes.
XSpec == XInit /\ [][XNext]_allVars /\ WF_allVars(ToolStep)

-----------------------------------------------------------------------------
\* Properties.

\* `clean --yes', "an explicit operator action on a segment with no live
\* participants": it never unlinks a segment under a process that was wired to
\* it before the tool opened it, nor an object it could not validate, while
\* owners die, detach and are replaced under its loads.
LiveSpared ==
  [][/\ linked /\ ~linked' => since = {}
     /\ tool.doomed # tool'.doomed => \A e \in gone' \ gone : LET o == Object(e) IN
          o.sized /\ o.ready /\ o.magic /\ o.version /\ o.consistent]_allVars

\* What a command prints is true when it is printed or was since it scanned: a
\* publisher or subscriber shown DEAD is dead, stat and watch print the topic and domain they
\* were asked for, and never one of two candidates.
ReportHonest ==
  /\ \A i \in DOMAIN out : out[i].status = "kOk" =>
       /\ out[i].pub = "DEAD" => ~ProcessAlive(out[i].pid)
       /\ \A u \in out[i].subs : ~u.alive => ~ProcessAlive(u.pid)
  /\ \A i \in DOMAIN out : cmd.domain = Any \/ Parsed(out[i].e).key = cmd.domain
  /\ cmd.verb \in {"stat", "watch"} /\ ~cmd.raw /\ out # <<>> =>
       /\ Parsed(out[1].e).topic = cmd.topic
       /\ \A e \in DOMAIN Directory :
            /\ e # out[1].e /\ Linked(e) /\ Entry(e).object.magic
            /\ Entry(e).object.consistent
            => ~(Matches(e) /\ Parsed(e).topic = cmd.topic)

\* M10-A5, the observer "never spins forever": every command returns, whatever
\* writers do or wherever they died, and watch returns once interrupted.
CmdReturns == (cmd.verb # "watch" \/ g_stop) ~> tool.pc = "exit"

\* An observer misses no segment: once a command has collected its views, every
\* segment that a process created and that is still linked is among them, under
\* the very key its domain derives, whatever characters the domain's name has.
\* Only a foreign object is dropped, and a hashed name belongs to no domain.
FindsSegments ==
  AllCollected =>
    \A e \in DOMAIN Directory :
      /\ Entry(e).key # Any /\ Linked(e) /\ Open(e) # "kForeign"
      /\ cmd.domain = Any \/ (cmd.domain = Entry(e).key /\ ~Parsed(e).hashed)
      => \E i \in DOMAIN tool.views : tool.views[i].e = e
=============================================================================
