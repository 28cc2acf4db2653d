------------------------------ MODULE RpcTopic ------------------------------
(***************************************************************************)
(* The RPC machinery of detail/in_process.hpp: RpcTopic<Req, Rsp>, a fixed *)
(* array of call slots shared by blocking Calls and a take/reply server.   *)
(*                                                                         *)
(* Each Callers element is a Client handle with its thread; each Workers   *)
(* element is one request at a time in the hands of the server application *)
(* (a server that holds several requests is several workers).  The slot    *)
(* state word is cut at every access; a store that frees or fills a slot   *)
(* and the NotifyAll right behind it are one step, as a notification only  *)
(* makes waiters look again.  A request is identified by its token and a   *)
(* response by the token of the request it answers.  EventCount (external) *)
(* is a flag per waiter: cleared when a wait is prepared, set by NotifyAll;*)
(* a waiter sleeps until it is set or its deadline passes.                 *)
(***************************************************************************)
EXTENDS Integers, FiniteSets

CONSTANTS
  Callers, Workers, Servers,
  kMaxInFlight,      \* number of call slots
  MaxCalls           \* bound on the calls one Client makes

ASSUME RpcAssumption == kMaxInFlight \in 1..16 /\ MaxCalls \in Nat

kIndexBits == 4
Slots == 0..(kMaxInFlight - 1)

\* The correlation token packs a per-topic counter and the slot index.
Token(n, i)  == n * 2^kIndexBits + i
SlotOf(corr) == corr % 2^kIndexBits

SlotStates == {"kFree", "kClaimed", "kPending", "kTaken", "kReplied", "kAbandoned"}

VARIABLES
  publisher_count, subscriber_count, srv_pc,
  slots,               \* CallSlot: [state, correlation, response]
  next_correlation,
  call,                \* Call's locals: [pc, calls, slot, token, status, value]
  signal,              \* client_waiter_
  work,                \* TakeRequest's and Reply's locals: [pc, scan, corr]
  wsignal              \* server_waiter_

wiringVars == <<publisher_count, subscriber_count, srv_pc>>
vars == <<wiringVars, slots, next_correlation, call, signal, work, wsignal>>

CallAt(c, pc) == call[c].pc = pc
WorkAt(w, pc) == work[w].pc = pc
State(i)      == slots[i].state
SetState(i, v) == slots' = [slots EXCEPT ![i].state = v]

NotifyClients ==
  signal' = [c \in Callers |-> call[c].pc \in {"claim", "full", "await", "parked"}]
NotifyServer == wsignal' = [w \in Workers |-> WorkAt(w, "parked")]

CallGoto(c, pc) == call' = [call EXCEPT ![c].pc = pc]
WorkGoto(w, pc) == work' = [work EXCEPT ![w].pc = pc]

\* Call returns without a response: its locals die.
Fail(c, status) ==
  call' = [call EXCEPT ![c].pc = "idle", ![c].slot = 0, ![c].token = 0,
                       ![c].status = status, ![c].value = 0]

\* Reply returns and the worker drops its request.
Replied(w) == work' = [work EXCEPT ![w].pc = "idle", ![w].corr = 0]

Init ==
  /\ publisher_count = 0 /\ subscriber_count = 0
  /\ srv_pc = [v \in Servers |-> "unborn"]
  /\ slots = [i \in Slots |-> [state |-> "kFree", correlation |-> 0, response |-> 0]]
  /\ next_correlation = 0
  /\ call = [c \in Callers |-> [pc |-> "unborn", calls |-> 0, slot |-> 0, token |-> 0,
                                status |-> "kNoServer", value |-> 0]]
  /\ signal = [c \in Callers |-> FALSE]
  /\ work = [w \in Workers |-> [pc |-> "idle", scan |-> 0, corr |-> 0]]
  /\ wsignal = [w \in Workers |-> FALSE]

-----------------------------------------------------------------------------
\* Wiring (domain mutex held).

AddServer(v) ==
  /\ srv_pc[v] = "unborn"
  /\ IF publisher_count > 0
     THEN /\ srv_pc' = [srv_pc EXCEPT ![v] = "refused"]
          /\ UNCHANGED publisher_count
     ELSE /\ srv_pc' = [srv_pc EXCEPT ![v] = "serving"]
          /\ publisher_count' = publisher_count + 1
  /\ UNCHANGED <<subscriber_count, slots, next_correlation, call, signal, work, wsignal>>

\* The Server handle dies with its verbs returned and every taken request
\* replied, as its contract demands.
RemoveServer(v) ==
  /\ srv_pc[v] = "serving" /\ \A w \in Workers : WorkAt(w, "idle") /\ work[w].scan = 0
  /\ srv_pc' = [srv_pc EXCEPT ![v] = "closed"]
  /\ publisher_count' = publisher_count - 1
  /\ NotifyClients
  /\ UNCHANGED <<subscriber_count, slots, next_correlation, call, work, wsignal>>

AddClient(c) ==
  /\ CallAt(c, "unborn")
  /\ CallGoto(c, "idle")
  /\ subscriber_count' = subscriber_count + 1
  /\ UNCHANGED <<publisher_count, srv_pc, slots, next_correlation, signal, work, wsignal>>

RemoveClient(c) ==
  /\ CallAt(c, "idle")
  /\ CallGoto(c, "closed")
  /\ subscriber_count' = subscriber_count - 1
  /\ NotifyServer
  /\ UNCHANGED <<publisher_count, srv_pc, slots, next_correlation, signal, work>>

-----------------------------------------------------------------------------
\* Call.  No step of it changes wiringVars or work.

\* Entry: without a server the call fails at once.
Call(c) ==
  /\ CallAt(c, "idle") /\ call[c].calls < MaxCalls
  /\ call' = IF publisher_count = 0
             THEN [call EXCEPT ![c].calls = @ + 1, ![c].status = "kNoServer", ![c].value = 0]
             ELSE [call EXCEPT ![c].calls = @ + 1, ![c].pc = "try"]
  /\ UNCHANGED <<slots, next_correlation, signal, wsignal>>

LastIndex(i) == i + 1 = kMaxInFlight

\* TryClaim: one compare-exchange kFree -> kClaimed per slot, in index order;
\* first on its own ("try"), then as the predicate of a prepared wait ("claim").
TryClaim(c) ==
  /\ call[c].pc \in {"try", "claim"}
  /\ LET i == call[c].slot IN
     \/ /\ State(i) = "kFree"
        /\ SetState(i, "kClaimed") /\ CallGoto(c, "fill") /\ UNCHANGED signal
     \/ /\ State(i) # "kFree" /\ ~LastIndex(i)
        /\ call' = [call EXCEPT ![c].slot = i + 1] /\ UNCHANGED <<slots, signal>>
     \/ /\ State(i) # "kFree" /\ LastIndex(i) /\ CallAt(c, "try")
        /\ call' = [call EXCEPT ![c].slot = 0, ![c].pc = "claim"]
        /\ signal' = [signal EXCEPT ![c] = FALSE] /\ UNCHANGED slots
     \/ /\ State(i) # "kFree" /\ LastIndex(i) /\ CallAt(c, "claim")
        /\ CallGoto(c, "full") /\ UNCHANGED <<slots, signal>>
  /\ UNCHANGED <<next_correlation, wsignal>>

\* All slots busy: a notified wait evaluates its predicate, the scan, again.
RetryClaim(c) ==
  /\ CallAt(c, "full") /\ signal[c]
  /\ signal' = [signal EXCEPT ![c] = FALSE]
  /\ call' = [call EXCEPT ![c].slot = 0, ![c].pc = "claim"]
  /\ UNCHANGED <<slots, next_correlation, wsignal>>

\* Fill the claimed slot and publish it: kClaimed -> kPending.
Submit(c) ==
  /\ CallAt(c, "fill")
  /\ next_correlation' = next_correlation + 1
  /\ LET i == call[c].slot
         t == Token(next_correlation + 1, i)
     IN /\ slots' = [slots EXCEPT ![i].correlation = t, ![i].state = "kPending"]
        /\ call' = [call EXCEPT ![c].token = t, ![c].pc = "submitted"]
  /\ UNCHANGED <<signal, wsignal>>

\* Unpark the server, then prepare the wait for the reply.
Announce(c) ==
  /\ CallAt(c, "submitted")
  /\ NotifyServer
  /\ signal' = [signal EXCEPT ![c] = FALSE]
  /\ CallGoto(c, "await")
  /\ UNCHANGED <<slots, next_correlation>>

\* The bounded reply wait evaluates its predicate: is the slot kReplied?
AwaitReply(c) ==
  /\ CallAt(c, "await")
  /\ CallGoto(c, IF State(call[c].slot) = "kReplied" THEN "consume" ELSE "parked")
  /\ UNCHANGED <<slots, next_correlation, signal, wsignal>>

\* A notified caller evaluates its predicate again.
Wake(c) ==
  /\ CallAt(c, "parked") /\ signal[c]
  /\ signal' = [signal EXCEPT ![c] = FALSE]
  /\ CallGoto(c, "await")
  /\ UNCHANGED <<slots, next_correlation, wsignal>>

\* Mutant: a freed slot wakes nobody.
FreeSlotSilently(i) == SetState(i, "kFree") /\ UNCHANGED signal

\* Free a slot and wake the callers that wait for one.
FreeSlot(i) == SetState(i, "kFree") /\ NotifyClients

\* Deadline: compare-exchange kPending -> kFree, the request never taken.
Revoke(c) ==
  /\ CallAt(c, "revoke")
  /\ \/ /\ State(call[c].slot) = "kPending"
        /\ FreeSlot(call[c].slot) /\ Fail(c, "kDeadlineExpired")
     \/ /\ State(call[c].slot) # "kPending"
        /\ CallGoto(c, "abandon") /\ UNCHANGED <<slots, signal>>
  /\ UNCHANGED <<next_correlation, wsignal>>

\* Mutant: kAbandoned is stored whatever the slot has become.
CanAbandonAlways(c) == TRUE

CanAbandon(c) == State(call[c].slot) = "kTaken"

\* The server holds the slot; its Reply will reclaim it.
Disown(i) == SetState(i, "kAbandoned")

\* Deadline: compare-exchange kTaken -> kAbandoned; failing, the reply landed.
Abandon(c) ==
  /\ CallAt(c, "abandon")
  /\ \/ CanAbandon(c) /\ Disown(call[c].slot) /\ Fail(c, "kDeadlineExpired")
     \/ ~CanAbandon(c) /\ CallGoto(c, "consume") /\ UNCHANGED slots
  /\ UNCHANGED <<next_correlation, signal, wsignal>>

\* Read the response out of the replied slot.
Consume(c) ==
  /\ CallAt(c, "consume")
  /\ call' = [call EXCEPT ![c].status = "kOk", ![c].pc = "release",
                          ![c].value = slots[call[c].slot].response]
  /\ UNCHANGED <<slots, next_correlation, signal, wsignal>>

ReleaseSlot(c) ==
  /\ CallAt(c, "release")
  /\ FreeSlot(call[c].slot)
  /\ call' = [call EXCEPT ![c].pc = "idle", ![c].slot = 0, ![c].token = 0]
  /\ UNCHANGED <<next_correlation, wsignal>>

\* Mutant: the wait for the reply has no deadline while the server lives.
ReplyExpiresAlone(c) == CallAt(c, "parked") /\ publisher_count = 0

\* The wait for the reply ends at deadline_at.
ReplyExpires(c) == CallAt(c, "parked")

\* deadline_at passes in the wait for a slot or in the wait for the reply.
Timeout(c) ==
  /\ \/ CallAt(c, "full") /\ Fail(c, "kDeadlineExpired")
     \/ ReplyExpires(c) /\ CallGoto(c, "revoke")
  /\ UNCHANGED <<wiringVars, slots, next_correlation, signal, work, wsignal>>

-----------------------------------------------------------------------------
\* The server loop: drain with TakeRequest, then park in WaitForWork.  No step
\* of it changes wiringVars, next_correlation or call.

\* One compare-exchange kPending -> kTaken per slot, in index order.
TakeRequest(w) ==
  /\ WorkAt(w, "idle") /\ publisher_count > 0
  /\ LET i == work[w].scan IN
     \/ /\ State(i) = "kPending"
        /\ SetState(i, "kTaken")
        /\ work' = [work EXCEPT ![w].pc = "held", ![w].scan = 0,
                                ![w].corr = slots[i].correlation]
     \/ /\ State(i) # "kPending" /\ ~LastIndex(i)
        /\ work' = [work EXCEPT ![w].scan = i + 1] /\ UNCHANGED slots
     \/ /\ State(i) # "kPending" /\ LastIndex(i)
        /\ work' = [work EXCEPT ![w].pc = "drained", ![w].scan = 0] /\ UNCHANGED slots
  /\ UNCHANGED <<signal, wsignal>>

AnyPending == \E i \in Slots : State(i) = "kPending"

\* WaitForWork evaluates AnyPending and parks while it is false.  (A request
\* published behind its scan is followed by NotifyAll, so one atomic look is
\* as good.)
WaitForWork(w) ==
  /\ work[w].pc \in {"drained", "woken"}
  /\ WorkGoto(w, IF AnyPending THEN "idle" ELSE "parked")
  /\ UNCHANGED <<slots, signal, wsignal>>

\* Notified, the wait re-evaluates.
WorkerWakes(w) ==
  /\ WorkAt(w, "parked") /\ wsignal[w]
  /\ WorkGoto(w, "woken")
  /\ wsignal' = [wsignal EXCEPT ![w] = FALSE]
  /\ UNCHANGED <<slots, signal>>

\* Mutant: the park ends only once a client is wired.
ParkExpiresForClients(w) == WorkAt(w, "parked") /\ subscriber_count > 0

\* The wait for work ends when max_park has elapsed.
ParkExpires(w) == WorkAt(w, "parked")

\* After max_park the wait returns to the loop.
MaxParkElapses(w) ==
  /\ ParkExpires(w)
  /\ WorkGoto(w, "idle")
  /\ wsignal' = [wsignal EXCEPT ![w] = FALSE]
  /\ UNCHANGED <<wiringVars, slots, next_correlation, call, signal>>

\* Reply, first look: is the slot still this request's?
Reply(w) ==
  /\ WorkAt(w, "held")
  /\ LET s == slots[SlotOf(work[w].corr)] IN
     WorkGoto(w, IF s.state = "kTaken" /\ s.correlation = work[w].corr
                 THEN "respond" ELSE "late")
  /\ UNCHANGED <<slots, signal, wsignal>>

\* Write the response into the slot.
Respond(w) ==
  /\ WorkAt(w, "respond")
  /\ slots' = [slots EXCEPT ![SlotOf(work[w].corr)].response = work[w].corr]
  /\ WorkGoto(w, "commit")
  /\ UNCHANGED <<signal, wsignal>>

\* Mutant: kReplied is stored whatever the slot has become.
CanCommitAlways(i) == TRUE

CanCommit(i) == State(i) = "kTaken"

\* Compare-exchange kTaken -> kReplied: the reply is accepted or late.
CommitReply(w) ==
  /\ WorkAt(w, "commit")
  /\ LET i == SlotOf(work[w].corr) IN
     \/ CanCommit(i) /\ SetState(i, "kReplied") /\ NotifyClients /\ Replied(w)
     \/ ~CanCommit(i) /\ WorkGoto(w, "late") /\ UNCHANGED <<slots, signal>>
  /\ UNCHANGED wsignal

\* Mutant: a reply that lost the race returns without reclaiming the slot.
ReclaimsNever(s, corr) == FALSE

Reclaims(s, corr) == s.state = "kAbandoned" /\ s.correlation = corr

\* A late reply (kExpired) reclaims the slot its caller abandoned.
ReclaimSlot(w) ==
  /\ WorkAt(w, "late")
  /\ LET i == SlotOf(work[w].corr) IN
     IF Reclaims(slots[i], work[w].corr) THEN FreeSlot(i) ELSE UNCHANGED <<slots, signal>>
  /\ Replied(w)
  /\ UNCHANGED wsignal

-----------------------------------------------------------------------------
CallStep(c) ==
  /\ \/ TryClaim(c) \/ RetryClaim(c) \/ Submit(c) \/ Announce(c) \/ AwaitReply(c)
     \/ Wake(c) \/ Revoke(c) \/ Abandon(c) \/ Consume(c) \/ ReleaseSlot(c)
  /\ UNCHANGED <<wiringVars, work>>

ServeStep(w) ==
  /\ \/ TakeRequest(w) \/ WaitForWork(w) \/ WorkerWakes(w) \/ Reply(w)
     \/ Respond(w) \/ CommitReply(w) \/ ReclaimSlot(w)
  /\ UNCHANGED <<wiringVars, next_correlation, call>>

Next ==
  \/ \E v \in Servers : AddServer(v) \/ RemoveServer(v)
  \/ \E c \in Callers : \/ AddClient(c) \/ RemoveClient(c) \/ CallStep(c) \/ Timeout(c)
                        \/ Call(c) /\ UNCHANGED <<wiringVars, work>>
  \/ \E w \in Workers : ServeStep(w) \/ MaxParkElapses(w)

Spec == Init /\ [][Next]_vars

\* A calling thread is scheduled; nothing is assumed of servers or of time.
FairSpec == Spec /\ \A c \in Callers : WF_vars(CallStep(c))

-----------------------------------------------------------------------------
\* Properties.

\* The caller owns the slot from its claim until it frees or abandons it.
Holding(c) == call[c].pc \in {"fill", "submitted", "await", "parked", "revoke",
                              "abandon", "consume", "release"}

\* The worker owes a Reply to the request it took.
Owing(w) == work[w].pc \in {"held", "respond", "commit", "late"}

\* A call slot serves one call at a time: no two Calls in flight share a slot,
\* and a slot is in use by a Call exactly while its state word says so.
SlotExclusive ==
  /\ \A c, d \in Callers : c # d /\ Holding(c) /\ Holding(d) => call[c].slot # call[d].slot
  /\ \A i \in Slots :
       (\E c \in Callers : Holding(c) /\ call[c].slot = i)
         <=> State(i) \in {"kClaimed", "kPending", "kTaken", "kReplied"}

\* No slot leaks: a slot whose state only a Reply can leave, kTaken or
\* kAbandoned, is always owed that Reply by exactly one taken request.
EverySlotOwed ==
  \A i \in Slots :
    State(i) \in {"kTaken", "kAbandoned"} =>
      \E w \in Workers :
        /\ Owing(w) /\ work[w].corr = slots[i].correlation
        /\ \A x \in Workers : Owing(x) /\ work[x].corr = work[w].corr => x = w

\* The call of c as OneShot sees it: its request is answered when its slot is.
Exchange(c) == INSTANCE OneShot WITH
  Tokens   <- Nat \ {0},
  token    <- call[c].token,
  answered <- call[c].token # 0 /\ State(call[c].slot) = "kReplied",
  result   <- [status |-> call[c].status, value |-> call[c].value]

\* Both ends of a call agree on its outcome, however the deadline races the
\* reply: an accepted reply is returned by the very call it answers, a late one
\* surfaces on no later call, whatever slot it recycles.
CallsOneShot == (\A c \in Callers : Exchange(c)!Init)
                  /\ [][\A c \in Callers : Exchange(c)!Step]_vars

InCall(c) == call[c].pc \notin {"unborn", "idle", "closed"}

\* Every Call returns by its deadline, whatever the server does: deadline_at
\* is absolute, so a wait resumed for ever times out, and no call is stuck for a
\* slot, for a reply or between its two compare-exchanges.
CallReturns ==
  (\A c \in Callers : SF_vars(Timeout(c)))
    => \A c \in Callers : InCall(c) ~> ~InCall(c)

\* No wakeup is lost: if the server loop runs, every Call returns without any
\* deadline or max_park having to pass, waits for a slot included.
CallServed ==
  (\A w \in Workers : WF_vars(ServeStep(w)))
    => \A c \in Callers : InCall(c) ~> (~InCall(c) \/ publisher_count = 0)

\* A parked server loop gets back to its application's shutdown flag: max_park
\* bounds the whole wait, however often a detaching client wakes it for nothing
\* and it parks again.
ParkEnds ==
  (\A w \in Workers : WF_vars(ServeStep(w)) /\ SF_vars(MaxParkElapses(w)))
    => \A w \in Workers : WorkAt(w, "parked") ~> WorkAt(w, "idle")
=============================================================================
