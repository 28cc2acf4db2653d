------------------------- MODULE RpcAndLoan_proofs -------------------------
(***************************************************************************)
(* Proofs about the two bounded pools of detail/in_process.hpp: the call   *)
(* slots of RpcTopic, for every number of callers, workers, servers and    *)
(* calls and every array of up to 16 slots, and the cells of LoanPool, for *)
(* any number of handles, cells and threads, with the lineage of what is   *)
(* published from them.                                                    *)
(***************************************************************************)
EXTENDS RpcTopic, LoanPool, WellFoundedInduction, TLAPS

-----------------------------------------------------------------------------
\* The inductive invariant, over records: a slot q, a caller's locals r, a
\* worker's locals o.

CallPcs == {"unborn", "idle", "closed", "try", "claim", "full", "fill", "submitted",
            "await", "parked", "revoke", "abandon", "consume", "release"}
WorkPcs == {"idle", "drained", "parked", "woken", "held", "respond", "commit", "late"}

CallSlot   == [state : SlotStates, correlation : Nat, response : Nat]
CallLocals == [pc : CallPcs, calls : Nat, slot : Slots, token : Nat,
               status : {"kOk", "kNoServer", "kDeadlineExpired"}, value : Nat]
WorkLocals == [pc : WorkPcs, scan : Slots, corr : Nat]

TypeInv ==
  /\ slots \in [Slots -> CallSlot] /\ next_correlation \in Nat
  /\ call \in [Callers -> CallLocals] /\ work \in [Workers -> WorkLocals]

InUse == {"kClaimed", "kPending", "kTaken", "kReplied"}
Owed  == {"kTaken", "kAbandoned"}

Holds(r) == r.pc \in {"fill", "submitted", "await", "parked", "revoke", "abandon",
                      "consume", "release"}
Owes(o)  == o.pc \in {"held", "respond", "commit", "late"}

\* What a caller's place in Call says of the state of its slot.
Expects(r, q) ==
  \/ r.pc = "fill" /\ q.state = "kClaimed"
  \/ /\ r.pc \in {"submitted", "await", "parked", "revoke"}
     /\ q.state \in {"kPending", "kTaken", "kReplied"}
  \/ r.pc = "abandon" /\ q.state \in {"kTaken", "kReplied"}
  \/ r.pc \in {"consume", "release"} /\ q.state = "kReplied"

\* A caller in a slot finds it as it expects, and past its Submit with its own
\* token; anywhere else it has no token.
CallerOK(r, q) ==
  /\ Holds(r) => Expects(r, q)
  /\ IF Holds(r) /\ r.pc # "fill" THEN r.token # 0 /\ r.token = q.correlation
                                  ELSE r.token = 0
  /\ r.pc = "release" => r.status = "kOk" /\ r.value = r.token

\* A worker's request keeps its slot until it is replied.
WorkerOK(o, q) ==
  Owes(o) => /\ q.state \in Owed /\ q.correlation = o.corr
             /\ o.pc = "late" => q.state = "kAbandoned"
             /\ o.pc = "commit" => q.response = o.corr

\* A submitted request names its slot, and is answered with its own response.
SlotOK(i, q) ==
  /\ q.state \notin {"kFree", "kClaimed"} => SlotOf(q.correlation) = i
  /\ q.state = "kReplied" => q.response = q.correlation

CallerInv == \A c \in Callers : CallerOK(call[c], slots[call[c].slot])

WorkerInv ==
  \A w \in Workers :
    /\ Owes(work[w]) => SlotOf(work[w].corr) \in Slots
    /\ WorkerOK(work[w], slots[SlotOf(work[w].corr)])

\* A slot in use has its caller, an owed one its worker.
SlotInv ==
  \A i \in Slots :
    /\ SlotOK(i, slots[i])
    /\ State(i) \in InUse => \E c \in Callers : Holds(call[c]) /\ call[c].slot = i
    /\ State(i) \in Owed => \E w \in Workers : Owes(work[w]) /\ SlotOf(work[w].corr) = i

Unshared ==
  /\ \A c, d \in Callers : Holds(call[c]) /\ Holds(call[d]) /\ call[c].slot = call[d].slot
                             => c = d
  /\ \A w, x \in Workers : Owes(work[w]) /\ Owes(work[x])
                             /\ SlotOf(work[w].corr) = SlotOf(work[x].corr) => w = x

RpcInv == TypeInv /\ CallerInv /\ WorkerInv /\ SlotInv /\ Unshared

LEMMA RpcInit == Init => RpcInv
<1> SUFFICES ASSUME Init PROVE RpcInv
  OBVIOUS
<1>1. TypeInv
  BY RpcAssumption DEF Init, TypeInv, CallSlot, CallLocals, WorkLocals, SlotStates,
     CallPcs, WorkPcs, Slots
<1>2. CallerInv /\ WorkerInv /\ Unshared
  BY DEF Init, CallerInv, WorkerInv, Unshared, CallerOK, WorkerOK, Holds, Owes
<1>3. SlotInv
  BY DEF Init, SlotInv, SlotOK, State, InUse, Owed
<1> QED
  BY <1>1, <1>2, <1>3 DEF RpcInv

\* The slot index survives the packing into a token.
LEMMA TokenFacts ==
  ASSUME NEW n \in Nat, NEW i \in Slots
  PROVE  Token(n, i) \in Nat /\ SlotOf(Token(n, i)) = i /\ (n # 0 => Token(n, i) # 0)
<1>1. 2^kIndexBits = 16
  BY DEF kIndexBits
<1>2. i \in Nat /\ i < 16
  BY RpcAssumption DEF Slots
<1>3. Token(n, i) = n * 16 + i
  BY <1>1 DEF Token
<1>4. (n * 16 + i) % 16 = i
  BY <1>2
<1> QED
  BY <1>1, <1>2, <1>3, <1>4 DEF SlotOf

-----------------------------------------------------------------------------
\* The four ways in which a step preserves it.

\* A caller moves on and leaves the slots alone.
LEMMA CallerQuiet ==
  ASSUME RpcInv, NEW c \in Callers, NEW r \in CallLocals,
         call' = [call EXCEPT ![c] = r], UNCHANGED <<slots, work, next_correlation>>,
         Holds(r) <=> Holds(call[c]), Holds(r) => r.slot = call[c].slot,
         CallerOK(r, slots[r.slot])
  PROVE  RpcInv'
<1> USE DEF RpcInv
<1>1. TypeInv'
  BY DEF TypeInv
<1>2. CallerInv' /\ Unshared'
  BY DEF TypeInv, CallerInv, Unshared
<1>3. WorkerInv'
  BY DEF WorkerInv
<1>4. SlotInv'
  BY DEF TypeInv, SlotInv, State
<1> QED
  BY <1>1, <1>2, <1>3, <1>4

\* A caller changes the slot it holds, or claims a free one.
LEMMA CallerMove ==
  ASSUME RpcInv, NEW c \in Callers, NEW r \in CallLocals, NEW i \in Slots,
         NEW q \in CallSlot, i = call[c].slot, Holds(call[c]) \/ State(i) = "kFree",
         call' = [call EXCEPT ![c] = r], slots' = [slots EXCEPT ![i] = q],
         work' = work, next_correlation' \in Nat,
         Holds(r) => r.slot = i, CallerOK(r, q), SlotOK(i, q),
         q.state \in InUse => Holds(r), State(i) # "kAbandoned",
         q.state \in Owed <=> State(i) \in Owed,
         State(i) \in Owed =>
           q.correlation = slots[i].correlation /\ q.response = slots[i].response
  PROVE  RpcInv'
<1> USE DEF RpcInv
<1>1. TypeInv'
  BY DEF TypeInv
<1>2. \A d \in Callers \ {c} : Holds(call[d]) => call[d].slot # i
  BY DEF CallerInv, CallerOK, Expects, Unshared, State
<1>3. CallerInv'
  <2> SUFFICES ASSUME NEW d \in Callers
               PROVE  CallerOK(call'[d], slots'[call'[d].slot])
    BY DEF CallerInv
  <2>1. CASE d = c
    <3>1. CASE Holds(r)
      BY <2>1, <3>1 DEF TypeInv
    <3>2. CASE ~Holds(r)
      BY <2>1, <3>2 DEF TypeInv, CallerOK, Holds
    <3> QED
      BY <3>1, <3>2
  <2>2. CASE d # c /\ Holds(call[d])
    BY <1>2, <2>2 DEF TypeInv, CallerInv, CallLocals
  <2>3. CASE d # c /\ ~Holds(call[d])
    BY <2>3 DEF TypeInv, CallerInv, CallerOK, Holds
  <2> QED
    BY <2>1, <2>2, <2>3
<1>4. WorkerInv'
  <2> SUFFICES ASSUME NEW w \in Workers, Owes(work[w])
               PROVE  /\ SlotOf(work[w].corr) \in Slots
                      /\ WorkerOK(work[w], slots'[SlotOf(work[w].corr)])
    BY DEF WorkerInv, WorkerOK
  <2>1. CASE SlotOf(work[w].corr) = i
    BY <2>1 DEF TypeInv, WorkerInv, WorkerOK, State, Owed
  <2>2. CASE SlotOf(work[w].corr) # i
    BY <2>2 DEF TypeInv, WorkerInv
  <2> QED
    BY <2>1, <2>2
<1>5. SlotInv'
  <2> SUFFICES ASSUME NEW j \in Slots
               PROVE  /\ SlotOK(j, slots'[j])
                      /\ slots'[j].state \in InUse =>
                           \E d \in Callers : Holds(call'[d]) /\ call'[d].slot = j
                      /\ slots'[j].state \in Owed =>
                           \E w \in Workers : Owes(work[w]) /\ SlotOf(work[w].corr) = j
    BY DEF SlotInv, State
  <2>1. CASE j = i
    BY <2>1 DEF TypeInv, SlotInv, State
  <2>2. CASE j # i
    BY <2>2 DEF TypeInv, SlotInv, State
  <2> QED
    BY <2>1, <2>2
<1>6. Unshared'
  BY <1>2 DEF TypeInv, Unshared
<1> QED
  BY <1>1, <1>3, <1>4, <1>5, <1>6

\* A worker moves on and leaves the slots alone.
LEMMA WorkerQuiet ==
  ASSUME RpcInv, NEW w \in Workers, NEW o \in WorkLocals,
         work' = [work EXCEPT ![w] = o], UNCHANGED <<slots, call, next_correlation>>,
         Owes(o) <=> Owes(work[w]), Owes(o) => o.corr = work[w].corr,
         WorkerOK(o, slots[SlotOf(o.corr)])
  PROVE  RpcInv'
<1> USE DEF RpcInv
<1>1. TypeInv'
  BY DEF TypeInv
<1>2. WorkerInv' /\ Unshared'
  BY DEF TypeInv, WorkerInv, Unshared
<1>3. CallerInv'
  BY DEF CallerInv
<1>4. SlotInv'
  BY DEF TypeInv, SlotInv, State
<1> QED
  BY <1>1, <1>2, <1>3, <1>4

\* A worker takes a pending request, or changes the slot of the one it owes.
LEMMA WorkerMove ==
  ASSUME RpcInv, NEW w \in Workers, NEW o \in WorkLocals, NEW i \in Slots,
         NEW q \in CallSlot,
         State(i) = "kPending" \/ (Owes(work[w]) /\ SlotOf(work[w].corr) = i),
         Owes(work[w]) => SlotOf(work[w].corr) = i,
         work' = [work EXCEPT ![w] = o], slots' = [slots EXCEPT ![i] = q],
         UNCHANGED <<call, next_correlation>>,
         Owes(o) => SlotOf(o.corr) = i, WorkerOK(o, q), SlotOK(i, q),
         q.state \in Owed => Owes(o), q.correlation = slots[i].correlation,
         q.state \in InUse <=> State(i) \in InUse,
         \A r \in CallLocals : Expects(r, slots[i]) => Expects(r, q)
  PROVE  RpcInv'
<1> USE DEF RpcInv
<1>1. TypeInv'
  BY DEF TypeInv
<1>2. \A x \in Workers \ {w} : Owes(work[x]) => SlotOf(work[x].corr) # i
  BY DEF WorkerInv, WorkerOK, Owed, Unshared, State
<1>3. CallerInv'
  <2> SUFFICES ASSUME NEW c \in Callers
               PROVE  CallerOK(call[c], slots'[call[c].slot])
    BY DEF CallerInv
  <2>1. call[c] \in CallLocals /\ CallerOK(call[c], slots[call[c].slot])
    BY DEF TypeInv, CallerInv
  <2>2. CASE call[c].slot = i
    BY <2>1, <2>2 DEF TypeInv, CallerOK
  <2>3. CASE call[c].slot # i
    BY <2>1, <2>3 DEF TypeInv, CallLocals
  <2> QED
    BY <2>2, <2>3
<1>4. WorkerInv'
  <2> SUFFICES ASSUME NEW x \in Workers, Owes(work'[x])
               PROVE  /\ SlotOf(work'[x].corr) \in Slots
                      /\ WorkerOK(work'[x], slots'[SlotOf(work'[x].corr)])
    BY DEF WorkerInv, WorkerOK
  <2>1. CASE x = w
    BY <2>1 DEF TypeInv
  <2>2. CASE x # w
    BY <1>2, <2>2 DEF TypeInv, WorkerInv
  <2> QED
    BY <2>1, <2>2
<1>5. SlotInv'
  <2> SUFFICES ASSUME NEW j \in Slots
               PROVE  /\ SlotOK(j, slots'[j])
                      /\ slots'[j].state \in InUse =>
                           \E d \in Callers : Holds(call[d]) /\ call[d].slot = j
                      /\ slots'[j].state \in Owed =>
                           \E x \in Workers : Owes(work'[x]) /\ SlotOf(work'[x].corr) = j
    BY DEF SlotInv, State
  <2>1. CASE j = i
    BY <2>1 DEF TypeInv, SlotInv, State
  <2>2. CASE j # i
    BY <2>2 DEF TypeInv, SlotInv, State
  <2> QED
    BY <2>1, <2>2
<1>6. Unshared'
  BY <1>2 DEF TypeInv, Unshared
<1> QED
  BY <1>1, <1>3, <1>4, <1>5, <1>6

-----------------------------------------------------------------------------
\* Call preserves the invariant.

LEMMA RpcTryClaim ==
  ASSUME RpcInv, NEW c \in Callers, TryClaim(c), work' = work
  PROVE  RpcInv'
<1> DEFINE i == call[c].slot
<1>0. /\ call[c] \in CallLocals /\ i \in Slots /\ slots[i] \in CallSlot
      /\ 0 \in Slots
  BY RpcAssumption DEF RpcInv, TypeInv, CallLocals, Slots
<1>1. ~Holds(call[c]) /\ call[c].token = 0
  BY DEF RpcInv, CallerInv, CallerOK, TryClaim, Holds
<1>2. CASE State(i) = "kFree"
  <2> DEFINE r == [call[c] EXCEPT !.pc = "fill"]
             q == [slots[i] EXCEPT !.state = "kClaimed"]
  <2>1. /\ r \in CallLocals /\ r.pc = "fill" /\ r.slot = i /\ r.token = 0
        /\ q \in CallSlot /\ q.state = "kClaimed"
    BY <1>0, <1>1 DEF CallLocals, CallSlot, CallPcs, SlotStates
  <2>2. /\ call' = [call EXCEPT ![c] = r] /\ slots' = [slots EXCEPT ![i] = q]
        /\ next_correlation' \in Nat
    BY <1>2 DEF TryClaim, SetState, CallGoto, RpcInv, TypeInv
  <2> HIDE DEF r, q
  <2>3. CallerOK(r, q) /\ SlotOK(i, q)
    BY <2>1 DEF CallerOK, Expects, Holds, SlotOK
  <2> QED
    BY <1>0, <1>2, <2>1, <2>2, <2>3, CallerMove DEF Holds, Owed, InUse
<1>3. CASE State(i) # "kFree"
  <2>1. PICK r \in CallLocals :
          /\ call' = [call EXCEPT ![c] = r] /\ r.pc \in {"try", "claim", "full"}
          /\ r.token = 0
    <3>1. CASE call' = [call EXCEPT ![c].slot = i + 1] /\ ~LastIndex(i)
      <4> DEFINE r == [call[c] EXCEPT !.slot = i + 1]
      <4>1. i + 1 \in Slots
        BY <1>0, <3>1, RpcAssumption DEF LastIndex, Slots
      <4>2. r \in CallLocals /\ r.pc = call[c].pc /\ r.token = 0
        BY <1>0, <1>1, <4>1 DEF CallLocals
      <4>3. call' = [call EXCEPT ![c] = r] /\ call[c].pc \in {"try", "claim"}
        BY <3>1 DEF TryClaim
      <4> HIDE DEF r
      <4> QED
        BY <4>2, <4>3
    <3>2. CASE call' = [call EXCEPT ![c].slot = 0, ![c].pc = "claim"]
      <4> DEFINE r == [call[c] EXCEPT !.slot = 0, !.pc = "claim"]
      <4>1. r \in CallLocals /\ r.pc = "claim" /\ r.token = 0
        BY <1>0, <1>1 DEF CallLocals, CallPcs
      <4> QED
        BY <3>2, <4>1
    <3>3. CASE CallGoto(c, "full")
      <4> DEFINE r == [call[c] EXCEPT !.pc = "full"]
      <4>1. r \in CallLocals /\ r.pc = "full" /\ r.token = 0
        BY <1>0, <1>1 DEF CallLocals, CallPcs
      <4> QED
        BY <3>3, <4>1 DEF CallGoto
    <3> QED
      BY <1>3, <3>1, <3>2, <3>3 DEF TryClaim
  <2>2. ~Holds(r) /\ CallerOK(r, slots[r.slot])
    BY <2>1 DEF Holds, CallerOK
  <2>3. UNCHANGED <<slots, next_correlation>>
    BY <1>3 DEF TryClaim
  <2> QED
    BY <1>1, <2>1, <2>2, <2>3, CallerQuiet
<1> QED
  BY <1>2, <1>3

LEMMA RpcSubmit ==
  ASSUME RpcInv, NEW c \in Callers, Submit(c), work' = work
  PROVE  RpcInv'
<1> DEFINE i == call[c].slot
           t == Token(next_correlation + 1, i)
           r == [call[c] EXCEPT !.token = t, !.pc = "submitted"]
           q == [slots[i] EXCEPT !.correlation = t, !.state = "kPending"]
<1>0. /\ call[c] \in CallLocals /\ i \in Slots /\ slots[i] \in CallSlot
      /\ next_correlation \in Nat /\ call[c].pc = "fill"
  BY DEF RpcInv, TypeInv, CallLocals, Submit, CallAt
<1>1. State(i) = "kClaimed"
  BY <1>0 DEF RpcInv, CallerInv, CallerOK, Holds, Expects, State
<1>2. t \in Nat /\ SlotOf(t) = i /\ t # 0
  BY <1>0, TokenFacts
<1>3. call' = [call EXCEPT ![c] = r] /\ slots' = [slots EXCEPT ![i] = q]
  BY DEF Submit
<1>4. next_correlation' \in Nat
  BY <1>0 DEF Submit
<1> HIDE DEF t
<1>5. /\ r \in CallLocals /\ r.pc = "submitted" /\ r.slot = i /\ r.token = t
      /\ q \in CallSlot /\ q.state = "kPending" /\ q.correlation = t
  BY <1>0, <1>2 DEF CallLocals, CallSlot, CallPcs, SlotStates
<1> HIDE DEF r, q
<1>6. CallerOK(r, q) /\ SlotOK(i, q)
  BY <1>2, <1>5 DEF CallerOK, Expects, Holds, SlotOK
<1> QED
  BY <1>0, <1>1, <1>3, <1>4, <1>5, <1>6, CallerMove DEF Holds, Owed, InUse

\* The steps of Call that leave the slots alone.
LEMMA RpcCallGoto ==
  ASSUME RpcInv, NEW c \in Callers, NEW x \in CallPcs, CallGoto(c, x),
         UNCHANGED <<slots, work, next_correlation>>,
         \/ {call[c].pc, x} \subseteq {"unborn", "idle", "closed"}
         \/ /\ call[c].pc \in {"submitted", "await", "parked", "revoke"}
            /\ x \in {"await", "parked", "revoke"}
         \/ /\ call[c].pc \in {"await", "revoke"}
            /\ State(call[c].slot) \in {"kTaken", "kReplied"} /\ x = "abandon"
         \/ /\ call[c].pc \in {"await", "abandon"}
            /\ State(call[c].slot) = "kReplied" /\ x = "consume"
  PROVE  RpcInv'
<1> DEFINE r == [call[c] EXCEPT !.pc = x]
<1>0. call[c] \in CallLocals /\ CallerOK(call[c], slots[call[c].slot])
  BY DEF RpcInv, TypeInv, CallerInv
<1>1. /\ r \in CallLocals /\ r.pc = x /\ r.slot = call[c].slot /\ r.token = call[c].token
  BY <1>0 DEF CallLocals
<1>2. call' = [call EXCEPT ![c] = r]
  BY DEF CallGoto
<1> HIDE DEF r
<1>3. Holds(r) <=> Holds(call[c])
  BY <1>1 DEF Holds
<1>4. CallerOK(r, slots[r.slot])
  BY <1>0, <1>1 DEF CallerOK, Expects, Holds, State
<1> QED
  BY <1>1, <1>2, <1>3, <1>4, CallerQuiet

\* Call returns without a response: from a wait for a slot, or from its slot
\* once it freed or abandoned it.
LEMMA RpcFail ==
  ASSUME RpcInv, NEW c \in Callers, Fail(c, "kDeadlineExpired"),
         UNCHANGED <<work, next_correlation>>,
         \/ CallAt(c, "full") /\ UNCHANGED slots
         \/ CallAt(c, "revoke") /\ State(call[c].slot) = "kPending"
              /\ SetState(call[c].slot, "kFree")
         \/ CallAt(c, "abandon") /\ State(call[c].slot) = "kTaken"
              /\ SetState(call[c].slot, "kAbandoned")
  PROVE  RpcInv'
<1> DEFINE i == call[c].slot
           r == [call[c] EXCEPT !.pc = "idle", !.slot = 0, !.token = 0,
                                !.status = "kDeadlineExpired", !.value = 0]
<1>0. /\ call[c] \in CallLocals /\ i \in Slots /\ slots[i] \in CallSlot
      /\ next_correlation \in Nat /\ 0 \in Slots
  BY RpcAssumption DEF RpcInv, TypeInv, CallLocals, Slots
<1>1. r \in CallLocals
  BY <1>0 DEF CallLocals, CallPcs
<1>2. r.pc = "idle" /\ r.token = 0 /\ call' = [call EXCEPT ![c] = r]
  BY <1>0 DEF CallLocals, Fail
<1> HIDE DEF r
<1>3. ~Holds(r) /\ \A q : CallerOK(r, q)
  BY <1>2 DEF Holds, CallerOK
<1>4. CASE CallAt(c, "full") /\ UNCHANGED slots
  BY <1>1, <1>2, <1>3, <1>4, CallerQuiet DEF Holds, CallAt
<1>5. ASSUME NEW v \in {"kFree", "kAbandoned"}, SetState(i, v), Holds(call[c]),
             v = "kFree" => State(i) = "kPending", v = "kAbandoned" => State(i) = "kTaken"
      PROVE  RpcInv'
  <2> DEFINE q == [slots[i] EXCEPT !.state = v]
  <2>1. /\ q \in CallSlot /\ q.state = v /\ q.correlation = slots[i].correlation
        /\ q.response = slots[i].response
    BY <1>0 DEF CallSlot, SlotStates
  <2>2. slots' = [slots EXCEPT ![i] = q]
    BY <1>5 DEF SetState
  <2> HIDE DEF q
  <2>3. SlotOK(i, q)
    BY <1>0, <1>5, <2>1 DEF RpcInv, SlotInv, SlotOK, State
  <2> QED
    BY <1>0, <1>1, <1>2, <1>3, <1>5, <2>1, <2>2, <2>3, CallerMove DEF Owed, InUse
<1> QED
  BY <1>4, <1>5 DEF CallAt, Holds

LEMMA RpcConsume ==
  ASSUME RpcInv, NEW c \in Callers, Consume(c), work' = work
  PROVE  RpcInv'
<1> DEFINE i == call[c].slot
           v == slots[i].response
           r == [call[c] EXCEPT !.status = "kOk", !.pc = "release", !.value = v]
<1>0. /\ call[c] \in CallLocals /\ i \in Slots /\ v \in Nat
      /\ CallerOK(call[c], slots[i]) /\ SlotOK(i, slots[i]) /\ call[c].pc = "consume"
  BY DEF RpcInv, TypeInv, CallLocals, CallSlot, CallerInv, SlotInv, Consume, CallAt
<1>1. r \in CallLocals
  BY <1>0 DEF CallLocals, CallPcs
<1>2. /\ r.pc = "release" /\ r.status = "kOk" /\ r.value = v /\ r.slot = i
      /\ r.token = call[c].token
  BY <1>0 DEF CallLocals
<1>3. call' = [call EXCEPT ![c] = r] /\ UNCHANGED <<slots, next_correlation>>
  BY DEF Consume
<1> HIDE DEF r
<1>4. CallerOK(r, slots[i]) /\ Holds(r) /\ Holds(call[c])
  BY <1>0, <1>2 DEF CallerOK, Expects, Holds, SlotOK
<1> QED
  BY <1>1, <1>2, <1>3, <1>4, CallerQuiet

LEMMA RpcRelease ==
  ASSUME RpcInv, NEW c \in Callers, ReleaseSlot(c), work' = work
  PROVE  RpcInv'
<1> DEFINE i == call[c].slot
           r == [call[c] EXCEPT !.pc = "idle", !.slot = 0, !.token = 0]
           q == [slots[i] EXCEPT !.state = "kFree"]
<1>0. /\ call[c] \in CallLocals /\ i \in Slots /\ slots[i] \in CallSlot /\ 0 \in Slots
      /\ next_correlation' \in Nat /\ call[c].pc = "release"
  <2>1. call[c].pc = "release" /\ next_correlation' = next_correlation
    BY DEF ReleaseSlot, CallAt
  <2>2. call[c] \in CallLocals /\ next_correlation \in Nat /\ slots \in [Slots -> CallSlot]
    BY DEF RpcInv, TypeInv
  <2>3. 0 \in Slots
    BY RpcAssumption DEF Slots
  <2>4. i \in Slots
    BY <2>2 DEF CallLocals
  <2> QED
    BY <2>1, <2>2, <2>3, <2>4
<1>1. State(i) = "kReplied" /\ Holds(call[c])
  BY <1>0 DEF RpcInv, CallerInv, CallerOK, Holds, Expects, State
<1>2. r \in CallLocals /\ r.pc = "idle" /\ r.token = 0
  BY <1>0 DEF CallLocals, CallPcs
<1>3. q \in CallSlot /\ q.state = "kFree"
  BY <1>0 DEF CallSlot, SlotStates
<1>4. call' = [call EXCEPT ![c] = r] /\ slots' = [slots EXCEPT ![i] = q]
  BY DEF ReleaseSlot, FreeSlot, SetState
<1> HIDE DEF r, q
<1>5. CallerOK(r, q) /\ SlotOK(i, q) /\ ~Holds(r)
  BY <1>2, <1>3 DEF CallerOK, Holds, SlotOK
<1> QED
  BY <1>0, <1>1, <1>2, <1>3, <1>4, <1>5, CallerMove DEF Owed, InUse

\* Entry, and the scan that starts again: a caller without a slot.
LEMMA RpcSlotless ==
  ASSUME RpcInv, NEW c \in Callers, Call(c) \/ RetryClaim(c), work' = work
  PROVE  RpcInv'
<1>0. call[c] \in CallLocals /\ 0 \in Slots
  BY RpcAssumption DEF RpcInv, TypeInv, Slots
<1>1. ~Holds(call[c]) /\ call[c].token = 0 /\ UNCHANGED <<slots, next_correlation>>
  BY DEF RpcInv, CallerInv, CallerOK, Call, RetryClaim, Holds, CallAt
<1>2. PICK r \in CallLocals :
        /\ call' = [call EXCEPT ![c] = r] /\ r.pc \in {"idle", "try", "claim"} /\ r.token = 0
  <2>1. CASE RetryClaim(c)
    <3> DEFINE r == [call[c] EXCEPT !.slot = 0, !.pc = "claim"]
    <3>1. r \in CallLocals /\ r.pc = "claim" /\ r.token = 0
      BY <1>0, <1>1 DEF CallLocals, CallPcs
    <3> QED
      BY <2>1, <3>1 DEF RetryClaim
  <2>2. CASE Call(c) /\ publisher_count = 0
    <3> DEFINE n == call[c].calls + 1
               r == [call[c] EXCEPT !.calls = n, !.status = "kNoServer", !.value = 0]
    <3>1. call' = [call EXCEPT ![c] = r] /\ call[c].pc = "idle"
      BY <2>2 DEF Call, CallAt
    <3>2. n \in Nat
      BY <1>0 DEF CallLocals
    <3> HIDE DEF n
    <3>3. r \in CallLocals /\ r.pc = call[c].pc /\ r.token = 0
      BY <1>0, <1>1, <3>2 DEF CallLocals
    <3> HIDE DEF r
    <3> QED
      BY <3>1, <3>3
  <2>3. CASE Call(c) /\ publisher_count # 0
    <3> DEFINE n == call[c].calls + 1
               r == [call[c] EXCEPT !.calls = n, !.pc = "try"]
    <3>1. call' = [call EXCEPT ![c] = r]
      BY <2>3 DEF Call
    <3>2. n \in Nat
      BY <1>0 DEF CallLocals
    <3> HIDE DEF n
    <3>3. r \in CallLocals /\ r.pc = "try" /\ r.token = 0
      BY <1>0, <1>1, <3>2 DEF CallLocals, CallPcs
    <3> HIDE DEF r
    <3> QED
      BY <3>1, <3>3
  <2> QED
    BY <2>1, <2>2, <2>3
<1>3. ~Holds(r) /\ CallerOK(r, slots[r.slot])
  BY <1>2 DEF Holds, CallerOK
<1> QED
  BY <1>1, <1>2, <1>3, CallerQuiet

LEMMA RpcCallStep ==
  ASSUME RpcInv, NEW c \in Callers, CallStep(c)
  PROVE  RpcInv'
<1>0. work' = work /\ CallerOK(call[c], slots[call[c].slot]) /\ call[c].slot \in Slots
  BY DEF CallStep, RpcInv, CallerInv, TypeInv, CallLocals
<1>1. CASE Announce(c) \/ AwaitReply(c) \/ Wake(c)
  BY <1>0, <1>1, RpcCallGoto DEF Announce, AwaitReply, Wake, CallAt, CallPcs
<1>2. CASE Revoke(c)
  <2>1. State(call[c].slot) \in {"kPending", "kTaken", "kReplied"}
    BY <1>0, <1>2 DEF Revoke, CallAt, CallerOK, Holds, Expects, State
  <2>2. CASE State(call[c].slot) = "kPending"
    BY <1>0, <1>2, <2>2, RpcFail DEF Revoke, FreeSlot
  <2>3. CASE State(call[c].slot) # "kPending"
    BY <1>0, <1>2, <2>1, <2>3, RpcCallGoto DEF Revoke, CallAt, CallPcs
  <2> QED
    BY <2>2, <2>3
<1>3. CASE Abandon(c)
  <2>1. State(call[c].slot) \in {"kTaken", "kReplied"}
    BY <1>0, <1>3 DEF Abandon, CallAt, CallerOK, Holds, Expects, State
  <2>2. CASE CanAbandon(c)
    BY <1>0, <1>3, <2>2, RpcFail DEF Abandon, CanAbandon, Disown
  <2>3. CASE ~CanAbandon(c)
    BY <1>0, <1>3, <2>1, <2>3, RpcCallGoto DEF Abandon, CanAbandon, CallAt, CallPcs
  <2> QED
    BY <2>2, <2>3
<1> QED
  BY <1>0, <1>1, <1>2, <1>3, RpcTryClaim, RpcSlotless, RpcSubmit, RpcConsume, RpcRelease
     DEF CallStep

-----------------------------------------------------------------------------
\* The server loop preserves the invariant.

LEMMA RpcTakeRequest ==
  ASSUME RpcInv, NEW w \in Workers, TakeRequest(w), UNCHANGED <<call, next_correlation>>
  PROVE  RpcInv'
<1> DEFINE i == work[w].scan
<1>0. /\ work[w] \in WorkLocals /\ i \in Slots /\ slots[i] \in CallSlot
      /\ 0 \in Slots /\ ~Owes(work[w])
  <2>1. work[w] \in WorkLocals /\ slots \in [Slots -> CallSlot]
    BY DEF RpcInv, TypeInv
  <2>2. 0 \in Slots
    BY RpcAssumption DEF Slots
  <2>3. i \in Slots
    BY <2>1 DEF WorkLocals
  <2>4. ~Owes(work[w])
    BY DEF TakeRequest, WorkAt, Owes
  <2> QED
    BY <2>1, <2>2, <2>3, <2>4
<1>1. CASE State(i) = "kPending"
  <2> DEFINE k == slots[i].correlation
             o == [work[w] EXCEPT !.pc = "held", !.scan = 0, !.corr = k]
             q == [slots[i] EXCEPT !.state = "kTaken"]
  <2>1. /\ q \in CallSlot /\ q.state = "kTaken" /\ q.correlation = k
        /\ q.response = slots[i].response /\ k \in Nat
    BY <1>0 DEF CallSlot, SlotStates
  <2>2. o \in WorkLocals /\ o.pc = "held" /\ o.corr = k
    BY <1>0, <2>1 DEF WorkLocals, WorkPcs
  <2>3. SlotOf(k) = i
    BY <1>0, <1>1 DEF RpcInv, SlotInv, SlotOK, State
  <2>4. work' = [work EXCEPT ![w] = o] /\ slots' = [slots EXCEPT ![i] = q]
    BY <1>1 DEF TakeRequest, SetState
  <2> HIDE DEF o, q
  <2>5. WorkerOK(o, q) /\ SlotOK(i, q) /\ Owes(o)
    BY <2>1, <2>2, <2>3 DEF WorkerOK, SlotOK, Owes, Owed
  <2>6. \A r \in CallLocals : Expects(r, slots[i]) => Expects(r, q)
    BY <1>1, <2>1 DEF Expects, State
  <2> QED
    BY <1>0, <1>1, <2>1, <2>2, <2>3, <2>4, <2>5, <2>6, WorkerMove DEF InUse
<1>2. CASE State(i) # "kPending"
  <2>1. PICK o \in WorkLocals :
          work' = [work EXCEPT ![w] = o] /\ o.pc \in {"idle", "drained"}
    <3>1. CASE ~LastIndex(i)
      <4> DEFINE o == [work[w] EXCEPT !.scan = i + 1]
      <4>1. i + 1 \in Slots
        BY <1>0, <3>1, RpcAssumption DEF LastIndex, Slots
      <4>2. o \in WorkLocals /\ o.pc = work[w].pc
        BY <1>0, <4>1 DEF WorkLocals
      <4>3. work' = [work EXCEPT ![w] = o] /\ work[w].pc = "idle"
        BY <1>2, <3>1 DEF TakeRequest, WorkAt
      <4> HIDE DEF o
      <4> QED
        BY <4>2, <4>3
    <3>2. CASE LastIndex(i)
      <4> DEFINE o == [work[w] EXCEPT !.pc = "drained", !.scan = 0]
      <4>1. o \in WorkLocals /\ o.pc = "drained"
        BY <1>0 DEF WorkLocals, WorkPcs
      <4> QED
        BY <1>2, <3>2, <4>1 DEF TakeRequest
    <3> QED
      BY <3>1, <3>2
  <2>2. ~Owes(o) /\ WorkerOK(o, slots[SlotOf(o.corr)]) /\ slots' = slots
    BY <1>2, <2>1 DEF Owes, WorkerOK, TakeRequest
  <2> QED
    BY <1>0, <2>1, <2>2, WorkerQuiet
<1> QED
  BY <1>1, <1>2

\* The steps of the loop and of Reply that leave the slots alone.
LEMMA RpcWorkGoto ==
  ASSUME RpcInv, NEW w \in Workers, NEW x \in WorkPcs, WorkGoto(w, x),
         UNCHANGED <<slots, call, next_correlation>>,
         \/ {work[w].pc, x} \cap {"held", "respond", "commit", "late"} = {}
         \/ work[w].pc = "held" /\ x = "respond"
         \/ /\ work[w].pc \in {"held", "commit"} /\ x = "late"
            /\ State(SlotOf(work[w].corr)) # "kTaken"
  PROVE  RpcInv'
<1> DEFINE o == [work[w] EXCEPT !.pc = x]
<1>0. work[w] \in WorkLocals /\ WorkerOK(work[w], slots[SlotOf(work[w].corr)])
  BY DEF RpcInv, TypeInv, WorkerInv
<1>1. o \in WorkLocals /\ o.pc = x /\ o.corr = work[w].corr
  BY <1>0 DEF WorkLocals
<1>2. work' = [work EXCEPT ![w] = o]
  BY DEF WorkGoto
<1> HIDE DEF o
<1>3. Owes(o) <=> Owes(work[w])
  BY <1>1 DEF Owes
<1>4. WorkerOK(o, slots[SlotOf(o.corr)])
  BY <1>0, <1>1 DEF WorkerOK, Owes, Owed, State
<1> QED
  BY <1>1, <1>2, <1>3, <1>4, WorkerQuiet

LEMMA RpcRespond ==
  ASSUME RpcInv, NEW w \in Workers, Respond(w), UNCHANGED <<call, next_correlation>>
  PROVE  RpcInv'
<1> DEFINE k == work[w].corr
           i == SlotOf(k)
           o == [work[w] EXCEPT !.pc = "commit"]
           q == [slots[i] EXCEPT !.response = k]
<1>0. /\ work[w] \in WorkLocals /\ i \in Slots /\ slots[i] \in CallSlot /\ k \in Nat
      /\ Owes(work[w]) /\ SlotOK(i, slots[i])
      /\ slots[i].state \in Owed /\ slots[i].correlation = k
  BY DEF RpcInv, TypeInv, WorkLocals, WorkerInv, WorkerOK, SlotInv, Respond, WorkAt, Owes
<1>1. o \in WorkLocals /\ o.pc = "commit" /\ o.corr = k
  BY <1>0 DEF WorkLocals, WorkPcs
<1>2. work' = [work EXCEPT ![w] = o] /\ slots' = [slots EXCEPT ![i] = q]
  BY DEF Respond, WorkGoto
<1> HIDE DEF i, k
<1>3. /\ q \in CallSlot /\ q.state = slots[i].state
      /\ q.correlation = slots[i].correlation /\ q.response = k
  BY <1>0 DEF CallSlot
<1> HIDE DEF o, q
<1>4. WorkerOK(o, q) /\ SlotOK(i, q) /\ Owes(o)
  BY <1>0, <1>1, <1>3 DEF WorkerOK, SlotOK, Owes, Owed
<1>5. \A r \in CallLocals : Expects(r, slots[i]) => Expects(r, q)
  BY <1>3 DEF Expects
<1>6. SlotOf(work[w].corr) = i /\ SlotOf(o.corr) = i /\ State(i) = q.state
  BY <1>1, <1>3 DEF State, i, k
<1> QED
  BY <1>0, <1>1, <1>2, <1>3, <1>4, <1>5, <1>6, WorkerMove

\* A worker is done with its request: the slot is replied, or reclaimed.
LEMMA RpcDone ==
  ASSUME RpcInv, NEW w \in Workers, Replied(w), UNCHANGED <<call, next_correlation>>,
         \/ /\ WorkAt(w, "commit") /\ State(SlotOf(work[w].corr)) = "kTaken"
            /\ SetState(SlotOf(work[w].corr), "kReplied")
         \/ WorkAt(w, "late") /\ SetState(SlotOf(work[w].corr), "kFree")
  PROVE  RpcInv'
<1> DEFINE k == work[w].corr
           i == SlotOf(k)
           o == [work[w] EXCEPT !.pc = "idle", !.corr = 0]
<1>0. /\ work[w] \in WorkLocals /\ i \in Slots /\ slots[i] \in CallSlot /\ Owes(work[w])
      /\ WorkerOK(work[w], slots[i]) /\ SlotOK(i, slots[i])
  BY DEF RpcInv, TypeInv, WorkerInv, SlotInv, WorkAt, Owes
<1>1. o \in WorkLocals /\ o.pc = "idle"
  BY <1>0 DEF WorkLocals, WorkPcs
<1>2. work' = [work EXCEPT ![w] = o]
  BY DEF Replied
<1> HIDE DEF o
<1>3. ~Owes(o) /\ \A q : WorkerOK(o, q)
  BY <1>1 DEF Owes, WorkerOK
<1>4. ASSUME NEW v \in {"kReplied", "kFree"}, SetState(i, v),
             v = "kReplied" => State(i) = "kTaken" /\ slots[i].response = k,
             v = "kFree" => State(i) = "kAbandoned"
      PROVE  RpcInv'
  <2> DEFINE q == [slots[i] EXCEPT !.state = v]
  <2>1. /\ q \in CallSlot /\ q.state = v /\ q.correlation = slots[i].correlation
        /\ q.response = slots[i].response
    BY <1>0 DEF CallSlot, SlotStates
  <2>2. slots' = [slots EXCEPT ![i] = q]
    BY <1>4 DEF SetState
  <2> HIDE DEF q
  <2>3. SlotOK(i, q)
    BY <1>0, <1>4, <2>1 DEF SlotOK, State, WorkerOK
  <2>4. \A r \in CallLocals : Expects(r, slots[i]) => Expects(r, q)
    BY <1>4, <2>1 DEF Expects, State
  <2> QED
    BY <1>0, <1>1, <1>2, <1>3, <1>4, <2>1, <2>2, <2>3, <2>4, WorkerMove DEF InUse, Owed
<1>5. WorkAt(w, "commit") => slots[i].response = k
  BY <1>0 DEF WorkerOK, WorkAt
<1>6. WorkAt(w, "late") => State(i) = "kAbandoned"
  BY <1>0 DEF WorkerOK, WorkAt, State
<1> QED
  BY <1>4, <1>5, <1>6

LEMMA RpcServeStep ==
  ASSUME RpcInv, NEW w \in Workers, ServeStep(w)
  PROVE  RpcInv'
<1>0. /\ UNCHANGED <<call, next_correlation>>
      /\ Owes(work[w]) => WorkerOK(work[w], slots[SlotOf(work[w].corr)])
  BY DEF ServeStep, RpcInv, WorkerInv
<1>1. CASE WaitForWork(w) \/ WorkerWakes(w)
  BY <1>0, <1>1, RpcWorkGoto DEF WaitForWork, WorkerWakes, WorkAt, WorkPcs
<1>2. CASE Reply(w)
  BY <1>0, <1>2, RpcWorkGoto DEF Reply, WorkAt, WorkPcs, WorkerOK, Owes, State
<1>3. CASE CommitReply(w)
  BY <1>0, <1>3, RpcDone, RpcWorkGoto DEF CommitReply, CanCommit, WorkAt, WorkPcs
<1>4. CASE ReclaimSlot(w)
  <2>1. Reclaims(slots[SlotOf(work[w].corr)], work[w].corr)
    BY <1>0, <1>4 DEF ReclaimSlot, WorkAt, WorkerOK, Owes, Reclaims
  <2> QED
    BY <1>0, <1>4, <2>1, RpcDone DEF ReclaimSlot, FreeSlot
<1> QED
  BY <1>0, <1>1, <1>2, <1>3, <1>4, RpcTakeRequest, RpcRespond DEF ServeStep

LEMMA RpcNext == RpcInv /\ [Next]_vars => RpcInv'
<1> SUFFICES ASSUME RpcInv, [Next]_vars PROVE RpcInv'
  OBVIOUS
<1>1. ASSUME UNCHANGED <<slots, next_correlation, call, work>> PROVE RpcInv'
  BY <1>1 DEF RpcInv, TypeInv, CallerInv, WorkerInv, SlotInv, Unshared, State
<1>2. ASSUME NEW v \in Servers, AddServer(v) \/ RemoveServer(v) PROVE RpcInv'
  BY <1>1, <1>2 DEF AddServer, RemoveServer
<1>3. ASSUME NEW c \in Callers, AddClient(c) \/ RemoveClient(c) PROVE RpcInv'
  BY <1>3, RpcCallGoto DEF AddClient, RemoveClient, CallAt, CallPcs
<1>4. ASSUME NEW c \in Callers, Timeout(c) PROVE RpcInv'
  BY <1>4, RpcCallGoto, RpcFail DEF Timeout, ReplyExpires, CallAt, CallPcs
<1>5. ASSUME NEW c \in Callers, Call(c), UNCHANGED <<wiringVars, work>> PROVE RpcInv'
  BY <1>5, RpcSlotless
<1>6. ASSUME NEW w \in Workers, MaxParkElapses(w) PROVE RpcInv'
  BY <1>6, RpcWorkGoto DEF MaxParkElapses, ParkExpires, WorkAt, WorkPcs
<1>7. CASE UNCHANGED vars
  BY <1>1, <1>7 DEF vars
<1> QED
  BY <1>2, <1>3, <1>4, <1>5, <1>6, <1>7, RpcCallStep, RpcServeStep DEF Next

LEMMA RpcInvariant == Spec => []RpcInv
BY RpcInit, RpcNext, PTL DEF Spec

-----------------------------------------------------------------------------
\* One call per slot, for any number of threads: no two Calls share a slot and
\* the state word says exactly when a Call is in it.
THEOREM SlotExclusiveAlways == Spec => []SlotExclusive
<1>1. RpcInv => SlotExclusive
  <2> SUFFICES ASSUME RpcInv PROVE SlotExclusive
    OBVIOUS
  <2>1. \A c \in Callers : Holding(c) <=> Holds(call[c])
    BY DEF Holding, Holds
  <2>2. \A c \in Callers : Holds(call[c]) => State(call[c].slot) \in InUse
    BY DEF RpcInv, CallerInv, CallerOK, Expects, State, InUse
  <2> QED
    BY <2>1, <2>2 DEF RpcInv, Unshared, SlotInv, SlotExclusive, InUse
<1> QED
  BY <1>1, RpcInvariant, PTL

\* No slot leaks, for any number of threads: a taken or abandoned slot is owed
\* its Reply by exactly one worker.
THEOREM EverySlotOwedAlways == Spec => []EverySlotOwed
<1>1. RpcInv => EverySlotOwed
  <2> SUFFICES ASSUME RpcInv, NEW i \in Slots, State(i) \in Owed
               PROVE  \E w \in Workers :
                        /\ Owing(w) /\ work[w].corr = slots[i].correlation
                        /\ \A x \in Workers : Owing(x) /\ work[x].corr = work[w].corr
                                                => x = w
    BY DEF EverySlotOwed, Owed
  <2>1. \A w \in Workers : Owing(w) <=> Owes(work[w])
    BY DEF Owing, Owes
  <2>2. PICK w \in Workers : Owes(work[w]) /\ SlotOf(work[w].corr) = i
    BY DEF RpcInv, SlotInv
  <2>3. work[w].corr = slots[i].correlation
    BY <2>2 DEF RpcInv, WorkerInv, WorkerOK
  <2> QED
    BY <2>1, <2>2, <2>3 DEF RpcInv, Unshared
<1> QED
  BY <1>1, RpcInvariant, PTL

-----------------------------------------------------------------------------
\* Every step of the topic is a step of each caller's exchange.

Answered(c) == call[c].token # 0 /\ State(call[c].slot) = "kReplied"

\* What the exchange of c sees is left alone.
LEMMA ExchangeStutter ==
  ASSUME NEW c \in Callers, call'[c].token = call[c].token,
         call'[c].status = call[c].status, call'[c].value = call[c].value,
         Answered(c)' <=> Answered(c)
  PROVE  Exchange(c)!Step
BY DEF Exchange!Step, Exchange!vars, Answered

\* A worker answers, or does nothing the caller sees.
LEMMA ExchangeServe ==
  ASSUME RpcInv, NEW w \in Workers, ServeStep(w), NEW c \in Callers
  PROVE  Exchange(c)!Step
<1>0. slots \in [Slots -> CallSlot] /\ call[c].slot \in Slots /\ call' = call
  BY DEF RpcInv, TypeInv, CallLocals, ServeStep
<1>1. \A i \in Slots : State(i) = "kReplied" => slots'[i].state = "kReplied"
  BY <1>0 DEF ServeStep, TakeRequest, WaitForWork, WorkerWakes, Reply, Respond, CommitReply,
     CanCommit, ReclaimSlot, Reclaims, FreeSlot, SetState, State, CallSlot
<1>2. CASE Answered(c)' <=> Answered(c)
  BY <1>0, <1>2, ExchangeStutter
<1>3. CASE ~Answered(c) /\ Answered(c)'
  BY <1>0, <1>3 DEF Answered, Exchange!Step, Exchange!Next, Exchange!Answer
<1> QED
  BY <1>0, <1>1, <1>2, <1>3 DEF Answered, State

\* Another caller's step is none of c's.
LEMMA ExchangeOther ==
  ASSUME RpcInv, NEW d \in Callers, CallStep(d), NEW c \in Callers, c # d
  PROVE  Exchange(c)!Step
<1> DEFINE i == call[d].slot
<1>0. /\ slots \in [Slots -> CallSlot] /\ call \in [Callers -> CallLocals]
      /\ call[c].slot \in Slots /\ i \in Slots
  BY DEF RpcInv, TypeInv, CallLocals
<1>1. call'[c] = call[c]
  BY <1>0 DEF CallStep, TryClaim, RetryClaim, Submit, Announce, AwaitReply, Wake, Revoke,
     Abandon, Consume, ReleaseSlot, CallGoto, Fail
<1>2. \A j \in Slots \ {i} : slots'[j] = slots[j]
  BY <1>0 DEF CallStep, TryClaim, RetryClaim, Submit, Announce, AwaitReply, Wake, Revoke,
     Abandon, Consume, ReleaseSlot, FreeSlot, Disown, SetState
<1>3. Holds(call[d]) \/ State(i) = "kFree" \/ slots' = slots
  BY DEF CallStep, TryClaim, RetryClaim, Submit, Announce, AwaitReply, Wake, Revoke,
     Abandon, Consume, ReleaseSlot, CallAt, Holds
<1>4. call[c].token # 0 => Holds(call[c]) /\ State(call[c].slot) # "kFree"
  BY DEF RpcInv, CallerInv, CallerOK, Expects, State
<1>5. call[c].token # 0 => slots'[call[c].slot] = slots[call[c].slot]
  BY <1>0, <1>2, <1>3, <1>4 DEF RpcInv, Unshared
<1> QED
  BY <1>1, <1>5, ExchangeStutter DEF Answered, State

\* The steps of its own call.
LEMMA ExchangeOwn ==
  ASSUME RpcInv, NEW c \in Callers, CallStep(c)
  PROVE  Exchange(c)!Step
<1> DEFINE i == call[c].slot
<1>0. /\ slots \in [Slots -> CallSlot] /\ call \in [Callers -> CallLocals]
      /\ i \in Slots /\ call[c] \in CallLocals /\ slots[i] \in CallSlot
      /\ next_correlation \in Nat
  BY DEF RpcInv, TypeInv, CallLocals
<1>1. CallerOK(call[c], slots[i]) /\ SlotOK(i, slots[i])
  BY <1>0 DEF RpcInv, CallerInv, SlotInv
<1>2. CASE TryClaim(c) \/ RetryClaim(c)
  <2>1. /\ call[c].token = 0 /\ call'[c].token = 0
        /\ call'[c].status = call[c].status /\ call'[c].value = call[c].value
    BY <1>0, <1>1, <1>2 DEF TryClaim, RetryClaim, CallerOK, Holds, CallAt, CallGoto, CallLocals
  <2> QED
    BY <2>1, ExchangeStutter DEF Answered
<1>3. CASE Announce(c) \/ AwaitReply(c) \/ Wake(c)
  <2>1. /\ call'[c].token = call[c].token /\ call'[c].slot = i /\ slots' = slots
        /\ call'[c].status = call[c].status /\ call'[c].value = call[c].value
    BY <1>0, <1>3 DEF Announce, AwaitReply, Wake, CallGoto, CallLocals
  <2> QED
    BY <2>1, ExchangeStutter DEF Answered, State
<1>4. CASE Submit(c)
  <2> DEFINE t == Token(next_correlation + 1, i)
  <2>1. t \in Nat \ {0}
    BY <1>0, TokenFacts
  <2>2. call[c].token = 0
    BY <1>1, <1>4 DEF Submit, CallerOK, CallAt
  <2>3. /\ call' = [call EXCEPT ![c].token = t, ![c].pc = "submitted"]
        /\ slots' = [slots EXCEPT ![i].correlation = t, ![i].state = "kPending"]
    BY <1>4 DEF Submit
  <2> HIDE DEF t
  <2>4. /\ call'[c].token = t /\ call'[c].slot = i /\ slots'[i].state = "kPending"
        /\ call'[c].status = call[c].status /\ call'[c].value = call[c].value
    BY <1>0, <2>3 DEF CallLocals, CallSlot
  <2>5. ~Answered(c) /\ ~Answered(c)'
    BY <2>2, <2>4 DEF Answered, State
  <2> QED
    BY <2>1, <2>2, <2>4, <2>5 DEF Exchange!Step, Exchange!Next, Exchange!Ask, Answered
<1>5. CASE Revoke(c) \/ Abandon(c)
  <2>1. call[c].token # 0
    BY <1>1, <1>5 DEF Revoke, Abandon, CallerOK, CallAt, Holds
  <2>2. CASE Fail(c, "kDeadlineExpired") /\ State(i) # "kReplied"
    <3>1. /\ call'[c].token = 0 /\ call'[c].status = "kDeadlineExpired"
          /\ call'[c].value = 0
      BY <1>0, <2>2 DEF Fail, CallLocals
    <3>2. ~Answered(c) /\ ~Answered(c)'
      BY <2>2, <3>1 DEF Answered
    <3> QED
      BY <2>1, <3>1, <3>2 DEF Exchange!Step, Exchange!Next, Exchange!Expire,
         Exchange!Failed, Answered
  <2>3. ASSUME NEW x, CallGoto(c, x), slots' = slots PROVE Exchange(c)!Step
    <3>1. /\ call'[c].token = call[c].token /\ call'[c].slot = i
          /\ call'[c].status = call[c].status /\ call'[c].value = call[c].value
      BY <1>0, <2>3 DEF CallGoto, CallLocals
    <3> QED
      BY <2>3, <3>1, ExchangeStutter DEF Answered, State
  <2> QED
    BY <1>5, <2>2, <2>3 DEF Revoke, Abandon, CanAbandon
<1>6. CASE Consume(c)
  <2>1. /\ Answered(c) /\ slots[i].response = call[c].token
    BY <1>1, <1>6 DEF Consume, CallAt, CallerOK, Expects, Holds, SlotOK, Answered, State
  <2>2. /\ call'[c].token = call[c].token /\ call'[c].slot = i /\ slots' = slots
        /\ call'[c].status = "kOk" /\ call'[c].value = slots[i].response
    BY <1>0, <1>6 DEF Consume, CallLocals
  <2>3. Answered(c)'
    BY <2>1, <2>2 DEF Answered, State
  <2> QED
    BY <2>1, <2>2, <2>3 DEF Exchange!Step, Exchange!Next, Exchange!Read, Answered
<1>7. CASE ReleaseSlot(c)
  <2>1. /\ Answered(c) /\ call[c].status = "kOk" /\ call[c].value = call[c].token
    BY <1>1, <1>7 DEF ReleaseSlot, CallAt, CallerOK, Expects, Holds, Answered, State
  <2>2. /\ call'[c].token = 0 /\ call'[c].status = call[c].status
        /\ call'[c].value = call[c].value
    BY <1>0, <1>7 DEF ReleaseSlot, CallLocals
  <2>3. ~Answered(c)'
    BY <2>2 DEF Answered
  <2> QED
    BY <2>1, <2>2, <2>3 DEF Exchange!Step, Exchange!Next, Exchange!Return, Answered
<1> QED
  BY <1>2, <1>3, <1>4, <1>5, <1>6, <1>7 DEF CallStep

\* Entry, the wait for a slot, the two deadlines and the client's wiring.
LEMMA ExchangeEdge ==
  ASSUME RpcInv, NEW d \in Callers, NEW c \in Callers,
         AddClient(d) \/ RemoveClient(d) \/ Timeout(d) \/ Call(d)
  PROVE  Exchange(c)!Step
<1>0. call \in [Callers -> CallLocals] /\ call[c] \in CallLocals /\ slots' = slots
  BY DEF RpcInv, TypeInv, AddClient, RemoveClient, Timeout, Call
<1>1. CallerOK(call[c], slots[call[c].slot])
  BY DEF RpcInv, CallerInv
<1>2. ASSUME NEW x, CallGoto(d, x) PROVE Exchange(c)!Step
  <2>1. /\ call'[c].token = call[c].token /\ call'[c].slot = call[c].slot
        /\ call'[c].status = call[c].status /\ call'[c].value = call[c].value
    BY <1>0, <1>2 DEF CallGoto, CallLocals
  <2> QED
    BY <1>0, <2>1, ExchangeStutter DEF Answered, State
<1>3. CASE CallAt(d, "full") /\ Fail(d, "kDeadlineExpired")
  <2>1. CASE c # d
    <3>1. call'[c] = call[c]
      BY <1>0, <1>3, <2>1 DEF Fail
    <3> QED
      BY <1>0, <3>1, ExchangeStutter DEF Answered, State
  <2>2. CASE c = d
    <3>1. /\ call[c].token = 0 /\ call'[c].token = 0 /\ call'[c].value = 0
          /\ call'[c].status = "kDeadlineExpired"
      BY <1>0, <1>1, <1>3, <2>2 DEF Fail, CallAt, CallerOK, Holds, CallLocals
    <3> QED
      BY <3>1 DEF Exchange!Step, Exchange!Next, Exchange!Fail, Exchange!Failed
  <2> QED
    BY <2>1, <2>2
<1>4. CASE Call(d)
  <2>1. CASE c # d
    <3>1. call'[c] = call[c]
      BY <1>0, <1>4, <2>1 DEF Call
    <3> QED
      BY <1>0, <3>1, ExchangeStutter DEF Answered, State
  <2>2. CASE c = d
    <3>1. call[c].token = 0
      BY <1>1, <1>4, <2>2 DEF Call, CallAt, CallerOK, Holds
    <3>2. CASE publisher_count = 0
      <4>1. call'[c].token = 0 /\ call'[c].value = 0 /\ call'[c].status = "kNoServer"
        BY <1>0, <1>4, <2>2, <3>1, <3>2 DEF Call, CallLocals
      <4> QED
        BY <3>1, <4>1 DEF Exchange!Step, Exchange!Next, Exchange!Fail, Exchange!Failed
    <3>3. CASE publisher_count # 0
      <4>1. /\ call'[c].token = 0 /\ call'[c].value = call[c].value
            /\ call'[c].status = call[c].status
        BY <1>0, <1>4, <2>2, <3>1, <3>3 DEF Call, CallLocals
      <4> QED
        BY <3>1, <4>1, ExchangeStutter DEF Answered
    <3> QED
      BY <3>2, <3>3
  <2> QED
    BY <2>1, <2>2
<1> QED
  BY <1>2, <1>3, <1>4 DEF AddClient, RemoveClient, Timeout

LEMMA ExchangeNext ==
  ASSUME RpcInv, [Next]_vars, NEW c \in Callers
  PROVE  Exchange(c)!Step
<1>1. ASSUME UNCHANGED <<slots, call>> PROVE Exchange(c)!Step
  BY <1>1, ExchangeStutter DEF Answered, State
<1>2. ASSUME NEW v \in Servers, AddServer(v) \/ RemoveServer(v) PROVE Exchange(c)!Step
  BY <1>1, <1>2 DEF AddServer, RemoveServer
<1>3. ASSUME NEW w \in Workers, MaxParkElapses(w) PROVE Exchange(c)!Step
  BY <1>1, <1>3 DEF MaxParkElapses
<1>4. CASE UNCHANGED vars
  BY <1>1, <1>4 DEF vars
<1> QED
  BY <1>2, <1>3, <1>4, ExchangeServe, ExchangeOther, ExchangeOwn, ExchangeEdge DEF Next

\* Exactly one outcome for any number of threads: the six-state slot word with
\* its racing compare-exchanges implements the one-shot exchange, so a reply
\* told kOk is returned by the call it answers and by no other.
THEOREM CallsOneShotAlways == Spec => CallsOneShot
<1>1. Init => \A c \in Callers : Exchange(c)!Init
  BY DEF Init, Exchange!Init, Exchange!Failed
<1>2. RpcInv /\ [Next]_vars => [\A c \in Callers : Exchange(c)!Step]_vars
  BY ExchangeNext
<1> QED
  BY <1>1, <1>2, RpcInvariant, PTL DEF Spec, CallsOneShot

-----------------------------------------------------------------------------
\* The cells of a loan pool.

LoanRecord == [pc : {"idle", "acquire", "copy", "release"}, slot : Cells \cup {None},
               mask : SUBSET Cells, wrote : Values \cup {None}]

PoolTypes ==
  /\ in_use \subseteq Cells /\ payload \in [Cells -> Values \cup {None}]
  /\ loan \in [Handles -> LoanRecord]

\* The bits that are set and the handles that hold a cell correspond one to one;
\* a handle that is still acquiring holds none.
Correspondence ==
  /\ \A h \in Handles : loan[h].slot # None => loan[h].slot \in in_use
  /\ \A c \in in_use : \E h \in Handles : loan[h].slot = c
  /\ \A h, g \in Handles : loan[h].slot # None /\ loan[h].slot = loan[g].slot => h = g
  /\ \A h \in Handles : loan[h].pc = "acquire" => loan[h].slot = None

PoolInv == PoolTypes /\ Correspondence /\ LoanIntact

LEMMA LeastExists ==
  ASSUME NEW S \in SUBSET Nat, S # {}
  PROVE  \E x \in S : \A y \in S : x <= y
<1> DEFINE R == OpToRel(<, Nat)
<1>1. IsWellFoundedOn(R, Nat)
  BY NatLessThanWellFounded
<1>2. PICK x \in S : \A y \in S : ~(<<y, x>> \in R)
  <2> HIDE DEF R
  <2> QED
    BY <1>1, WFMin
<1>3. \A y \in S : x <= y
  <2> SUFFICES ASSUME NEW y \in S
               PROVE  x <= y
    OBVIOUS
  <2>1. ~(<<y, x>> \in {ss \in Nat \X Nat : ss[1] < ss[2]})
    BY <1>2 DEF OpToRel
  <2> QED
    BY <2>1
<1> QED
  BY <1>3

\* The lowest free cell is a free cell.
LEMMA MinIsLeast ==
  ASSUME NEW S \in SUBSET Nat, S # {}
  PROVE  Min(S) \in S /\ \A y \in S : Min(S) <= y
<1>1. PICK x \in S : \A y \in S : x <= y
  BY LeastExists
<1> QED
  BY <1>1 DEF Min

LEMMA NoLoanType == NoLoan \in LoanRecord
BY DEF NoLoan, LoanRecord

LEMMA PoolInit == LoanInit => PoolInv
BY NoLoanType DEF LoanInit, PoolInv, PoolTypes, Correspondence, LoanIntact, NoLoan

\* A handle's progress alone: its cell and what it wrote there stay.
LEMMA PoolProgress ==
  ASSUME PoolInv, NEW h \in Handles, NEW x \in LoanRecord,
         loan' = [loan EXCEPT ![h] = x], UNCHANGED <<in_use, payload>>,
         x.slot = loan[h].slot, x.wrote = loan[h].wrote, loan[h].pc # "release",
         x.pc = "acquire" => x.slot = None
  PROVE  PoolInv'
<1> USE DEF PoolInv
<1>1. PoolTypes'
  BY DEF PoolTypes
<1>2. Correspondence'
  BY DEF PoolTypes, Correspondence
<1>3. LoanIntact'
  BY DEF PoolTypes, Correspondence, LoanIntact, LoanRecord
<1> QED
  BY <1>1, <1>2, <1>3

\* A handle gives its cell back, if it holds one.
LEMMA PoolGivesBack ==
  ASSUME PoolInv, NEW h \in Handles,
         in_use' = in_use \ GivenBack(h), UNCHANGED payload,
         loan' = [loan EXCEPT ![h] = NoLoan]
  PROVE  PoolInv'
<1> USE NoLoanType DEF PoolInv
<1>1. PoolTypes'
  BY DEF PoolTypes
<1>2. Correspondence'
  BY DEF PoolTypes, Correspondence, GivenBack, NoLoan
<1>3. LoanIntact'
  BY DEF PoolTypes, LoanIntact, NoLoan
<1> QED
  BY <1>1, <1>2, <1>3

LEMMA PoolAcquire ==
  ASSUME PoolInv, NEW h \in Handles, Acquire(h)
  PROVE  PoolInv'
<1> DEFINE free == Cells \ loan[h].mask
           cell == Min(free)
<1> USE NoLoanType
<1>1. CASE free = {}
  <2>1. loan' = [loan EXCEPT ![h] = NoLoan] /\ UNCHANGED <<in_use, payload>>
    BY <1>1 DEF Acquire
  <2>2. loan[h].slot = None
    BY DEF Acquire, PoolInv, Correspondence
  <2> QED
    BY <2>1, <2>2, PoolGivesBack DEF GivenBack
<1>2. CASE free # {} /\ ~Wins(h)
  <2>1. loan' = [loan EXCEPT ![h] = [loan[h] EXCEPT !.mask = in_use]]
    BY <1>2 DEF Acquire, PoolInv, PoolTypes, LoanRecord
  <2>2. [loan[h] EXCEPT !.mask = in_use] \in LoanRecord
    BY DEF PoolInv, PoolTypes, LoanRecord
  <2> QED
    BY <1>2, <2>1, <2>2, PoolProgress DEF Acquire, PoolInv, PoolTypes, LoanRecord, Correspondence
<1>3. CASE free # {} /\ Wins(h)
  <2> DEFINE x == [NoLoan EXCEPT !.slot = cell]
  <2>1. cell \in Cells \ in_use
    <3>1. free \in SUBSET Nat
      BY LoanAssumption DEF Cells
    <3> QED
      BY <1>3, <3>1, MinIsLeast DEF Wins
  <2>2. /\ in_use' = in_use \cup {cell}
        /\ payload' = [payload EXCEPT ![cell] = None]
        /\ loan' = [loan EXCEPT ![h] = x]
    BY <1>3 DEF Acquire, Wins
  <2>3. x \in LoanRecord /\ x.slot = cell /\ x.pc = "idle" /\ x.wrote = None
    BY <2>1 DEF NoLoan, LoanRecord
  <2>4. cell # None /\ loan[h].slot = None
    BY <2>1, LoanAssumption DEF Acquire, PoolInv, Correspondence
  <2> HIDE DEF x, cell
  <2>5. PoolTypes'
    BY <2>1, <2>2, <2>3 DEF PoolInv, PoolTypes
  <2>6. Correspondence'
    <3>1. \A g \in Handles : loan'[g] = IF g = h THEN x ELSE loan[g]
      BY <2>2 DEF PoolInv, PoolTypes
    <3>2. \A g \in Handles : loan[g].slot # cell
      BY <2>1, <2>4 DEF PoolInv, Correspondence
    <3>3. \A c \in in_use' : \E g \in Handles : loan'[g].slot = c
      <4>1. ASSUME NEW c \in in_use
            PROVE  \E g \in Handles : loan'[g].slot = c
        <5>1. PICK g \in Handles : loan[g].slot = c
          BY DEF PoolInv, Correspondence
        <5>2. c # None
          BY LoanAssumption DEF PoolInv, PoolTypes
        <5> QED
          BY <2>4, <3>1, <5>1, <5>2
      <4>2. loan'[h].slot = cell
        BY <2>3, <3>1
      <4> QED
        BY <2>2, <4>1, <4>2
    <3> QED
      BY <2>2, <2>3, <2>4, <3>1, <3>2, <3>3 DEF PoolInv, Correspondence
  <2>7. LoanIntact'
    <3> SUFFICES ASSUME NEW g \in Handles, loan'[g].slot # None,
                        loan'[g].pc \in {"idle", "copy"}
                 PROVE  payload'[loan'[g].slot] = loan'[g].wrote
      BY DEF LoanIntact
    <3>1. CASE g = h
      BY <2>1, <2>2, <2>3, <3>1 DEF PoolInv, PoolTypes
    <3>2. CASE g # h
      <4>1. loan'[g] = loan[g] /\ loan[g].slot \in in_use /\ loan[g].slot # cell
        BY <2>1, <2>2, <3>2 DEF PoolInv, PoolTypes, Correspondence
      <4> QED
        BY <2>2, <4>1 DEF PoolInv, PoolTypes, LoanIntact
    <3> QED
      BY <3>1, <3>2
  <2> QED
    BY <2>5, <2>6, <2>7 DEF PoolInv
<1> QED
  BY <1>1, <1>2, <1>3

LEMMA PoolMove ==
  ASSUME PoolInv, NEW h \in Handles, NEW g \in Handles, Move(h, g)
  PROVE  PoolInv'
<1> USE NoLoanType DEF PoolInv
<1>1. PoolTypes'
  BY DEF PoolTypes, Move, MovedFrom
<1>2. Correspondence'
  BY DEF PoolTypes, Correspondence, Move, MovedFrom, GivenBack, NoLoan, HoldsLoan
<1>3. LoanIntact'
  BY DEF PoolTypes, LoanIntact, Move, MovedFrom, NoLoan, HoldsLoan
<1> QED
  BY <1>1, <1>2, <1>3

LEMMA PoolWrite ==
  ASSUME PoolInv, NEW h \in Handles, NEW v \in Values, Write(h, v)
  PROVE  PoolInv'
<1> USE DEF PoolInv
<1>1. PoolTypes'
  BY DEF PoolTypes, Write, HoldsLoan, LoanRecord
<1>2. Correspondence'
  BY DEF PoolTypes, Correspondence, Write, LoanRecord
<1>3. LoanIntact'
  BY DEF PoolTypes, Correspondence, LoanIntact, Write, HoldsLoan, LoanRecord
<1> QED
  BY <1>1, <1>2, <1>3

LEMMA PoolNext == PoolInv /\ [LoanNext]_loanVars => PoolInv'
<1> SUFFICES ASSUME PoolInv, [LoanNext]_loanVars
             PROVE  PoolInv'
  OBVIOUS
<1>1. CASE UNCHANGED loanVars
  BY <1>1 DEF loanVars, PoolInv, PoolTypes, Correspondence, LoanIntact
<1>2. ASSUME NEW h \in Handles, Loan(h)
      PROVE  PoolInv'
  <2> DEFINE x == [loan[h] EXCEPT !.pc = "acquire", !.mask = in_use]
  <2>1. x \in LoanRecord /\ loan' = [loan EXCEPT ![h] = x]
    BY <1>2 DEF Loan, PoolInv, PoolTypes, LoanRecord
  <2>2. loan[h].slot = None /\ loan[h].pc = "idle"
    BY <1>2 DEF Loan, NoLoan
  <2>3. x.slot = None /\ x.wrote = loan[h].wrote
    BY <2>2 DEF PoolInv, PoolTypes, LoanRecord
  <2> QED
    BY <1>2, <2>1, <2>2, <2>3, PoolProgress DEF Loan
<1>3. ASSUME NEW h \in Handles, Destroy(h) \/ Release(h)
      PROVE  PoolInv'
  BY <1>3, PoolGivesBack DEF Destroy, Release
<1>4. ASSUME NEW h \in Handles, NEW p \in {"copy", "release"}, loan[h].pc \in {"idle", "copy"},
             loan' = [loan EXCEPT ![h].pc = p], UNCHANGED <<in_use, payload>>
      PROVE  PoolInv'
  <2> DEFINE x == [loan[h] EXCEPT !.pc = p]
  <2>1. x \in LoanRecord /\ loan' = [loan EXCEPT ![h] = x]
    BY <1>4 DEF PoolInv, PoolTypes, LoanRecord
  <2>2. x.slot = loan[h].slot /\ x.wrote = loan[h].wrote /\ x.pc = p
    BY DEF PoolInv, PoolTypes, LoanRecord
  <2> QED
    BY <1>4, <2>1, <2>2, PoolProgress
<1>5. ASSUME NEW h \in Handles,
             PublishLoan(h) \/ \E upstream \in SUBSET DOMAIN published : CopyOut(h, upstream)
      PROVE  PoolInv'
  BY <1>4, <1>5 DEF PublishLoan, CopyOut, HoldsLoan
<1> QED
  BY <1>1, <1>2, <1>3, <1>5, PoolAcquire, PoolMove, PoolWrite DEF LoanNext

LEMMA PoolInvariant == LoanSpec => []PoolInv
BY PoolInit, PoolNext, PTL DEF LoanSpec

\* RAII for any pool and any number of threads: bits and holders correspond, so
\* no interleaving of Acquire, moves, destructors and publishes leaks a cell,
\* frees one twice or hands one out twice.
THEOREM CellsAccountedAlways == LoanSpec => []CellsAccounted
<1>1. PoolInv => CellsAccounted
  BY LoanAssumption DEF PoolInv, PoolTypes, Correspondence, CellsAccounted
<1> QED
  BY <1>1, PoolInvariant, PTL

\* The loan contract for any pool: a payload is exactly what its owner wrote
\* until the publish verb has copied it out.
THEOREM LoanIntactAlways == LoanSpec => []LoanIntact
<1>1. PoolInv => LoanIntact
  BY DEF PoolInv
<1> QED
  BY <1>1, PoolInvariant, PTL

-----------------------------------------------------------------------------
\* Lineage.

\* Min and Max of the sets a lineage is computed from.
LEMMA MinIs ==
  ASSUME NEW S \in SUBSET Nat, NEW x \in S, \A y \in S : x <= y
  PROVE  Min(S) = x
<1>1. Min(S) \in S /\ Min(S) <= x
  BY MinIsLeast
<1>2. x <= Min(S) /\ x \in Nat /\ Min(S) \in Nat
  BY <1>1
<1> QED
  BY <1>1, <1>2

LEMMA MaxIsGreatest ==
  ASSUME NEW n \in Nat, NEW S \in SUBSET (0..n), S # {}
  PROVE  Max(S) \in S /\ \A y \in S : y <= Max(S)
<1> DEFINE T == {n - x : x \in S}
<1>1. T \in SUBSET Nat /\ T # {}
  <2>1. \A x \in S : x \in 0..n
    OBVIOUS
  <2>2. \A x \in S : n - x \in Nat
    BY <2>1
  <2> QED
    BY <2>2
<1>2. PICK t \in T : \A y \in T : t <= y
  <2> HIDE DEF T
  <2> QED
    BY <1>1, LeastExists
<1>3. PICK x \in S : t = n - x
  OBVIOUS
<1>4. \A y \in S : x >= y
  <2> SUFFICES ASSUME NEW y \in S PROVE x >= y
    OBVIOUS
  <2>1. t <= n - y
    BY <1>2
  <2> QED
    BY <1>3, <2>1
<1> QED
  BY <1>4 DEF Max

\* A chain of c hops, saturated.
Saturated(c) == IF c >= kMaxHops THEN kMaxHops ELSE c

LEMMA SaturatedIsMin ==
  ASSUME NEW c \in Nat
  PROVE  Min({c, kMaxHops}) = Saturated(c)
<1>1. {c, kMaxHops} \in SUBSET Nat /\ Saturated(c) \in {c, kMaxHops}
  BY LoanAssumption DEF Saturated
<1>2. \A y \in {c, kMaxHops} : Saturated(c) <= y
  BY LoanAssumption DEF Saturated
<1> QED
  BY <1>1, <1>2, MinIs

Lineage == [origin : Nat, hops : Nat, sources : SUBSET Nat, chain : Nat]

\* The lineage r of the k-th record: it descends from records up to its own, over
\* fewer hops than there are records before it.
Ancestry(r, k) ==
  /\ r.sources \subseteq 1..k /\ r.sources # {} /\ r.origin = Min(r.sources)
  /\ r.chain \in 0..(k - 1) /\ r.hops = Saturated(r.chain)

LineageInv ==
  /\ published \in Seq(Lineage)
  /\ \A k \in 1..Len(published) : Ancestry(published[k], k)

\* The first hops the records U of P descend from, and their longest chain.
Roots(P, U)   == UNION {P[u].sources : u \in U}
Longest(P, U) == Max({P[u].chain : u \in U})

\* The oldest origin of the records U of P is their oldest first hop.
LEMMA OldestOrigin ==
  ASSUME NEW n \in Nat, NEW P, NEW U, U # {},
         \A u \in U : /\ P[u].sources \subseteq 1..n /\ P[u].sources # {}
                      /\ P[u].origin = Min(P[u].sources)
  PROVE  /\ Roots(P, U) \subseteq 1..n /\ Roots(P, U) # {} /\ Min(Roots(P, U)) \in Nat
         /\ Min({P[u].origin : u \in U}) = Min(Roots(P, U))
<1> DEFINE O == {P[u].origin : u \in U}
           T == UNION {P[u].sources : u \in U}
<1>1. ASSUME NEW u \in U
      PROVE  P[u].origin \in P[u].sources /\ \A y \in P[u].sources : P[u].origin <= y
  <2>1. P[u].sources \in SUBSET Nat
    OBVIOUS
  <2> QED
    BY <2>1, MinIsLeast
<1>2. T \subseteq 1..n /\ T # {} /\ O # {} /\ O \in SUBSET Nat
  BY <1>1
<1>3. Min(O) \in O /\ \A y \in O : Min(O) <= y
  <2> HIDE DEF O
  <2> QED
    BY <1>2, MinIsLeast
<1>4. Min(O) \in T
  BY <1>1, <1>3
<1>5. ASSUME NEW y \in T PROVE Min(O) <= y
  <2>1. PICK u \in U : y \in P[u].sources
    OBVIOUS
  <2>2. P[u].origin \in O
    OBVIOUS
  <2>3. Min(O) <= P[u].origin /\ P[u].origin <= y
    BY <1>1, <1>3, <2>1, <2>2
  <2>4. Min(O) \in Nat /\ P[u].origin \in Nat /\ y \in Nat
    BY <1>2, <1>3, <2>2
  <2> QED
    BY <2>3, <2>4
<1>6. T \in SUBSET Nat
  BY <1>2
<1>7. Min(T) = Min(O)
  <2> HIDE DEF O, T
  <2> QED
    BY <1>4, <1>5, <1>6, MinIs
<1> QED
  BY <1>2, <1>4, <1>6, <1>7 DEF Roots

\* Counting on from the largest saturated hop count upstream saturates the longest
\* chain upstream plus one.
LEMMA LongestChain ==
  ASSUME NEW n \in Nat, NEW P, NEW U, U # {},
         \A u \in U : P[u].chain \in 0..n /\ P[u].hops = Saturated(P[u].chain)
  PROVE  /\ Longest(P, U) \in 0..n
         /\ Hops({P[u].hops : u \in U}) = Saturated(Longest(P, U) + 1)
<1> DEFINE C == {P[u].chain : u \in U}
           H == {P[u].hops : u \in U}
<1>1. C \in SUBSET (0..n) /\ C # {} /\ H # {} /\ H \in SUBSET (0..kMaxHops) /\ kMaxHops \in Nat
  BY LoanAssumption DEF Saturated
<1>2. Max(C) \in C /\ \A y \in C : y <= Max(C)
  <2> HIDE DEF C
  <2> QED
    BY <1>1, MaxIsGreatest
<1>3. Max(H) \in H /\ \A y \in H : y <= Max(H)
  <2> HIDE DEF H
  <2> QED
    BY <1>1, MaxIsGreatest
<1>4. Max(C) \in 0..n /\ Max(H) \in 0..kMaxHops
  BY <1>1, <1>2, <1>3
<1>5. Max(H) = Saturated(Max(C))
  <2>1. PICK u \in U : Max(C) = P[u].chain
    BY <1>2
  <2>2. Saturated(Max(C)) <= Max(H)
    BY <1>3, <2>1
  <2>3. PICK v \in U : Max(H) = P[v].hops
    BY <1>3
  <2>4. P[v].chain <= Max(C) /\ P[v].chain \in Nat
    BY <1>2
  <2>5. Max(H) = Saturated(P[v].chain)
    BY <2>3
  <2> HIDE DEF C, H
  <2> QED
    BY <1>1, <1>4, <2>2, <2>4, <2>5 DEF Saturated
<1>6. Hops(H) = Saturated(Max(C) + 1)
  <2> HIDE DEF C, H
  <2> QED
    BY <1>1, <1>4, <1>5 DEF Hops, Saturated
<1> QED
  BY <1>4, <1>6 DEF Longest

LEMMA DerivedLineage ==
  ASSUME LineageInv, NEW U \in SUBSET DOMAIN published
  PROVE  LET r == Derived(Len(published) + 1, U)
         IN  r \in Lineage /\ Ancestry(r, Len(published) + 1)
<1> DEFINE n == Len(published)
           r == Derived(n + 1, U)
<1>0. n \in Nat /\ DOMAIN published = 1..n
  BY DEF LineageInv
<1>1. CASE U = {}
  <2>1. r = [origin |-> n + 1, hops |-> 0, sources |-> {n + 1}, chain |-> 0]
    BY <1>1 DEF Derived
  <2>2. Min({n + 1}) = n + 1
    BY <1>0, MinIs
  <2>3. Saturated(0) = 0
    BY LoanAssumption DEF Saturated
  <2> HIDE DEF r, n
  <2>4. {n + 1} \subseteq 1..(n + 1) /\ n + 1 \in Nat /\ 0 \in 0..(n + 1 - 1)
    BY <1>0
  <2>5. r \in Lineage
    BY <2>1, <2>4 DEF Lineage
  <2>6. Ancestry(r, n + 1)
    BY <2>1, <2>2, <2>3, <2>4 DEF Ancestry
  <2> QED
    BY <2>5, <2>6 DEF r, n
<1>2. CASE U # {}
  <2> DEFINE T == Roots(published, U)
             c == Longest(published, U)
  <2>1. ASSUME NEW u \in U
        PROVE  /\ published[u].sources \subseteq 1..n /\ published[u].sources # {}
               /\ published[u].origin = Min(published[u].sources)
               /\ published[u].chain \in 0..(n - 1)
               /\ published[u].hops = Saturated(published[u].chain)
    <3>1. u \in 1..n /\ Ancestry(published[u], u)
      BY <1>0 DEF LineageInv
    <3> HIDE DEF n
    <3> QED
      BY <1>0, <3>1 DEF Ancestry
  <2>2. n - 1 \in Nat
    BY <1>0, <1>2
  <2>3. /\ T \subseteq 1..n /\ T # {}
        /\ Min({published[u].origin : u \in U}) = Min(T) /\ Min(T) \in Nat
    <3> HIDE DEF n
    <3> QED
      BY <1>0, <1>2, <2>1, OldestOrigin
  <2>4. c \in 0..(n - 1) /\ Hops({published[u].hops : u \in U}) = Saturated(c + 1)
    <3> HIDE DEF n
    <3> QED
      BY <1>2, <2>1, <2>2, LongestChain
  <2>5. r = [origin |-> Min(T), hops |-> Saturated(c + 1), sources |-> T, chain |-> c + 1]
    BY <1>2, <2>3, <2>4 DEF Derived, Roots, Longest
  <2> HIDE DEF r, n, T, c
  <2>6. /\ Saturated(c + 1) \in Nat /\ c + 1 \in 0..(n + 1 - 1)
        /\ T \in SUBSET Nat /\ T \subseteq 1..(n + 1)
    BY <1>0, <2>3, <2>4, LoanAssumption DEF Saturated
  <2>7. r \in Lineage
    BY <1>0, <2>3, <2>5, <2>6 DEF Lineage
  <2>8. Ancestry(r, n + 1)
    BY <1>0, <2>3, <2>5, <2>6 DEF Ancestry
  <2> QED
    BY <2>7, <2>8 DEF r, n
<1> QED
  BY <1>1, <1>2

LEMMA LineageNext == LineageInv /\ [LoanNext]_loanVars => LineageInv'
<1> SUFFICES ASSUME LineageInv, [LoanNext]_loanVars PROVE LineageInv'
  OBVIOUS
<1>1. CASE UNCHANGED published
  BY <1>1 DEF LineageInv
<1>2. ASSUME NEW h \in Handles, NEW U \in SUBSET DOMAIN published, CopyOut(h, U)
      PROVE  LineageInv'
  <2> DEFINE n == Len(published)
             r == Derived(n + 1, U)
  <2>1. published' = Append(published, r)
    BY <1>2 DEF CopyOut
  <2>2. r \in Lineage /\ Ancestry(r, n + 1)
    BY DerivedLineage
  <2>3. published \in Seq(Lineage) /\ n \in Nat /\ \A k \in 1..n : Ancestry(published[k], k)
    BY DEF LineageInv
  <2> HIDE DEF r
  <2>4. published' \in Seq(Lineage) /\ Len(published') = n + 1
    BY <2>1, <2>2, <2>3
  <2>5. \A k \in 1..(n + 1) : published'[k] = IF k = n + 1 THEN r ELSE published[k]
    BY <2>1, <2>2, <2>3
  <2>6. \A k \in 1..(n + 1) : Ancestry(published'[k], k)
    <3> SUFFICES ASSUME NEW k \in 1..(n + 1) PROVE Ancestry(published'[k], k)
      OBVIOUS
    <3> HIDE DEF n
    <3>1. CASE k = n + 1
      BY <2>2, <2>5, <3>1
    <3>2. CASE k \in 1..n
      <4>1. k # n + 1
        BY <2>3, <3>2
      <4> QED
        BY <2>3, <2>5, <3>2, <4>1
    <3> QED
      BY <2>3, <3>1, <3>2
  <2> QED
    BY <2>4, <2>6 DEF LineageInv
<1>3. CASE \E h \in Handles, U \in SUBSET DOMAIN published : CopyOut(h, U)
  BY <1>2, <1>3
<1>4. CASE ~(\E h \in Handles, U \in SUBSET DOMAIN published : CopyOut(h, U))
  <2>1. UNCHANGED published
    BY <1>4 DEF LoanNext, loanVars, Loan, Acquire, Destroy, PublishLoan, Release, Write, Move
  <2> QED
    BY <1>1, <2>1
<1> QED
  BY <1>3, <1>4

\* D14 for pipelines of any length and width: a record's origin is the oldest
\* first hop it descends from and its hop count the longest chain to one,
\* saturated at kMaxHops (endpoints.hpp's PublishDerived).
THEOREM LineageExactAlways == LoanSpec => []LineageExact
<1>1. LoanInit => LineageInv
  BY DEF LoanInit, LineageInv
<1>2. LineageInv => LineageExact
  <2> SUFFICES ASSUME LineageInv, NEW k \in DOMAIN published
               PROVE  /\ published[k].origin = Min(published[k].sources)
                      /\ published[k].hops = Min({published[k].chain, kMaxHops})
    BY DEF LineageExact
  <2>1. k \in 1..Len(published) /\ Ancestry(published[k], k)
    BY DEF LineageInv
  <2>2. published[k].chain \in Nat
    BY <2>1 DEF Ancestry
  <2> QED
    BY <2>1, <2>2, SaturatedIsMin DEF Ancestry
<1> QED
  BY <1>1, <1>2, LineageNext, PTL DEF LoanSpec
=============================================================================
