------------------------------- MODULE Domain -------------------------------
(***************************************************************************)
(* Domain objects of one process and the in-process registries behind them:*)
(* the per-reach factories, moves, the support matrix and                  *)
(* AcquireDomainState (domain.cpp), the wiring verbs Advertise, Subscribe, *)
(* Serve and Client, the endpoint destructors and moves, the census gauges *)
(* (in_process.hpp) and the readiness barrier WaitUntilMatched.  A wiring  *)
(* verb or a destructor runs under DomainState::mutex_ and is one step; the*)
(* barrier reads one match counter per step.  What a wired endpoint then   *)
(* does is the business of Topic and RpcTopic; how the POSIX-shm reach     *)
(* wires one, and its peers, of ShmSegment and ShmTopic.                   *)
(***************************************************************************)
EXTENDS Integers, Sequences, FiniteSets, Functions

CONSTANTS
  Domains, Endpoints,   \* Domain objects and endpoint handles of the process
  KeyOf,                \* DeriveIsolationKey of the configured names
  Requests,             \* wiring requests: [verb, topic, type, ownership, history]
  HashOf,               \* schema hash of a type; two types may collide
  Flat,                 \* the trivially copyable types
  kMaxSubscribers,
  Lists,                \* endpoint lists passed to WaitUntilMatched
  MaxDeadline, MaxStates

ASSUME DomainAssumption ==
  /\ kMaxSubscribers \in Nat \ {0} /\ MaxDeadline \in Nat
  /\ MaxStates \in Nat \ {0}
  /\ IsFiniteSet(Endpoints) /\ Lists \subseteq Seq(Endpoints)
  /\ \A r \in Requests : /\ r.verb \in {"Advertise", "Subscribe", "Serve", "Client"}
                         /\ r.ownership \in {"kExclusive", "kShared"}
                         /\ r.type # "none"
  \* A state lives as long as some Domain holds it: one per Domain is enough.
  /\ IsFiniteSet(Domains) /\ Cardinality(Domains) <= MaxStates /\ "none" \notin Domains

Topics == {r.topic : r \in Requests}
Keys   == {KeyOf[name] : name \in DOMAIN KeyOf}

VARIABLES
  domain,          \* Domain objects: whether alive, reach, key and DomainState (0: none)
  weak,            \* the registry's weak reference for each key (0: none or expired)
  topics,          \* topics_ of every DomainState
  endpoint_count,  \* endpoint_count_ of every DomainState
  gauge,           \* the two telemetry gauges, last value set and by which state
  endpoint,        \* handles and their impl_
  barrier,         \* the launcher's WaitUntilMatched
  seen             \* history: endpoints matched at some point of the current pass

vars == <<domain, weak, topics, endpoint_count, gauge, endpoint, barrier, seen>>
registry == <<topics, endpoint_count, gauge>>

NoTopic == [type |-> "none", pubs |-> 0, subs |-> 0, ownership |-> "kExclusive"]
NoTopics == [n \in Topics |-> NoTopic]
\* A handle without impl_: not yet minted, destroyed or moved from; a refused one
\* is live and tied to nothing.
NoImpl  == [live |-> FALSE, request |-> [verb |-> "none"], state |-> 0, home |-> "none",
            connected |-> FALSE]
Refused == [NoImpl EXCEPT !.live = TRUE]
\* A Domain without impl_: moved from, or (not alive) destroyed.
MovedFromDomain == [alive |-> TRUE, reach |-> "moved-from", key |-> "none", state |-> 0]
NoDomain == [MovedFromDomain EXCEPT !.alive = FALSE]
States == 1..MaxStates

Init ==
  /\ domain = [d \in Domains |-> NoDomain] /\ weak = [key \in Keys |-> 0]
  /\ topics = [k \in States |-> NoTopics]
  /\ endpoint_count = [k \in States |-> 0]
  /\ gauge = [of |-> 0, endpoints |-> 0, matches |-> 0]
  /\ endpoint = [e \in Endpoints |-> NoImpl]
  /\ barrier = [pc |-> "idle", list |-> <<>>, i |-> 1, remaining |-> 0,
                home |-> "none"]
  /\ seen = {}

-----------------------------------------------------------------------------
\* Domains.

\* A Domain or a wired endpoint holds the state.
Held(k) == \/ \E d \in Domains : domain[d].state = k
           \/ \E e \in Endpoints : endpoint[e].state = k

NewState == CHOOSE k \in States : ~Held(k)

\* Mutant: every Domain makes its own state.
AcquireDomainStateAnew(key) == NewState

AcquireDomainState(key) == IF weak[key] # 0 THEN weak[key] ELSE NewState

\* The factories.
InProcess(d, name) ==
  /\ ~domain[d].alive
  /\ LET key == KeyOf[name] IN
     /\ weak' = [weak EXCEPT ![key] = AcquireDomainState(key)]
     /\ domain' = [domain EXCEPT ![d] = [alive |-> TRUE, reach |-> "in-process", key |-> key,
                                         state |-> AcquireDomainState(key)]]
  /\ UNCHANGED <<registry, endpoint, barrier>>

\* PosixShm, whose key only names segments, and the reaches without an engine
\* hold no in-process state.
Stateless(d, reach) ==
  /\ ~domain[d].alive
  /\ domain' = [domain EXCEPT ![d] = [MovedFromDomain EXCEPT !.reach = reach]]
  /\ UNCHANGED <<weak, registry, endpoint, barrier>>

PosixShm(d)    == Stateless(d, "posix-shm")
Unavailable(d) == Stateless(d, "iceoryx2")   \* or Zenoh, or PosixShm compiled out

\* An impl_ may go: no endpoint it minted is left ("endpoints must not outlive
\* the Domain that minted them") and the barrier is not waiting on it.
Expendable(d) == barrier.home # d /\ \A e \in Endpoints : endpoint[e].home # d

\* The last holder takes the state and its topics with it.
Expire ==
  LET held == {k \in States : Held(k)'} IN
  /\ weak' = [key \in Keys |-> IF weak[key] \in held THEN weak[key] ELSE 0]
  /\ topics' = [k \in States |-> IF k \in held THEN topics[k] ELSE NoTopics]
  /\ endpoint_count' = [k \in States |-> IF k \in held THEN endpoint_count[k] ELSE 0]
  /\ UNCHANGED gauge

\* ~Domain.
CloseDomain(d) ==
  /\ domain[d].alive /\ Expendable(d)
  /\ domain' = [domain EXCEPT ![d] = NoDomain]
  /\ UNCHANGED <<endpoint, barrier>>
  /\ Expire

\* Domain(Domain&&) and operator=(Domain&&): f's old impl_ is destroyed, d's
\* endpoints are now f's.
MoveDomain(d, f) ==
  /\ d # f /\ domain[d].alive /\ barrier.home # d /\ Expendable(f)
  /\ domain' = [domain EXCEPT ![f] = domain[d], ![d] = MovedFromDomain]
  /\ endpoint' = [e \in Endpoints |-> IF endpoint[e].home = d
                                      THEN [endpoint[e] EXCEPT !.home = f] ELSE endpoint[e]]
  /\ UNCHANGED barrier
  /\ Expire

Available(reach) == reach \in {"in-process", "posix-shm"}

Contracts == {"kLatestOnly", "kBoundedQueue", "kReliableQueue", "kZeroCopyLoan",
              "kLateJoinWarmStart", "kRequestResponse", "kDeadline", "kSharedOwnership"}

\* The contracts for which Supports answers yes.
Supports(reach) ==
  IF ~Available(reach) THEN {}
  ELSE IF reach = "posix-shm"
       THEN {"kLatestOnly", "kBoundedQueue", "kLateJoinWarmStart", "kDeadline"} ELSE Contracts

-----------------------------------------------------------------------------
\* Wiring.

Provides(r) == r.verb \in {"Advertise", "Serve"}

\* find-or-create: the first arrival binds the name to its type.
Entry(k, r) == LET t == topics[k][r.topic]
               IN IF t.type = "none" THEN [t EXCEPT !.type = r.type] ELSE t

\* Mutant: the schema hash alone decides.
AdmitsByHash(t, r) == HashOf[t.type] = HashOf[r.type]

\* R6: hash and typeid agree with whoever came first.
Admits(t, r) == HashOf[t.type] = HashOf[r.type] /\ t.type = r.type

\* AddPublisher's D15 gate and AddServer's one-server gate.
Refuses(t, r) ==
  /\ Provides(r) /\ t.pubs > 0
  /\ r.verb = "Serve" \/ t.ownership = "kExclusive" \/ r.ownership = "kExclusive"

\* A subscriber beyond the fan-out table is handed out unconnected.
Connects(t, r) == r.verb # "Subscribe" \/ t.subs < kMaxSubscribers

Added(t, r) ==
  IF Provides(r) THEN [t EXCEPT !.pubs = @ + 1, !.ownership = r.ownership]
  ELSE IF Connects(t, r) THEN [t EXCEPT !.subs = @ + 1] ELSE t

Removed(t, r, connected) ==
  IF Provides(r) THEN [t EXCEPT !.pubs = @ - 1]
  ELSE IF connected THEN [t EXCEPT !.subs = @ - 1] ELSE t

\* UpdateGauges of the state that changed: all states set the same two gauges.
UpdateGauges(k) ==
  gauge' = [of |-> k,
            endpoints |-> endpoint_count'[k],
            matches   |-> SumFunction([n \in Topics |->
                                         topics'[k][n].pubs * topics'[k][n].subs])]

\* A listed endpoint stays where it is until the barrier returns.
Busy(e) == \E i \in DOMAIN barrier.list : barrier.list[i] = e

\* Mutant: shared ownership is accepted over shared memory.
ShmRefusesQueues(r) ==
  \/ r.verb \in {"Serve", "Client"} \/ r.type \notin Flat
  \/ r.verb = "Advertise" /\ r.history = "reliable queue"
  \/ r.verb = "Subscribe" /\ r.history = "deep queue"

\* What the POSIX-shm reach refuses before any segment is touched: RPC, types
\* that are not trivially copyable, and the QoS it does not carry.
ShmRefuses(r) ==
  \/ r.verb \in {"Serve", "Client"} \/ r.type \notin Flat
  \/ r.verb = "Advertise" /\ (r.history = "reliable queue" \/ r.ownership = "kShared")
  \/ r.verb = "Subscribe" /\ r.history = "deep queue"

\* Whether a wiring verb goes on to register the endpoint, in the registry or in
\* a segment; otherwise its handle keeps the status kUnsupportedReach.
Reaches(reach, r) ==
  reach = "in-process" \/ (reach = "posix-shm" /\ ~ShmRefuses(r))

\* Advertise, Subscribe, Serve and Client: refused by the reach, by the segment,
\* by type or by ownership, or registered, counted and gauged.
Wire(e, d, r) ==
  /\ ~endpoint[e].live /\ ~Busy(e) /\ domain[d].alive
  /\ LET k == domain[d].state
         t == Entry(k, r)
         impl(c) == [live |-> TRUE, request |-> r, state |-> k, home |-> d, connected |-> c]
     IN \/ /\ ~Reaches(domain[d].reach, r) \/ k = 0
           /\ endpoint' = [endpoint EXCEPT ![e] = Refused]
           /\ UNCHANGED registry
        \/ /\ Reaches(domain[d].reach, r) /\ k = 0
           /\ endpoint' = [endpoint EXCEPT ![e] = impl(TRUE)]
           /\ UNCHANGED registry
        \/ /\ Reaches(domain[d].reach, r) /\ k # 0
           /\ ~Admits(t, r) \/ Refuses(t, r)
           /\ topics' = [topics EXCEPT ![k][r.topic] = t]
           /\ endpoint' = [endpoint EXCEPT ![e] = Refused]
           /\ UNCHANGED <<endpoint_count, gauge>>
        \/ /\ Reaches(domain[d].reach, r) /\ k # 0
           /\ Admits(t, r) /\ ~Refuses(t, r)
           /\ topics' = [topics EXCEPT ![k][r.topic] = Added(t, r)]
           /\ endpoint_count' = [endpoint_count EXCEPT ![k] = @ + 1]
           /\ UpdateGauges(k)
           /\ endpoint' = [endpoint EXCEPT ![e] = impl(Connects(t, r))]
  /\ UNCHANGED <<domain, weak, barrier>>

Advertise(e, d, r) == r.verb = "Advertise" /\ Wire(e, d, r)
Subscribe(e, d, r) == r.verb = "Subscribe" /\ Wire(e, d, r)
Serve(e, d, r)     == r.verb = "Serve" /\ Wire(e, d, r)
Client(e, d, r)    == r.verb = "Client" /\ Wire(e, d, r)

\* The typed destructors: only a registered endpoint unregisters.
Unregister(e) ==
  LET x == endpoint[e] IN
  IF x.state # 0
  THEN /\ topics' = [topics EXCEPT ![x.state][x.request.topic] =
                       Removed(@, x.request, x.connected)]
       /\ endpoint_count' = [endpoint_count EXCEPT ![x.state] = @ - 1]
       /\ UpdateGauges(x.state)
  ELSE UNCHANGED registry

Destroy(e) ==
  /\ endpoint[e].live /\ ~Busy(e)
  /\ Unregister(e)
  /\ endpoint' = [endpoint EXCEPT ![e] = NoImpl]
  /\ UNCHANGED <<domain, weak, barrier>>

\* Mutant: the moved-from handle keeps its impl_.
MovedFromKept(e) == endpoint[e]

MovedFrom(e) == NoImpl

\* Endpoint(Endpoint&&) and operator=(Endpoint&&): f's old impl_ is destroyed.
Move(e, f) ==
  /\ e # f /\ endpoint[e].live /\ ~Busy(e) /\ ~Busy(f)
  /\ Unregister(f)
  /\ endpoint' = [endpoint EXCEPT ![f] = endpoint[e], ![e] = MovedFrom(e)]
  /\ UNCHANGED <<domain, weak, barrier>>

-----------------------------------------------------------------------------
\* WaitUntilMatched.

\* The values MatchedCount may return: the peers on the topic; 0 for a refused or
\* moved-from handle; for one over shared memory the live peers of its segment,
\* any number.
MatchedCounts(e) ==
  LET x == endpoint[e] IN
  IF x.home = "none" THEN {0}
  ELSE IF x.state = 0 THEN {0, 1}
  ELSE LET t == topics[x.state][x.request.topic]
       IN {IF Provides(x.request) THEN t.subs ELSE t.pubs}

\* kMatched is returned after a pass, kDeadlineExpired after a look at the clock.
Return == barrier' = [pc |-> "idle", list |-> <<>>, i |-> 1, remaining |-> 0, home |-> "none"]

\* On an unavailable reach the answer is immediate.
WaitUntilMatched(d, list, deadline) ==
  /\ barrier.pc = "idle" /\ domain[d].alive
  /\ barrier' = IF ~Available(domain[d].reach) THEN barrier
                ELSE [pc |-> "poll", list |-> list, i |-> 1, remaining |-> deadline, home |-> d]
  /\ UNCHANGED <<domain, weak, registry, endpoint>>

\* all_matched: one endpoint after the other, up to the first without a peer.
PollEndpoint ==
  /\ barrier.pc = "poll"
  /\ IF barrier.i > Len(barrier.list) THEN Return
     ELSE \E count \in MatchedCounts(barrier.list[barrier.i]) :
            barrier' = IF count > 0 THEN [barrier EXCEPT !.i = @ + 1]
                       ELSE [barrier EXCEPT !.pc = "unmatched"]
  /\ UNCHANGED <<domain, weak, registry, endpoint>>

\* Mutant: the deadline is never looked at.
ExpiredNever == FALSE

Expired == barrier.remaining = 0

CheckDeadline ==
  /\ barrier.pc = "unmatched"
  /\ IF Expired THEN Return
     ELSE barrier' = [barrier EXCEPT !.pc = "asleep"]
  /\ UNCHANGED <<domain, weak, registry, endpoint>>

\* Mutant: the next pass resumes at the endpoint that had no peer.
PassStartResumed == barrier.i

PassStart == 1

Wake ==
  /\ barrier.pc = "asleep"
  /\ barrier' = [barrier EXCEPT !.pc = "poll", !.i = PassStart]
  /\ UNCHANGED <<domain, weak, registry, endpoint>>

\* The monotonic clock.
Tick ==
  /\ barrier.pc # "idle" /\ barrier.remaining > 0
  /\ barrier' = [barrier EXCEPT !.remaining = @ - 1]
  /\ UNCHANGED <<domain, weak, registry, endpoint>>

-----------------------------------------------------------------------------
\* History: `seen' restarts with every pass of the barrier.
Observe ==
  LET matched == {e \in Endpoints : Busy(e)' /\ MatchedCounts(e)' # {0}}
  IN seen' = IF barrier'.pc = "idle" THEN {}
             ELSE IF barrier.pc # "poll" /\ barrier'.pc = "poll" THEN matched
             ELSE seen \cup matched

Step ==
  \/ \E d \in Domains, name \in DOMAIN KeyOf : InProcess(d, name)
  \/ \E d \in Domains : PosixShm(d) \/ Unavailable(d) \/ CloseDomain(d)
  \/ \E d, f \in Domains : MoveDomain(d, f)
  \/ \E e \in Endpoints, d \in Domains, r \in Requests :
       Advertise(e, d, r) \/ Subscribe(e, d, r) \/ Serve(e, d, r) \/ Client(e, d, r)
  \/ \E e \in Endpoints : Destroy(e) \/ \E f \in Endpoints : Move(e, f)
  \/ \E d \in Domains, list \in Lists : WaitUntilMatched(d, list, MaxDeadline)
  \/ PollEndpoint \/ CheckDeadline \/ Wake \/ Tick

Next == Step /\ Observe

\* The launcher's thread runs and the clock advances.
Fairness == WF_vars((PollEndpoint \/ CheckDeadline \/ Wake) /\ Observe)
            /\ WF_vars(Tick /\ Observe)

Spec == Init /\ [][Next]_vars /\ Fairness

-----------------------------------------------------------------------------
\* Properties.

\* The endpoints in the registry of state k.
Wired(k) == {e \in Endpoints : endpoint[e].state = k}

\* D17: in-process Domains share a registry if and only if their names derive
\* one key, and every endpoint lives in its Domain's, although Domains are moved
\* and states die with their last holder and are made anew.
SharedRegistry ==
  LET InProcessDomains == {d \in Domains : domain[d].state # 0} IN
  /\ \A d, f \in InProcessDomains :
       domain[d].key = domain[f].key <=> domain[d].state = domain[f].state
  /\ \A k \in States : \A e \in Wired(k) :
       endpoint[e].home \in Domains /\ domain[endpoint[e].home].state = k

\* R6: endpoints wired to one name carry one type, whoever arrived first, also
\* when schema hashes collide and when RPC and pub/sub meet on a name.
TypeAgreement ==
  \A k \in States : \A e, f \in Wired(k) :
    endpoint[e].request.topic = endpoint[f].request.topic =>
      endpoint[e].request.type = endpoint[f].request.type

\* The endpoints that either side of a topic counts.
Connected(k, n) == {e \in Wired(k) : endpoint[e].request.topic = n /\ endpoint[e].connected}
Providers(k, n) == {e \in Connected(k, n) : Provides(endpoint[e].request)}
Users(k, n)     == {e \in Connected(k, n) : ~Provides(endpoint[e].request)}

\* The census is exact: the counters of every topic tell the endpoints that are
\* wired to it, and the gauges those of the state that set them last, after
\* refusals, moves, unconnected subscribers and destructors in any order and
\* across generations of the registry.
CensusExact ==
  /\ \A k \in States, n \in Topics :
       /\ topics[k][n].pubs = Cardinality(Providers(k, n))
       /\ topics[k][n].subs = Cardinality(Users(k, n))
  /\ gauge.of # 0 =>
       /\ gauge.endpoints = Cardinality(Wired(gauge.of))
       /\ gauge.matches = SumFunction([n \in Topics |->
             Cardinality(Providers(gauge.of, n)) * Cardinality(Users(gauge.of, n))])

\* The contracts an endpoint relies on; ownership and reliability are the
\* publisher's to declare.
Needs(r) ==
  IF r.verb \in {"Serve", "Client"} THEN {"kRequestResponse"}
  ELSE   {IF r.history = "latest-only" THEN "kLatestOnly" ELSE "kBoundedQueue"}
         \cup {c \in {"kSharedOwnership"} : r.verb = "Advertise" /\ r.ownership = "kShared"}
         \cup {c \in {"kReliableQueue"} : r.verb = "Advertise" /\ r.history = "reliable queue"}

\* M6-A6 and M8-A2, "where the answer is no, the library never silently
\* emulates": an endpoint in service relies on no contract that Supports denies,
\* asked of the Domain it is at home in, which may have been moved since.
SupportsHonest ==
  \A e \in Endpoints : endpoint[e].home \in Domains =>
    Needs(endpoint[e].request) \subseteq Supports(domain[endpoint[e].home].reach)

\* D16: kMatched is returned only if every listed endpoint had a peer at some
\* point of the last pass; a match that ended before that pass does not count.
BarrierHonest ==
  [][barrier.pc = "poll" /\ barrier'.pc = "idle" =>
       \A i \in DOMAIN barrier.list : barrier.list[i] \in seen]_vars

\* D16: the barrier is bounded, whatever the peers do meanwhile.
BarrierReturns == barrier.pc # "idle" ~> barrier.pc = "idle"
=============================================================================
