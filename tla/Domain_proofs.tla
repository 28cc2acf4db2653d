--------------------------- MODULE Domain_proofs ---------------------------
(***************************************************************************)
(* Proofs about Domain, for any number of Domain objects, endpoints, keys, *)
(* types and requests.                                                     *)
(***************************************************************************)
EXTENDS Domain, FiniteSetTheorems, TLAPS

Reach == {"in-process", "posix-shm", "iceoryx2", "moved-from"}
Types == {r.type : r \in Requests}

DomainRecord   == [alive : BOOLEAN, reach : Reach, key : Keys \cup {"none"}, state : 0..MaxStates]
TopicRecord    == [type : Types \cup {"none"}, pubs : Int, subs : Int,
                   ownership : {"kExclusive", "kShared"}]
EndpointRecord == [live : BOOLEAN, request : Requests \cup {[verb |-> "none"]},
                   state : 0..MaxStates, home : Domains \cup {"none"}, connected : BOOLEAN]

TypeOK ==
  /\ domain \in [Domains -> DomainRecord] /\ weak \in [Keys -> 0..MaxStates]
  /\ topics \in [States -> [Topics -> TopicRecord]]
  /\ endpoint_count \in [States -> Int]
  /\ endpoint \in [Endpoints -> EndpointRecord]

\* A Domain is on the in-process reach if and only if it holds a state, and that
\* is the one the registry has for its key.
DomainAt(d) ==
  /\ domain[d].reach = "in-process" <=> domain[d].state # 0
  /\ domain[d].alive \/ domain[d].reach = "moved-from"
  /\ domain[d].state # 0 => domain[d].key \in Keys /\ weak[domain[d].key] = domain[d].state

\* The registry has no state that no Domain holds.
WeakAt(key) == weak[key] # 0 =>
                 \E d \in Domains : domain[d].state = weak[key] /\ domain[d].key = key

OneKey(d, f) == domain[d].state # 0 /\ domain[d].state = domain[f].state =>
                  domain[d].key = domain[f].key

\* An endpoint in service was admitted by the reach of the Domain it is at home
\* in and is tied to the state of that Domain.
HomeAt(e) ==
  LET x == endpoint[e] IN
  IF x.home = "none" THEN x.state = 0
  ELSE /\ x.live /\ x.request \in Requests /\ x.state = domain[x.home].state
       /\ Reaches(domain[x.home].reach, x.request)

RegistryInv ==
  /\ \A d \in Domains : DomainAt(d) /\ \A f \in Domains : OneKey(d, f)
  /\ \A key \in Keys : WeakAt(key)
  /\ \A e \in Endpoints : HomeAt(e)

\* A wired endpoint carries the type its topic is bound to; only subscribers are
\* ever left unconnected.
TypesAt(e) ==
  LET x == endpoint[e] IN
  x.state # 0 => /\ topics[x.state][x.request.topic].type = x.request.type
                 /\ x.request.verb = "Subscribe" \/ x.connected

TypesInv == \A e \in Endpoints : TypesAt(e)

\* The counters of state k, and the gauges if k set them last.
CountAt(k) ==
  /\ endpoint_count[k] = Cardinality(Wired(k))
  /\ \A n \in Topics : /\ topics[k][n].pubs = Cardinality(Providers(k, n))
                       /\ topics[k][n].subs = Cardinality(Users(k, n))

Pairs(k) == [n \in Topics |-> Cardinality(Providers(k, n)) * Cardinality(Users(k, n))]

GaugeAt(k) ==
  gauge.of = k => gauge.endpoints = Cardinality(Wired(k)) /\ gauge.matches = SumFunction(Pairs(k))

CensusInv == /\ gauge.of \in 0..MaxStates
             /\ \A k \in States : CountAt(k) /\ GaugeAt(k)

BarrierRecord == [pc : {"idle", "poll", "unmatched", "asleep"}, list : Seq(Endpoints), i : Nat,
                  remaining : Int, home : Domains \cup {"none"}]

\* The endpoints the current pass has left behind had a peer during it.
BarrierInv ==
  /\ barrier \in BarrierRecord
  /\ barrier.pc = "poll" =>
       \A j \in DOMAIN barrier.list : j < barrier.i => barrier.list[j] \in seen

-----------------------------------------------------------------------------

\* No endpoint is at home in a Domain that is gone.
LEMMA HomeAlive ==
  ASSUME TypeOK, RegistryInv, NEW e \in Endpoints, endpoint[e].home # "none"
  PROVE  /\ endpoint[e].home \in Domains /\ domain[endpoint[e].home].alive
         /\ domain[endpoint[e].home].reach # "moved-from"
BY DEF TypeOK, EndpointRecord, RegistryInv, HomeAt, DomainAt, Reaches

LEMMA HeldBy ==
  ASSUME TypeOK, RegistryInv, NEW k \in States
  PROVE  Held(k) <=> \E d \in Domains : domain[d].state = k
BY HomeAlive DEF Held, RegistryInv, HomeAt, States

\* A Domain that is made finds a state: there are as many as Domains.
LEMMA FreshState ==
  ASSUME TypeOK, RegistryInv, NEW d \in Domains, ~domain[d].alive
  PROVE  NewState \in States /\ ~Held(NewState)
<1>1. ASSUME \A k \in States : Held(k) PROVE FALSE
  <2> DEFINE T == Domains \ {d}
             f == [k \in States |-> CHOOSE x \in T : domain[x].state = k]
  <2>1. \A k \in States : \E x \in T : domain[x].state = k
    BY <1>1, HeldBy DEF RegistryInv, DomainAt, States
  <2>2. f \in [States -> T] /\ \A k \in States : domain[f[k]].state = k
    BY <2>1
  <2>3. IsFiniteSet(States) /\ Cardinality(States) = MaxStates
    BY FS_Interval, DomainAssumption DEF States
  <2>4. /\ IsFiniteSet(T) /\ Cardinality(T) = Cardinality(Domains) - 1
        /\ Cardinality(Domains) \in Nat
    BY FS_RemoveElement, FS_CardinalityType, DomainAssumption
  <2>5. Cardinality(T) < Cardinality(States)
    BY <2>3, <2>4, DomainAssumption
  <2> HIDE DEF f, T
  <2>6. \E x, y \in States : x # y /\ f[x] = f[y]
    BY <2>2, <2>3, <2>4, <2>5, FS_PigeonHole
  <2> QED
    BY <2>2, <2>6
<1> QED
  BY <1>1 DEF NewState

-----------------------------------------------------------------------------
\* Domains are made, moved and destroyed.

LEMMA Sizes == MaxStates \in Nat /\ 0 \in 0..MaxStates /\ States = (0..MaxStates) \ {0}
BY DomainAssumption DEF States

LEMMA KeyOfName ==
  ASSUME NEW name \in DOMAIN KeyOf
  PROVE  KeyOf[name] \in Keys
BY DEF Keys

LEMMA MakeInProcess ==
  ASSUME TypeOK, RegistryInv, NEW d \in Domains, NEW name \in DOMAIN KeyOf, InProcess(d, name)
  PROVE  TypeOK' /\ RegistryInv'
<1> DEFINE key == KeyOf[name]
           k == AcquireDomainState(key)
           r == [alive |-> TRUE, reach |-> "in-process", key |-> key, state |-> k]
<1>0. key \in Keys /\ UNCHANGED <<topics, endpoint_count, endpoint>>
  BY KeyOfName DEF InProcess, registry
<1>1. k \in States /\ k # 0 /\ (weak[key] # 0 => k = weak[key]) /\ (weak[key] = 0 => ~Held(k))
  BY <1>0, FreshState DEF InProcess, AcquireDomainState, TypeOK, States
<1>2. /\ weak' = [weak EXCEPT ![key] = k] /\ domain' = [domain EXCEPT ![d] = r]
      /\ ~domain[d].alive
  BY DEF InProcess
<1> HIDE DEF k, key
<1>3. /\ r \in DomainRecord /\ r.alive /\ r.reach = "in-process" /\ r.key = key
      /\ r.state = k
  BY <1>0, <1>1 DEF DomainRecord, Reach, States
<1> HIDE DEF r
<1>4. TypeOK'
  BY <1>0, <1>1, <1>2, <1>3 DEF TypeOK, States
<1>5. /\ domain'[d] = r /\ \A f \in Domains : f # d => domain'[f] = domain[f]
      /\ weak'[key] = k /\ \A x \in Keys : x # key => weak'[x] = weak[x]
  BY <1>0, <1>2 DEF TypeOK
<1>6. domain[d].state = 0 /\ domain[d].reach = "moved-from"
  BY <1>2 DEF RegistryInv, DomainAt
<1>7. \A f \in Domains : domain[f].state = k => domain[f].key = key
  BY <1>0, <1>1, HeldBy DEF RegistryInv, WeakAt, OneKey, Held, States
<1>8. \A f \in Domains : DomainAt(f)'
  BY <1>0, <1>1, <1>3, <1>5, <1>7 DEF RegistryInv, DomainAt
<1>9. \A f, g \in Domains : OneKey(f, g)'
  BY <1>3, <1>5, <1>7 DEF RegistryInv, OneKey
<1>10. \A x \in Keys : WeakAt(x)'
  BY <1>3, <1>5, <1>6 DEF RegistryInv, WeakAt
<1>11. \A e \in Endpoints : HomeAt(e)'
  BY <1>0, <1>2, <1>5, HomeAlive DEF RegistryInv, HomeAt
<1> QED
  BY <1>4, <1>8, <1>9, <1>10, <1>11 DEF RegistryInv

LEMMA MakeStateless ==
  ASSUME TypeOK, RegistryInv, NEW d \in Domains, NEW reach \in Reach \ {"in-process"},
         Stateless(d, reach)
  PROVE  TypeOK' /\ RegistryInv'
<1> DEFINE r == [MovedFromDomain EXCEPT !.reach = reach]
<1>1. /\ domain' = [domain EXCEPT ![d] = r] /\ ~domain[d].alive
      /\ UNCHANGED <<weak, topics, endpoint_count, endpoint>>
  BY DEF Stateless, registry
<1>2. r \in DomainRecord /\ r.alive /\ r.reach # "in-process" /\ r.state = 0
  BY Sizes DEF DomainRecord, MovedFromDomain
<1> HIDE DEF r
<1>3. TypeOK'
  BY <1>1, <1>2 DEF TypeOK
<1>4. domain'[d] = r /\ \A f \in Domains : f # d => domain'[f] = domain[f]
  BY <1>1 DEF TypeOK
<1>5. domain[d].state = 0
  BY <1>1 DEF RegistryInv, DomainAt
<1>6. \A f \in Domains : DomainAt(f)'
  BY <1>1, <1>2, <1>4 DEF RegistryInv, DomainAt
<1>7. \A f, g \in Domains : OneKey(f, g)'
  BY <1>2, <1>4 DEF RegistryInv, OneKey
<1>8. \A x \in Keys : WeakAt(x)'
  BY <1>1, <1>4, <1>5 DEF RegistryInv, WeakAt
<1>9. \A e \in Endpoints : HomeAt(e)'
  BY <1>1, <1>4, HomeAlive DEF RegistryInv, HomeAt
<1> QED
  BY <1>3, <1>6, <1>7, <1>8, <1>9 DEF RegistryInv

\* What Expire leaves of the registry.
LEMMA Expires ==
  ASSUME TypeOK, Expire
  PROVE  /\ weak' \in [Keys -> 0..MaxStates]
         /\ topics' \in [States -> [Topics -> TopicRecord]]
         /\ endpoint_count' \in [States -> Int]
         /\ \A key \in Keys : weak'[key] \in {weak[key], 0}
         /\ \A k \in States, key \in Keys : weak[key] = k => (weak'[key] = k <=> Held(k)')
         /\ \A k \in States : /\ topics'[k] = (IF Held(k)' THEN topics[k] ELSE NoTopics)
                               /\ endpoint_count'[k] = (IF Held(k)' THEN endpoint_count[k] ELSE 0)
         /\ UNCHANGED gauge
<1>1. NoTopics \in [Topics -> TopicRecord]
  BY DEF NoTopics, NoTopic, TopicRecord
<1> DEFINE held == {k \in States : Held(k)'}
<1>2. /\ weak' = [key \in Keys |-> IF weak[key] \in held THEN weak[key] ELSE 0]
      /\ topics' = [k \in States |-> IF k \in held THEN topics[k] ELSE NoTopics]
      /\ endpoint_count' = [k \in States |-> IF k \in held THEN endpoint_count[k] ELSE 0]
      /\ UNCHANGED gauge
  BY DEF Expire
<1>3. \A k : k \in held <=> k \in States /\ Held(k)'
  OBVIOUS
<1> HIDE DEF held
<1>4. weak' \in [Keys -> 0..MaxStates]
  BY <1>2, Sizes DEF TypeOK
<1>5. topics' \in [States -> [Topics -> TopicRecord]] /\ endpoint_count' \in [States -> Int]
  BY <1>1, <1>2 DEF TypeOK
<1>6. /\ \A key \in Keys : weak'[key] \in {weak[key], 0}
      /\ \A k \in States, key \in Keys : weak[key] = k => (weak'[key] = k <=> k \in held)
  BY <1>2, Sizes
<1>7. \A k \in States : /\ topics'[k] = (IF k \in held THEN topics[k] ELSE NoTopics)
                        /\ endpoint_count'[k] = (IF k \in held THEN endpoint_count[k] ELSE 0)
  BY <1>2
<1> QED
  BY <1>2, <1>3, <1>4, <1>5, <1>6, <1>7

LEMMA Close ==
  ASSUME TypeOK, RegistryInv, NEW d \in Domains, CloseDomain(d)
  PROVE  TypeOK' /\ RegistryInv'
<1>1. /\ domain' = [domain EXCEPT ![d] = NoDomain] /\ UNCHANGED endpoint /\ Expire
      /\ \A e \in Endpoints : endpoint[e].home # d
  BY DEF CloseDomain, Expendable
<1>2. /\ NoDomain \in DomainRecord /\ NoDomain.reach = "moved-from" /\ NoDomain.state = 0
  BY Sizes DEF DomainRecord, NoDomain, MovedFromDomain, Reach
<1>3. TypeOK'
  BY <1>1, <1>2, Expires DEF TypeOK
<1>4. domain'[d] = NoDomain /\ \A f \in Domains : f # d => domain'[f] = domain[f]
  BY <1>1 DEF TypeOK
<1>5. \A e \in Endpoints : HomeAt(e)'
  BY <1>1, <1>4, HomeAlive DEF RegistryInv, HomeAt
<1>6. \A k \in States, f \in Domains : domain'[f].state = k => Held(k)'
  BY DEF Held
<1>7. \A k \in States : Held(k)' => \E f \in Domains : f # d /\ domain[f].state = k
  BY <1>1, <1>2, <1>4, HomeAlive DEF Held, RegistryInv, HomeAt, States
<1>8. \A f \in Domains : DomainAt(f)'
  <2>1. ASSUME NEW f \in Domains, f # d PROVE DomainAt(f)'
    <3>1. DomainAt(f) /\ domain'[f] = domain[f]
      BY <1>4, <2>1 DEF RegistryInv
    <3>2. domain[f].state # 0 => weak'[domain[f].key] = domain[f].state
      <4>1. domain[f].state \in 0..MaxStates
        BY DEF TypeOK, DomainRecord
      <4> QED
        BY <1>1, <1>6, <3>1, <4>1, Expires, Sizes DEF DomainAt
    <3> QED
      BY <3>1, <3>2 DEF DomainAt
  <2> QED
    BY <1>2, <1>4, <2>1 DEF DomainAt
<1>9. \A f, g \in Domains : OneKey(f, g)'
  BY <1>2, <1>4 DEF RegistryInv, OneKey
<1>10. ASSUME NEW x \in Keys PROVE WeakAt(x)'
  <2>1. weak[x] \in 0..MaxStates /\ weak'[x] \in {weak[x], 0}
    BY <1>1, Expires DEF TypeOK
  <2>2. CASE weak'[x] # 0
    <3>1. weak'[x] = weak[x] /\ weak[x] \in States
      BY <2>1, <2>2, Sizes
    <3>2. PICK f \in Domains : f # d /\ domain[f].state = weak[x]
      BY <1>1, <1>7, <3>1, Expires
    <3>3. domain[f].key = x
      BY <2>2, <3>1, <3>2 DEF RegistryInv, WeakAt, OneKey
    <3> QED
      BY <1>4, <3>1, <3>2, <3>3 DEF WeakAt
  <2> QED
    BY <2>2 DEF WeakAt
<1> QED
  BY <1>3, <1>5, <1>8, <1>9, <1>10 DEF RegistryInv

\* Moving a Domain takes its endpoints along; none is at home in the target.
LEMMA MoveHomes ==
  ASSUME TypeOK, RegistryInv, NEW d \in Domains, NEW f \in Domains, MoveDomain(d, f),
         NEW e \in Endpoints
  PROVE  /\ endpoint' \in [Endpoints -> EndpointRecord]
         /\ endpoint'[e].home = (IF endpoint[e].home = d THEN f ELSE endpoint[e].home)
         /\ endpoint[e].home # f
         /\ endpoint'[e].live = endpoint[e].live /\ endpoint'[e].request = endpoint[e].request
         /\ endpoint'[e].state = endpoint[e].state
         /\ endpoint'[e].connected = endpoint[e].connected
<1> DEFINE r(x) == [endpoint[x] EXCEPT !.home = f]
<1>1. ASSUME NEW x \in Endpoints
      PROVE  /\ r(x) \in EndpointRecord /\ r(x).home = f /\ r(x).live = endpoint[x].live
             /\ r(x).request = endpoint[x].request /\ r(x).state = endpoint[x].state
             /\ r(x).connected = endpoint[x].connected
  BY DEF TypeOK, EndpointRecord
<1>2. endpoint' = [x \in Endpoints |-> IF endpoint[x].home = d THEN r(x) ELSE endpoint[x]]
  BY DEF MoveDomain
<1>3. endpoint[e].home # f
  BY DEF MoveDomain, Expendable
<1> HIDE DEF r
<1> QED
  BY <1>1, <1>2, <1>3 DEF TypeOK

LEMMA MoveD ==
  ASSUME TypeOK, RegistryInv, NEW d \in Domains, NEW f \in Domains, MoveDomain(d, f)
  PROVE  TypeOK' /\ RegistryInv'
<1>1. /\ domain' = [domain EXCEPT ![f] = domain[d], ![d] = MovedFromDomain] /\ Expire
      /\ d # f /\ domain[d].alive
  BY DEF MoveDomain
<1>2. /\ MovedFromDomain \in DomainRecord /\ MovedFromDomain.reach = "moved-from"
      /\ MovedFromDomain.alive /\ MovedFromDomain.state = 0
  BY Sizes DEF DomainRecord, MovedFromDomain, Reach
<1>3. TypeOK'
  <2>1. domain' \in [Domains -> DomainRecord]
    BY <1>1, <1>2 DEF TypeOK
  <2>2. endpoint' \in [Endpoints -> EndpointRecord]
    BY MoveHomes DEF TypeOK, MoveDomain
  <2> QED
    BY <1>1, <2>1, <2>2, Expires DEF TypeOK
<1>4. /\ domain'[f] = domain[d] /\ domain'[d] = MovedFromDomain
      /\ \A g \in Domains : g # d /\ g # f => domain'[g] = domain[g]
  BY <1>1 DEF TypeOK
<1>5. ASSUME NEW e \in Endpoints PROVE HomeAt(e)'
  <2>1. HomeAt(e) /\ "none" \notin Domains
    BY DomainAssumption DEF RegistryInv
  <2>2. endpoint[e].home # "none" =>
          endpoint'[e].home \in Domains /\ domain'[endpoint'[e].home] = domain[endpoint[e].home]
    BY <1>4, MoveHomes, HomeAlive
  <2> QED
    BY <2>1, <2>2, MoveHomes DEF HomeAt
<1>6. \A k \in States, g \in Domains : domain'[g].state = k => Held(k)'
  BY DEF Held
<1>7. \A k \in States : Held(k)' => \E g \in Domains : g # f /\ domain[g].state = k
  <2>1. ASSUME NEW k \in States, NEW g \in Domains, domain'[g].state = k
        PROVE  \E x \in Domains : x # f /\ domain[x].state = k
    <3>1. k # 0
      BY Sizes
    <3>2. g # d
      BY <1>2, <1>4, <2>1, <3>1
    <3> QED
      BY <1>1, <1>4, <2>1, <3>2
  <2>2. ASSUME NEW k \in States, NEW e \in Endpoints, endpoint'[e].state = k
        PROVE  \E x \in Domains : x # f /\ domain[x].state = k
    BY <2>2, MoveHomes, HomeAlive, Sizes DEF RegistryInv, HomeAt
  <2> QED
    BY <2>1, <2>2 DEF Held
<1>8. ASSUME NEW g \in Domains, NEW h \in Domains, domain'[g] = domain[h] PROVE DomainAt(g)'
  <2>1. DomainAt(h) /\ domain[h].state \in 0..MaxStates
    BY DEF RegistryInv, TypeOK, DomainRecord
  <2>2. domain[h].state # 0 => weak'[domain[h].key] = domain[h].state
    BY <1>1, <1>6, <1>8, <2>1, Expires, Sizes DEF DomainAt
  <2> QED
    BY <1>8, <2>1, <2>2 DEF DomainAt
<1>9. \A g \in Domains : DomainAt(g)'
  BY <1>2, <1>4, <1>8 DEF DomainAt
<1>10. \A g, h \in Domains : OneKey(g, h)'
  BY <1>2, <1>4 DEF RegistryInv, OneKey
<1>11. ASSUME NEW x \in Keys PROVE WeakAt(x)'
  <2>1. weak[x] \in 0..MaxStates /\ weak'[x] \in {weak[x], 0}
    BY <1>1, Expires DEF TypeOK
  <2>2. CASE weak'[x] # 0
    <3>1. weak'[x] = weak[x] /\ weak[x] \in States
      BY <2>1, <2>2, Sizes
    <3>2. PICK g \in Domains : g # f /\ domain[g].state = weak[x]
      BY <1>1, <1>7, <3>1, Expires
    <3>3. domain[g].key = x
      BY <2>2, <3>1, <3>2 DEF RegistryInv, WeakAt, OneKey
    <3> QED
      BY <1>4, <3>1, <3>2, <3>3 DEF WeakAt
  <2> QED
    BY <2>2 DEF WeakAt
<1> QED
  BY <1>3, <1>5, <1>9, <1>10, <1>11 DEF RegistryInv

-----------------------------------------------------------------------------
\* Endpoints are wired, moved and destroyed.

\* The handles that stand for no endpoint.
LEMMA NoHandles ==
  /\ NoImpl \in EndpointRecord /\ NoImpl.home = "none" /\ NoImpl.state = 0
  /\ Refused \in EndpointRecord /\ Refused.home = "none" /\ Refused.state = 0
<1>1. NoImpl \in EndpointRecord /\ NoImpl.home = "none" /\ NoImpl.state = 0
  BY Sizes DEF NoImpl, EndpointRecord
<1> QED
  BY <1>1 DEF Refused, EndpointRecord

\* What a new or changed handle must be for the registry to stay as it is.
LEMMA HandleSet ==
  ASSUME TypeOK, RegistryInv, UNCHANGED <<domain, weak>>,
         endpoint' \in [Endpoints -> EndpointRecord],
         topics' \in [States -> [Topics -> TopicRecord]], endpoint_count' \in [States -> Int],
         \A e \in Endpoints : HomeAt(e)'
  PROVE  TypeOK' /\ RegistryInv'
BY DEF TypeOK, RegistryInv, DomainAt, OneKey, WeakAt

LEMMA TopicIn ==
  ASSUME NEW r \in Requests
  PROVE  r.topic \in Topics /\ r.type \in Types /\ r.type # "none"
         /\ r.ownership \in {"kExclusive", "kShared"}
BY DomainAssumption DEF Topics, Types

\* The topic a wiring verb finds or creates.
LEMMA EntryIs ==
  ASSUME TypeOK, NEW k \in States, NEW r \in Requests
  PROVE  LET t == topics[k][r.topic] IN
         /\ Entry(k, r) \in TopicRecord
         /\ Entry(k, r).type = (IF t.type = "none" THEN r.type ELSE t.type)
         /\ Entry(k, r).pubs = t.pubs /\ Entry(k, r).subs = t.subs
         /\ Entry(k, r).ownership = t.ownership
<1>1. topics[k][r.topic] \in TopicRecord /\ r.type \in Types
  BY TopicIn DEF TypeOK
<1> QED
  BY <1>1 DEF Entry, TopicRecord

LEMMA AddedIs ==
  ASSUME NEW t \in TopicRecord, NEW r \in Requests
  PROVE  /\ Added(t, r) \in TopicRecord /\ Added(t, r).type = t.type
         /\ Added(t, r).pubs = t.pubs + (IF Provides(r) THEN 1 ELSE 0)
         /\ Added(t, r).subs = t.subs + (IF ~Provides(r) /\ Connects(t, r) THEN 1 ELSE 0)
<1>1. CASE Provides(r)
  <2> DEFINE n == t.pubs + 1
             o == r.ownership
             x == [t EXCEPT !.pubs = n, !.ownership = o]
  <2>1. n \in Int /\ t.subs \in Int /\ o \in {"kExclusive", "kShared"}
    BY TopicIn DEF TopicRecord
  <2>2. Added(t, r) = x
    BY <1>1 DEF Added
  <2> HIDE DEF o
  <2>3. n = t.pubs + 1
    OBVIOUS
  <2> HIDE DEF n
  <2>4. x \in TopicRecord /\ x.type = t.type /\ x.pubs = n /\ x.subs = t.subs
    BY <2>1 DEF TopicRecord
  <2> HIDE DEF x
  <2> QED
    BY <1>1, <2>1, <2>2, <2>3, <2>4
<1>2. CASE ~Provides(r)
  BY <1>2 DEF Added, TopicRecord
<1> QED
  BY <1>1, <1>2

LEMMA RemovedIs ==
  ASSUME NEW t \in TopicRecord, NEW r, NEW connected \in BOOLEAN
  PROVE  /\ Removed(t, r, connected) \in TopicRecord /\ Removed(t, r, connected).type = t.type
         /\ Removed(t, r, connected).pubs = t.pubs - (IF Provides(r) THEN 1 ELSE 0)
         /\ Removed(t, r, connected).subs = t.subs - (IF ~Provides(r) /\ connected THEN 1 ELSE 0)
BY DEF Removed, TopicRecord

\* The endpoint a wiring verb makes of a handle.
WiredAs(d, r, connected) ==
  [live |-> TRUE, request |-> r, state |-> domain[d].state, home |-> d, connected |-> connected]

LEMMA WiredIs ==
  ASSUME TypeOK, NEW d \in Domains, NEW r \in Requests, NEW c \in BOOLEAN
  PROVE  WiredAs(d, r, c) \in EndpointRecord
BY DEF WiredAs, EndpointRecord, TypeOK, DomainRecord

LEMMA WiredFields ==
  ASSUME NEW d, NEW r, NEW c
  PROVE  /\ WiredAs(d, r, c).state = domain[d].state
         /\ WiredAs(d, r, c).request = r /\ WiredAs(d, r, c).connected = c
BY DEF WiredAs

\* The three outcomes of a wiring verb.
LEMMA WireCases ==
  ASSUME TypeOK, RegistryInv, NEW e \in Endpoints, NEW d \in Domains, NEW r \in Requests,
         Wire(e, d, r)
  PROVE  LET k == domain[d].state
             t == Entry(k, r)
         IN /\ UNCHANGED <<domain, weak, barrier>>
            /\ endpoint[e].home = "none" /\ endpoint[e].state = 0
            /\ \/ /\ endpoint' = [endpoint EXCEPT ![e] = Refused]
                  /\ \/ UNCHANGED <<topics, endpoint_count, gauge>>
                     \/ /\ k \in States /\ UNCHANGED <<endpoint_count, gauge>>
                        /\ topics' = [topics EXCEPT ![k][r.topic] = t]
               \/ /\ k = 0 /\ Reaches(domain[d].reach, r)
                  /\ endpoint' = [endpoint EXCEPT ![e] = WiredAs(d, r, TRUE)]
                  /\ UNCHANGED <<topics, endpoint_count, gauge>>
               \/ /\ k \in States /\ Reaches(domain[d].reach, r) /\ Admits(t, r)
                  /\ topics' = [topics EXCEPT ![k][r.topic] = Added(t, r)]
                  /\ endpoint_count' = [endpoint_count EXCEPT ![k] = endpoint_count[k] + 1]
                  /\ UpdateGauges(k)
                  /\ endpoint' = [endpoint EXCEPT ![e] = WiredAs(d, r, Connects(t, r))]
<1> DEFINE k == domain[d].state
           t == Entry(k, r)
<1>1. k \in 0..MaxStates /\ (k # 0 => k \in States)
  BY Sizes DEF TypeOK, DomainRecord
<1>2. UNCHANGED <<domain, weak, barrier>> /\ ~endpoint[e].live
  BY DEF Wire
<1>3. endpoint[e].home = "none" /\ endpoint[e].state = 0
  BY <1>2 DEF RegistryInv, HomeAt
<1> QED
  BY <1>1, <1>2, <1>3 DEF Wire, registry, WiredAs

LEMMA TopicPut ==
  ASSUME TypeOK, NEW k \in States, NEW n \in Topics, NEW t \in TopicRecord,
         topics' = [topics EXCEPT ![k][n] = t]
  PROVE  /\ topics' \in [States -> [Topics -> TopicRecord]] /\ topics'[k][n] = t
         /\ \A j \in States, m \in Topics : j # k \/ m # n => topics'[j][m] = topics[j][m]
BY DEF TypeOK

LEMMA HandlePut ==
  ASSUME TypeOK, NEW e \in Endpoints, NEW x \in EndpointRecord,
         endpoint' = [endpoint EXCEPT ![e] = x]
  PROVE  /\ endpoint' \in [Endpoints -> EndpointRecord] /\ endpoint'[e] = x
         /\ \A f \in Endpoints : f # e => endpoint'[f] = endpoint[f]
BY DEF TypeOK

\* What a wiring verb does to the topics, one by one.
LEMMA WireTopics ==
  ASSUME TypeOK, RegistryInv, NEW e \in Endpoints, NEW d \in Domains, NEW r \in Requests,
         Wire(e, d, r)
  PROVE  /\ topics' \in [States -> [Topics -> TopicRecord]] /\ endpoint_count' \in [States -> Int]
         /\ \A j \in States, m \in Topics : j # domain[d].state \/ m # r.topic =>
              topics'[j][m] = topics[j][m]
<1>1. r.topic \in Topics
  BY TopicIn
<1>2. domain[d].state \in States =>
        Entry(domain[d].state, r) \in TopicRecord /\ Added(Entry(domain[d].state, r), r) \in TopicRecord
  BY EntryIs, AddedIs
<1>3. endpoint_count' \in [States -> Int]
  <2>1. \/ UNCHANGED endpoint_count
        \/ endpoint_count' = [endpoint_count EXCEPT ![domain[d].state] =
                                endpoint_count[domain[d].state] + 1] /\ domain[d].state \in States
    BY WireCases
  <2> QED
    BY <2>1 DEF TypeOK
<1>4. CASE UNCHANGED topics
  BY <1>3, <1>4 DEF TypeOK
<1>5. ASSUME domain[d].state \in States, NEW t \in TopicRecord,
             topics' = [topics EXCEPT ![domain[d].state][r.topic] = t]
      PROVE  /\ topics' \in [States -> [Topics -> TopicRecord]]
             /\ \A j \in States, m \in Topics : j # domain[d].state \/ m # r.topic =>
                  topics'[j][m] = topics[j][m]
  BY <1>1, <1>5, TopicPut, ZenonT(40)
<1>6. \/ UNCHANGED topics
      \/ /\ domain[d].state \in States
         /\ \E t \in {Entry(domain[d].state, r), Added(Entry(domain[d].state, r), r)} :
              topics' = [topics EXCEPT ![domain[d].state][r.topic] = t]
  <2> DEFINE k == domain[d].state
             t == Entry(k, r)
             at == [topics EXCEPT ![k][r.topic] = t]
             ax == [topics EXCEPT ![k][r.topic] = Added(t, r)]
  <2>1. \/ UNCHANGED topics
        \/ k \in States /\ topics' = at
        \/ k \in States /\ topics' = ax
    <3>1. UNCHANGED topics \/ topics' = at \/ topics' = ax
      BY DEF Wire, registry
    <3>2. UNCHANGED topics \/ k \in States
      BY WireCases
    <3> QED
      BY <3>1, <3>2
  <2> QED
    BY <2>1
<1> QED
  BY <1>2, <1>3, <1>4, <1>5, <1>6

LEMMA WireHandles ==
  ASSUME TypeOK, RegistryInv, NEW e \in Endpoints, NEW d \in Domains, NEW r \in Requests,
         Wire(e, d, r)
  PROVE  /\ endpoint' \in [Endpoints -> EndpointRecord]
         /\ \A f \in Endpoints : f # e => endpoint'[f] = endpoint[f]
         /\ \/ endpoint'[e] = Refused
            \/ /\ Reaches(domain[d].reach, r)
               /\ \E c \in BOOLEAN : endpoint'[e] = WiredAs(d, r, c)
<1>1. Connects(Entry(domain[d].state, r), r) \in BOOLEAN
  BY DEF Connects
<1>2. \E x \in EndpointRecord :
        /\ endpoint' = [endpoint EXCEPT ![e] = x]
        /\ \/ x = Refused
           \/ /\ Reaches(domain[d].reach, r)
              /\ \E c \in BOOLEAN : x = WiredAs(d, r, c)
  <2>1. \/ endpoint' = [endpoint EXCEPT ![e] = Refused]
        \/ /\ Reaches(domain[d].reach, r)
           /\ \/ endpoint' = [endpoint EXCEPT ![e] = WiredAs(d, r, TRUE)]
              \/ endpoint' = [endpoint EXCEPT ![e] =
                                WiredAs(d, r, Connects(Entry(domain[d].state, r), r))]
    BY WireCases
  <2> QED
    BY <1>1, <2>1, NoHandles, WiredIs
<1> QED
  BY <1>2, HandlePut

LEMMA WireKeeps ==
  ASSUME TypeOK, RegistryInv, NEW e \in Endpoints, NEW d \in Domains, NEW r \in Requests,
         Wire(e, d, r)
  PROVE  TypeOK' /\ RegistryInv'
<1>1. UNCHANGED <<domain, weak>>
  BY WireCases
<1>2. \A f \in Endpoints : f # e => HomeAt(f)'
  BY <1>1, WireHandles DEF RegistryInv, HomeAt
<1>3. HomeAt(e)'
  <2>1. CASE endpoint'[e] = Refused
    BY <2>1, NoHandles DEF HomeAt
  <2>2. ASSUME NEW c \in BOOLEAN, endpoint'[e] = WiredAs(d, r, c), Reaches(domain[d].reach, r)
        PROVE  HomeAt(e)'
    <3>1. endpoint'[e] = [live |-> TRUE, request |-> r, state |-> domain[d].state, home |-> d,
                          connected |-> c] /\ domain' = domain
      BY <1>1, <2>2 DEF WiredAs
    <3>2. /\ endpoint'[e].live /\ endpoint'[e].request = r
          /\ endpoint'[e].state = domain[d].state /\ endpoint'[e].home = d /\ d # "none"
      BY <3>1, DomainAssumption
    <3> QED
      BY <2>2, <3>1, <3>2 DEF HomeAt
  <2> QED
    BY <2>1, <2>2, WireHandles
<1> QED
  BY <1>1, <1>2, <1>3, WireHandles, WireTopics, HandleSet

\* What a destructor does to the topics, one by one.
LEMMA UnregisterTopics ==
  ASSUME TypeOK, RegistryInv, NEW e \in Endpoints, Unregister(e)
  PROVE  /\ topics' \in [States -> [Topics -> TopicRecord]] /\ endpoint_count' \in [States -> Int]
         /\ endpoint[e].state = 0 => UNCHANGED <<topics, endpoint_count, gauge>>
         /\ endpoint[e].state # 0 =>
              LET k == endpoint[e].state
                  r == endpoint[e].request
              IN /\ k \in States /\ r \in Requests /\ UpdateGauges(k)
                 /\ topics'[k][r.topic] = Removed(topics[k][r.topic], r, endpoint[e].connected)
                 /\ \A j \in States, m \in Topics : j # k \/ m # r.topic =>
                      topics'[j][m] = topics[j][m]
                 /\ endpoint_count'[k] = endpoint_count[k] - 1
                 /\ \A j \in States : j # k => endpoint_count'[j] = endpoint_count[j]
<1> DEFINE k == endpoint[e].state
           r == endpoint[e].request
           c == endpoint[e].connected
           t == Removed(topics[k][r.topic], r, c)
<1>1. CASE k = 0
  BY <1>1 DEF Unregister, registry, TypeOK
<1>2. CASE k # 0
  <2>1. k \in States /\ r \in Requests /\ c \in BOOLEAN /\ r.topic \in Topics
    BY <1>2, TopicIn, Sizes DEF TypeOK, EndpointRecord, RegistryInv, HomeAt
  <2>2. topics[k][r.topic] \in TopicRecord
    BY <2>1 DEF TypeOK
  <2>3. t \in TopicRecord
    BY <2>1, <2>2, RemovedIs
  <2>4. /\ topics' = [topics EXCEPT ![k][r.topic] = t]
        /\ endpoint_count' = [endpoint_count EXCEPT ![k] = endpoint_count[k] - 1]
        /\ UpdateGauges(k)
    BY <1>2 DEF Unregister
  <2> HIDE DEF t
  <2>5. /\ topics' \in [States -> [Topics -> TopicRecord]] /\ topics'[k][r.topic] = t
        /\ \A j \in States, m \in Topics : j # k \/ m # r.topic => topics'[j][m] = topics[j][m]
    BY <2>1, <2>3, <2>4, TopicPut, ZenonT(40)
  <2>6. /\ endpoint_count' \in [States -> Int] /\ endpoint_count'[k] = endpoint_count[k] - 1
        /\ \A j \in States : j # k => endpoint_count'[j] = endpoint_count[j]
    BY <2>1, <2>4 DEF TypeOK
  <2> QED
    BY <1>2, <2>1, <2>4, <2>5, <2>6 DEF t
<1> QED
  BY <1>1, <1>2

LEMMA DestroyKeeps ==
  ASSUME TypeOK, RegistryInv, NEW e \in Endpoints, Destroy(e)
  PROVE  TypeOK' /\ RegistryInv'
<1>1. /\ UNCHANGED <<domain, weak>> /\ Unregister(e)
      /\ endpoint' = [endpoint EXCEPT ![e] = NoImpl]
  BY DEF Destroy
<1>2. \A f \in Endpoints : HomeAt(f)'
  BY <1>1, NoHandles, HandlePut DEF RegistryInv, HomeAt
<1> QED
  BY <1>1, <1>2, NoHandles, HandlePut, UnregisterTopics, HandleSet

LEMMA MoveKeeps ==
  ASSUME TypeOK, RegistryInv, NEW e \in Endpoints, NEW f \in Endpoints, Move(e, f)
  PROVE  TypeOK' /\ RegistryInv'
<1>1. /\ UNCHANGED <<domain, weak>> /\ Unregister(f) /\ e # f
      /\ endpoint' = [endpoint EXCEPT ![f] = endpoint[e], ![e] = NoImpl]
  BY DEF Move, MovedFrom
<1>2. /\ endpoint' \in [Endpoints -> EndpointRecord]
      /\ endpoint'[e] = NoImpl /\ endpoint'[f] = endpoint[e]
      /\ \A g \in Endpoints : g # e /\ g # f => endpoint'[g] = endpoint[g]
  BY <1>1, NoHandles DEF TypeOK
<1>3. \A g \in Endpoints : HomeAt(g)'
  BY <1>1, <1>2, NoHandles DEF RegistryInv, HomeAt
<1> QED
  BY <1>1, <1>2, <1>3, UnregisterTopics, HandleSet

-----------------------------------------------------------------------------
\* The registry of the process.

LEMMA RegistryInit == Init => TypeOK /\ RegistryInv
<1> SUFFICES ASSUME Init PROVE TypeOK /\ RegistryInv
  OBVIOUS
<1>1. /\ NoDomain \in DomainRecord /\ NoDomain.reach = "moved-from" /\ NoDomain.state = 0
  BY Sizes DEF DomainRecord, NoDomain, MovedFromDomain, Reach
<1>2. NoTopics \in [Topics -> TopicRecord]
  BY DEF NoTopics, NoTopic, TopicRecord
<1>3. TypeOK
  BY <1>1, <1>2, NoHandles, Sizes DEF Init, TypeOK
<1>4. \A e \in Endpoints : HomeAt(e)
  BY NoHandles DEF Init, HomeAt
<1>5. \A d \in Domains : DomainAt(d) /\ \A f \in Domains : OneKey(d, f)
  BY <1>1 DEF Init, DomainAt, OneKey
<1>6. \A key \in Keys : WeakAt(key)
  BY DEF Init, WeakAt
<1> QED
  BY <1>3, <1>4, <1>5, <1>6 DEF RegistryInv

\* A step of the barrier leaves Domains, endpoints and registries alone.
BarrierStep ==
  \/ \E d \in Domains, list \in Lists : WaitUntilMatched(d, list, MaxDeadline)
  \/ PollEndpoint \/ CheckDeadline \/ Wake \/ Tick

LEMMA BarrierApart ==
  ASSUME BarrierStep
  PROVE  UNCHANGED <<domain, weak, topics, endpoint_count, gauge, endpoint>>
BY DEF BarrierStep, WaitUntilMatched, PollEndpoint, CheckDeadline, Wake, Tick, registry

LEMMA RegistrySame ==
  ASSUME TypeOK, RegistryInv, UNCHANGED <<domain, weak, topics, endpoint_count, endpoint>>
  PROVE  TypeOK' /\ RegistryInv'
BY DEF TypeOK, RegistryInv, DomainAt, OneKey, WeakAt, HomeAt

\* The ways a step can go.
LEMMA StepCases ==
  ASSUME Step
  PROVE  \/ \E d \in Domains, name \in DOMAIN KeyOf : InProcess(d, name)
         \/ \E d \in Domains, reach \in Reach \ {"in-process"} : Stateless(d, reach)
         \/ \E d \in Domains : CloseDomain(d)
         \/ \E d, f \in Domains : MoveDomain(d, f)
         \/ \E e \in Endpoints, d \in Domains, r \in Requests : Wire(e, d, r)
         \/ \E e \in Endpoints : Destroy(e)
         \/ \E e, f \in Endpoints : Move(e, f)
         \/ BarrierStep
<1>1. "posix-shm" \in Reach \ {"in-process"} /\ "iceoryx2" \in Reach \ {"in-process"}
  BY DEF Reach
<1> QED
  BY <1>1, Zenon DEF Step, PosixShm, Unavailable, Advertise, Subscribe, Serve, Client, BarrierStep

LEMMA RegistryNext == TypeOK /\ RegistryInv /\ [Next]_vars => TypeOK' /\ RegistryInv'
<1> SUFFICES ASSUME TypeOK, RegistryInv, [Next]_vars PROVE TypeOK' /\ RegistryInv'
  OBVIOUS
<1>1. CASE Step
  <2>1. BarrierStep => TypeOK' /\ RegistryInv'
    BY BarrierApart, RegistrySame
  <2> QED
    BY <1>1, <2>1, StepCases, MakeInProcess, MakeStateless, Close, MoveD, WireKeeps, DestroyKeeps,
       MoveKeeps
<1>2. CASE UNCHANGED vars
  BY <1>2, RegistrySame DEF vars
<1> QED
  BY <1>1, <1>2 DEF Next

\* D17, AcquireDomainState and the shared_ptr that keeps a DomainState alive:
\* in-process Domains share a registry exactly when their names derive one key,
\* and every wired endpoint lives in the registry of its Domain.
THEOREM SharedRegistryAlways == Spec => []SharedRegistry
<1>1. TypeOK /\ RegistryInv => SharedRegistry
  <2> SUFFICES ASSUME TypeOK, RegistryInv PROVE SharedRegistry
    OBVIOUS
  <2>1. \A d, f \in Domains : domain[d].state # 0 /\ domain[f].state # 0 =>
          (domain[d].key = domain[f].key <=> domain[d].state = domain[f].state)
    BY DEF RegistryInv, DomainAt, OneKey
  <2>2. ASSUME NEW k \in States, NEW e \in Endpoints, endpoint[e].state = k
        PROVE  endpoint[e].home \in Domains /\ domain[endpoint[e].home].state = k
    BY <2>2, HomeAlive, Sizes DEF RegistryInv, HomeAt
  <2> QED
    BY <2>1, <2>2 DEF SharedRegistry, Wired
<1> QED
  BY <1>1, RegistryInit, RegistryNext, PTL DEF Spec

LEMMA ReachCarries ==
  ASSUME NEW reach, NEW r \in Requests, Reaches(reach, r)
  PROVE  Needs(r) \subseteq Supports(reach)
<1>1. r.verb \in {"Advertise", "Subscribe", "Serve", "Client"}
  BY DomainAssumption
<1>2. CASE reach = "in-process"
  BY <1>2 DEF Needs, Supports, Available, Contracts
<1>3. CASE reach = "posix-shm" /\ ~ShmRefuses(r)
  BY <1>1, <1>3 DEF Needs, Supports, Available, ShmRefuses
<1> QED
  BY <1>2, <1>3 DEF Reaches

\* M6-A6 and M8-A2: an endpoint in service, over whichever reach, relies on no
\* contract that Supports denies of the Domain it is at home in, also after that
\* Domain was moved.
THEOREM SupportsHonestAlways == Spec => []SupportsHonest
<1>1. TypeOK /\ RegistryInv => SupportsHonest
  BY ReachCarries, DomainAssumption DEF RegistryInv, HomeAt, SupportsHonest
<1> QED
  BY <1>1, RegistryInit, RegistryNext, PTL DEF Spec

-----------------------------------------------------------------------------
\* Types: the first arrival binds a topic, and the binding lasts as long as any
\* endpoint is wired to it.

LEMMA WiredRequest ==
  ASSUME TypeOK, RegistryInv, NEW e \in Endpoints, endpoint[e].state # 0
  PROVE  /\ endpoint[e].state \in States /\ endpoint[e].request \in Requests
         /\ endpoint[e].request.topic \in Topics /\ endpoint[e].request.type # "none"
         /\ endpoint[e].connected \in BOOLEAN
BY TopicIn, Sizes DEF TypeOK, EndpointRecord, RegistryInv, HomeAt

\* Handles that stay wired where they are, on topics that stay bound.
LEMMA TypesFrame ==
  ASSUME TypeOK, RegistryInv, TypesInv, NEW e \in Endpoints, NEW f \in Endpoints,
         /\ endpoint'[f].state = endpoint[e].state /\ endpoint'[f].request = endpoint[e].request
         /\ endpoint'[f].connected = endpoint[e].connected,
         \A k \in States, n \in Topics :
           endpoint[e].state = k /\ topics[k][n].type # "none" =>
             topics'[k][n].type = topics[k][n].type
  PROVE  TypesAt(f)'
<1>1. CASE endpoint[e].state = 0
  BY <1>1 DEF TypesAt
<1>2. CASE endpoint[e].state # 0
  <2>1. TypesAt(e)
    BY DEF TypesInv
  <2> QED
    BY <1>2, <2>1, WiredRequest DEF TypesAt
<1> QED
  BY <1>1, <1>2

LEMMA TypesExpire ==
  ASSUME TypeOK, Expire, NEW e \in Endpoints, endpoint'[e].state = endpoint[e].state
  PROVE  \A k \in States, n \in Topics :
           endpoint[e].state = k /\ topics[k][n].type # "none" =>
             topics'[k][n].type = topics[k][n].type
<1>1. \A k \in States : endpoint'[e].state = k => Held(k)'
  BY DEF Held
<1> QED
  BY <1>1, Expires

LEMMA TypesWire ==
  ASSUME TypeOK, RegistryInv, TypesInv, NEW e \in Endpoints, NEW d \in Domains,
         NEW r \in Requests, Wire(e, d, r)
  PROVE  TypesInv'
<1> DEFINE k == domain[d].state
           t == Entry(k, r)
           u == Added(t, r)
<1>1. r.topic \in Topics /\ r.type # "none"
  BY TopicIn
<1>2. \/ UNCHANGED topics
      \/ k \in States /\ topics' = [topics EXCEPT ![k][r.topic] = t]
      \/ k \in States /\ topics' = [topics EXCEPT ![k][r.topic] = u]
  <2>1. UNCHANGED topics \/ topics' = [topics EXCEPT ![k][r.topic] = t]
        \/ topics' = [topics EXCEPT ![k][r.topic] = u]
    BY DEF Wire, registry
  <2>2. UNCHANGED topics \/ k \in States
    BY WireCases
  <2> QED
    BY <2>1, <2>2
<1>3. k \in States =>
        /\ t \in TopicRecord /\ u \in TopicRecord /\ u.type = t.type
        /\ topics[k][r.topic].type # "none" => t.type = topics[k][r.topic].type
  BY EntryIs, AddedIs
<1>4. \A j \in States, n \in Topics : topics[j][n].type # "none" =>
        topics'[j][n].type = topics[j][n].type
  <2>1. CASE UNCHANGED topics
    BY <2>1
  <2>2. ASSUME k \in States, NEW v \in {t, u}, topics' = [topics EXCEPT ![k][r.topic] = v]
        PROVE  \A j \in States, n \in Topics : topics[j][n].type # "none" =>
                 topics'[j][n].type = topics[j][n].type
    <3> HIDE DEF k, t, u
    <3>1. v \in TopicRecord /\ (topics[k][r.topic].type # "none" =>
                                  v.type = topics[k][r.topic].type)
      BY <1>3, <2>2
    <3> QED
      BY <1>1, <2>2, <3>1, TopicPut
  <2> QED
    BY <1>2, <2>1, <2>2
<1>5. \A f \in Endpoints : f # e => TypesAt(f)'
  <2> SUFFICES ASSUME NEW f \in Endpoints, f # e PROVE TypesAt(f)'
    OBVIOUS
  <2> QED
    BY <1>4, WireHandles, TypesFrame
<1>6. TypesAt(e)'
  <2>1. CASE endpoint'[e].state = 0
    BY <2>1 DEF TypesAt
  <2>2. CASE endpoint'[e].state # 0
    <3>1. /\ k \in States /\ Admits(t, r)
          /\ topics' = [topics EXCEPT ![k][r.topic] = u]
          /\ endpoint' = [endpoint EXCEPT ![e] = WiredAs(d, r, Connects(t, r))]
      <4>1. endpoint' # [endpoint EXCEPT ![e] = Refused]
        BY <2>2, NoHandles DEF TypeOK
      <4>2. k # 0
        <5>1. PICK c \in BOOLEAN : endpoint'[e] = WiredAs(d, r, c)
          BY <2>2, NoHandles, WireHandles
        <5> QED
          BY <2>2, <5>1 DEF WiredAs
      <4> QED
        BY <4>1, <4>2, Sizes DEF Wire, WiredAs, TypeOK, DomainRecord
    <3> DEFINE c == Connects(t, r)
    <3>2. c \in BOOLEAN /\ (r.verb = "Subscribe" \/ c)
      BY DEF Connects
    <3>3. u.type = r.type
      BY <1>3, <3>1 DEF Admits
    <3>4. topics'[k][r.topic] = u
      <4> HIDE DEF k, u
      <4> QED
        BY <1>1, <1>3, <3>1, TopicPut
    <3>5. endpoint'[e] = WiredAs(d, r, c)
      <4>1. endpoint' = [endpoint EXCEPT ![e] = WiredAs(d, r, c)]
        BY <3>1
      <4> HIDE DEF c
      <4> QED
        BY <3>2, <4>1, WiredIs, HandlePut
    <3>6. /\ endpoint'[e].state = k /\ endpoint'[e].request = r
          /\ endpoint'[e].connected = c
      BY <3>5 DEF WiredAs
    <3> HIDE DEF k, u, c
    <3> QED
      BY <3>2, <3>3, <3>4, <3>6 DEF TypesAt
  <2> QED
    BY <2>1, <2>2
<1> QED
  BY <1>5, <1>6 DEF TypesInv

LEMMA TypesUnregister ==
  ASSUME TypeOK, RegistryInv, NEW g \in Endpoints, Unregister(g)
  PROVE  \A k \in States, n \in Topics : topics'[k][n].type = topics[k][n].type
<1>1. CASE endpoint[g].state = 0
  BY <1>1, UnregisterTopics
<1>2. CASE endpoint[g].state # 0
  <2> DEFINE k == endpoint[g].state
             r == endpoint[g].request
             c == endpoint[g].connected
  <2>1. k \in States /\ r.topic \in Topics /\ c \in BOOLEAN /\ topics[k][r.topic] \in TopicRecord
    BY <1>2, WiredRequest DEF TypeOK
  <2>2. /\ topics'[k][r.topic] = Removed(topics[k][r.topic], r, c)
        /\ \A j \in States, m \in Topics : j # k \/ m # r.topic => topics'[j][m] = topics[j][m]
    BY <1>2, UnregisterTopics
  <2> HIDE DEF k, r, c
  <2> QED
    BY <2>1, <2>2, RemovedIs
<1> QED
  BY <1>1, <1>2

\* A handle that stays as it was, moved or not.
LEMMA TypesGone ==
  ASSUME TypeOK, RegistryInv, TypesInv, NEW e \in Endpoints, NEW f \in Endpoints,
         NEW g \in Endpoints, Unregister(g), endpoint'[f] = endpoint[e]
  PROVE  TypesAt(f)'
BY TypesUnregister, TypesFrame

LEMMA TypesNone ==
  ASSUME NEW e \in Endpoints, endpoint'[e] = NoImpl
  PROVE  TypesAt(e)'
BY NoHandles DEF TypesAt

LEMMA TypesDestroy ==
  ASSUME TypeOK, RegistryInv, TypesInv, NEW e \in Endpoints, Destroy(e)
  PROVE  TypesInv'
<1>1. Unregister(e) /\ endpoint' = [endpoint EXCEPT ![e] = NoImpl]
  BY DEF Destroy
<1>2. endpoint'[e] = NoImpl /\ \A f \in Endpoints : f # e => endpoint'[f] = endpoint[f]
  BY <1>1 DEF TypeOK
<1> QED
  BY <1>1, <1>2, TypesGone, TypesNone DEF TypesInv

LEMMA TypesMove ==
  ASSUME TypeOK, RegistryInv, TypesInv, NEW e \in Endpoints, NEW f \in Endpoints, Move(e, f)
  PROVE  TypesInv'
<1>1. /\ Unregister(f) /\ e # f
      /\ endpoint' = [endpoint EXCEPT ![f] = endpoint[e], ![e] = NoImpl]
  BY DEF Move, MovedFrom
<1>2. /\ endpoint'[e] = NoImpl /\ endpoint'[f] = endpoint[e]
      /\ \A g \in Endpoints : g # e /\ g # f => endpoint'[g] = endpoint[g]
  BY <1>1 DEF TypeOK
<1> QED
  BY <1>1, <1>2, TypesGone, TypesNone DEF TypesInv

\* A step that leaves the topics alone, or lets only unheld states expire.
LEMMA TypesDomain ==
  ASSUME TypeOK, RegistryInv, TypesInv, UNCHANGED topics \/ Expire,
         \A e \in Endpoints : /\ endpoint'[e].state = endpoint[e].state
                             /\ endpoint'[e].request = endpoint[e].request
                             /\ endpoint'[e].connected = endpoint[e].connected
  PROVE  TypesInv'
<1> SUFFICES ASSUME NEW e \in Endpoints PROVE TypesAt(e)'
  BY DEF TypesInv
<1>1. \A k \in States, n \in Topics :
        endpoint[e].state = k /\ topics[k][n].type # "none" =>
          topics'[k][n].type = topics[k][n].type
  BY TypesExpire
<1> QED
  BY <1>1, TypesFrame

LEMMA TypesNext == TypeOK /\ RegistryInv /\ TypesInv /\ [Next]_vars => TypesInv'
<1> SUFFICES ASSUME TypeOK, RegistryInv, TypesInv, [Next]_vars PROVE TypesInv'
  OBVIOUS
<1>1. CASE UNCHANGED <<topics, endpoint>>
  BY <1>1, TypesDomain
<1>2. CASE Step
  <2>1. ASSUME NEW d \in Domains, NEW name \in DOMAIN KeyOf, InProcess(d, name) PROVE TypesInv'
    BY <1>1, <2>1 DEF InProcess, registry
  <2>2. ASSUME NEW d \in Domains, NEW reach, Stateless(d, reach) PROVE TypesInv'
    BY <1>1, <2>2 DEF Stateless, registry
  <2>3. ASSUME NEW d \in Domains, CloseDomain(d) PROVE TypesInv'
    BY <2>3, TypesDomain DEF CloseDomain
  <2>4. ASSUME NEW d \in Domains, NEW f \in Domains, MoveDomain(d, f) PROVE TypesInv'
    <3>1. Expire
      BY <2>4 DEF MoveDomain
    <3> QED
      BY <2>4, <3>1, MoveHomes, TypesDomain
  <2>5. BarrierStep => TypesInv'
    BY <1>1, BarrierApart
  <2> QED
    BY <1>2, <2>1, <2>2, <2>3, <2>4, <2>5, StepCases, TypesWire, TypesDestroy, TypesMove
<1>3. CASE UNCHANGED vars
  BY <1>1, <1>3 DEF vars
<1> QED
  BY <1>2, <1>3 DEF Next

LEMMA TypesInit == Init => TypesInv
BY NoHandles DEF Init, TypesInv, TypesAt

\* R6: all endpoints wired to one name of a registry carry one type, whoever came
\* first, also if schema hashes collide, and although endpoints come, go and move
\* and the registry dies and is made anew.
THEOREM TypeAgreementAlways == Spec => []TypeAgreement
<1>1. TypeOK /\ RegistryInv /\ TypesInv => TypeAgreement
  BY Sizes DEF TypesInv, TypesAt, TypeAgreement, Wired
<1> QED
  BY <1>1, RegistryInit, RegistryNext, TypesInit, TypesNext, PTL DEF Spec

-----------------------------------------------------------------------------
\* The census.

LEMMA CountedFinite ==
  ASSUME NEW k, NEW n
  PROVE  /\ IsFiniteSet(Wired(k)) /\ Cardinality(Wired(k)) \in Nat
         /\ IsFiniteSet(Providers(k, n)) /\ Cardinality(Providers(k, n)) \in Nat
         /\ IsFiniteSet(Users(k, n)) /\ Cardinality(Users(k, n)) \in Nat
<1>1. /\ Wired(k) \subseteq Endpoints /\ Providers(k, n) \subseteq Endpoints
      /\ Users(k, n) \subseteq Endpoints
  BY DEF Wired, Connected, Providers, Users
<1> QED
  BY <1>1, FS_Subset, FS_CardinalityType, DomainAssumption

\* The gauges a state has just set tell what its counters tell.
LEMMA GaugeSet ==
  ASSUME NEW k \in States, UpdateGauges(k), \A j \in States : CountAt(j)'
  PROVE  CensusInv'
<1>1. /\ gauge'.of = k /\ gauge'.endpoints = endpoint_count'[k]
      /\ gauge'.matches = SumFunction([n \in Topics |->
                             topics'[k][n].pubs * topics'[k][n].subs])
  BY DEF UpdateGauges
<1>2. [n \in Topics |-> topics'[k][n].pubs * topics'[k][n].subs] = Pairs(k)'
  <2>1. \A n \in Topics : /\ topics'[k][n].pubs = Cardinality(Providers(k, n)')
                         /\ topics'[k][n].subs = Cardinality(Users(k, n)')
    BY DEF CountAt
  <2> QED
    BY <2>1 DEF Pairs
<1>3. k \in 0..MaxStates
  BY Sizes
<1>4. GaugeAt(k)'
  BY <1>1, <1>2 DEF CountAt, GaugeAt
<1>5. \A j \in States : j # k => GaugeAt(j)'
  BY <1>1 DEF GaugeAt
<1> QED
  BY <1>1, <1>3, <1>4, <1>5 DEF CensusInv

\* Registered endpoints that stay as they are, under counters that stay as they
\* are or are reset where nothing is registered.
LEMMA CensusFrame ==
  ASSUME CensusInv, UNCHANGED gauge,
         \A e \in Endpoints :
           /\ endpoint'[e].state = endpoint[e].state
           /\ endpoint[e].state # 0 => /\ endpoint'[e].request = endpoint[e].request
                                       /\ endpoint'[e].connected = endpoint[e].connected,
         \A k \in States :
           \/ /\ endpoint_count'[k] = endpoint_count[k]
              /\ \A n \in Topics : /\ topics'[k][n].pubs = topics[k][n].pubs
                                   /\ topics'[k][n].subs = topics[k][n].subs
           \/ /\ \A e \in Endpoints : endpoint[e].state # k
              /\ endpoint_count'[k] = 0
              /\ \A n \in Topics : topics'[k][n].pubs = 0 /\ topics'[k][n].subs = 0
  PROVE  CensusInv'
<1>1. ASSUME NEW k \in States
      PROVE  /\ Wired(k)' = Wired(k)
             /\ \A n \in Topics : Providers(k, n)' = Providers(k, n) /\ Users(k, n)' = Users(k, n)
  BY Sizes DEF Wired, Connected, Providers, Users
<1>2. ASSUME NEW k \in States PROVE CountAt(k)'
  <2>1. CountAt(k)
    BY DEF CensusInv
  <2>2. CASE \A e \in Endpoints : endpoint[e].state # k
    <3>1. Wired(k) = {} /\ \A n \in Topics : Providers(k, n) = {} /\ Users(k, n) = {}
      BY <2>2 DEF Wired, Connected, Providers, Users
    <3>2. Cardinality({}) = 0
      BY FS_EmptySet
    <3>3. /\ Cardinality(Wired(k)') = 0
          /\ \A n \in Topics : Cardinality(Providers(k, n)') = 0 /\ Cardinality(Users(k, n)') = 0
      BY <1>1, <3>1, <3>2
    <3>4. endpoint_count[k] = 0 /\ \A n \in Topics : topics[k][n].pubs = 0 /\ topics[k][n].subs = 0
      BY <2>1, <3>1, <3>2 DEF CountAt
    <3>5. endpoint_count'[k] = 0 /\ \A n \in Topics : topics'[k][n].pubs = 0 /\ topics'[k][n].subs = 0
      BY <3>4
    <3> QED
      BY <3>3, <3>5 DEF CountAt
  <2>3. CASE ~ \A e \in Endpoints : endpoint[e].state # k
    <3>1. /\ endpoint_count'[k] = endpoint_count[k]
          /\ \A n \in Topics : /\ topics'[k][n].pubs = topics[k][n].pubs
                               /\ topics'[k][n].subs = topics[k][n].subs
      BY <2>3
    <3>2. Cardinality(Wired(k)') = Cardinality(Wired(k))
      BY <1>1
    <3>3. \A n \in Topics : /\ Cardinality(Providers(k, n)') = Cardinality(Providers(k, n))
                           /\ Cardinality(Users(k, n)') = Cardinality(Users(k, n))
      BY <1>1
    <3> QED
      BY <2>1, <3>1, <3>2, <3>3, SMTT(30) DEF CountAt
  <2> QED
    BY <2>2, <2>3
<1>3. ASSUME NEW k \in States PROVE GaugeAt(k)'
  <2>1. Pairs(k)' = Pairs(k)
    BY <1>1 DEF Pairs
  <2> QED
    <3>1. GaugeAt(k) /\ Wired(k)' = Wired(k) /\ gauge' = gauge
      BY <1>1 DEF CensusInv
    <3> QED
      BY <2>1, <3>1 DEF GaugeAt
<1> QED
  BY <1>2, <1>3 DEF CensusInv

\* One endpoint less: what a destructor does to the counters.
LEMMA CensusUnregister ==
  ASSUME TypeOK, RegistryInv, TypesInv, CensusInv, NEW g \in Endpoints, Unregister(g),
         endpoint[g].state # 0,
         \A k \in States :
           /\ Cardinality(Wired(k)') = Cardinality(Wired(k) \ {g})
           /\ \A n \in Topics :
                /\ Cardinality(Providers(k, n)') = Cardinality(Providers(k, n) \ {g})
                /\ Cardinality(Users(k, n)') = Cardinality(Users(k, n) \ {g})
  PROVE  CensusInv'
<1> DEFINE k == endpoint[g].state
           r == endpoint[g].request
           c == endpoint[g].connected
<1>1. /\ k \in States /\ r \in Requests /\ r.topic \in Topics /\ c \in BOOLEAN
      /\ topics[k][r.topic] \in TopicRecord
  BY WiredRequest DEF TypeOK
<1>2. Provides(r) => c
  BY DEF TypesInv, TypesAt, Provides
<1>3. /\ UpdateGauges(k)
      /\ topics'[k][r.topic] = Removed(topics[k][r.topic], r, c)
      /\ \A j \in States, m \in Topics : j # k \/ m # r.topic => topics'[j][m] = topics[j][m]
      /\ endpoint_count'[k] = endpoint_count[k] - 1
      /\ \A j \in States : j # k => endpoint_count'[j] = endpoint_count[j]
  BY UnregisterTopics
<1>4. ASSUME NEW j \in States, NEW n \in Topics
      PROVE  /\ g \in Wired(j) <=> j = k
             /\ g \in Providers(j, n) <=> j = k /\ n = r.topic /\ Provides(r) /\ c
             /\ g \in Users(j, n) <=> j = k /\ n = r.topic /\ ~Provides(r) /\ c
  BY DEF Wired, Connected, Providers, Users
<1>5. ASSUME NEW S, IsFiniteSet(S)
      PROVE  Cardinality(S \ {g}) = (IF g \in S THEN Cardinality(S) - 1 ELSE Cardinality(S))
  BY <1>5, FS_RemoveElement
<1> HIDE DEF k, r, c
<1>6. ASSUME NEW j \in States PROVE CountAt(j)'
  <2>1. CountAt(j)
    BY DEF CensusInv
  <2>2. endpoint_count'[j] = Cardinality(Wired(j)')
    <3>1. Cardinality(Wired(j)') = (IF j = k THEN Cardinality(Wired(j)) - 1
                                              ELSE Cardinality(Wired(j)))
      BY <1>1, <1>4, <1>5, CountedFinite
    <3> QED
      BY <1>3, <2>1, <3>1 DEF CountAt
  <2>3. ASSUME NEW n \in Topics
        PROVE  /\ topics'[j][n].pubs = Cardinality(Providers(j, n)')
               /\ topics'[j][n].subs = Cardinality(Users(j, n)')
    <3> DEFINE P == Providers(j, n)
               U == Users(j, n)
    <3>1. /\ Cardinality(Providers(j, n)') = Cardinality(P \ {g})
          /\ Cardinality(Users(j, n)') = Cardinality(U \ {g})
          /\ topics[j][n].pubs = Cardinality(P) /\ topics[j][n].subs = Cardinality(U)
      BY <2>1 DEF CountAt
    <3>2. /\ IsFiniteSet(P) /\ Cardinality(P) \in Nat
          /\ IsFiniteSet(U) /\ Cardinality(U) \in Nat
      BY CountedFinite
    <3>3. /\ g \in P <=> j = k /\ n = r.topic /\ Provides(r) /\ c
          /\ g \in U <=> j = k /\ n = r.topic /\ ~Provides(r) /\ c
      BY <1>4
    <3> HIDE DEF P, U
    <3>4. /\ Cardinality(P \ {g}) = (IF g \in P THEN Cardinality(P) - 1 ELSE Cardinality(P))
          /\ Cardinality(U \ {g}) = (IF g \in U THEN Cardinality(U) - 1 ELSE Cardinality(U))
      BY <1>5, <3>2
    <3>5. CASE j = k /\ n = r.topic
      <4>1. /\ topics'[j][n].pubs = topics[j][n].pubs - (IF Provides(r) THEN 1 ELSE 0)
            /\ topics'[j][n].subs = topics[j][n].subs - (IF ~Provides(r) /\ c THEN 1 ELSE 0)
        <5>1. topics'[j][n] = Removed(topics[j][n], r, c) /\ topics[j][n] \in TopicRecord
          BY <1>1, <1>3, <3>5
        <5> QED
          BY <1>1, <5>1, RemovedIs, SMTT(30)
      <4>2. /\ g \in P <=> Provides(r)
            /\ g \in U <=> ~Provides(r) /\ c
        BY <1>2, <3>3, <3>5
      <4>3. topics'[j][n].pubs = Cardinality(P \ {g})
        <5>1. topics'[j][n].pubs = Cardinality(P) - (IF Provides(r) THEN 1 ELSE 0)
          BY <3>1, <4>1
        <5>2. CASE Provides(r)
          BY <3>4, <4>2, <5>1, <5>2
        <5>3. CASE ~Provides(r)
          BY <3>2, <3>4, <4>2, <5>1, <5>3
        <5> QED
          BY <5>2, <5>3
      <4>4. topics'[j][n].subs = Cardinality(U \ {g})
        <5>1. topics'[j][n].subs = Cardinality(U) - (IF ~Provides(r) /\ c THEN 1 ELSE 0)
          BY <3>1, <4>1
        <5>2. CASE ~Provides(r) /\ c
          BY <3>4, <4>2, <5>1, <5>2
        <5>3. CASE ~(~Provides(r) /\ c)
          BY <3>2, <3>4, <4>2, <5>1, <5>3
        <5> QED
          BY <5>2, <5>3
      <4> QED
        BY <3>1, <4>3, <4>4
    <3>6. CASE ~(j = k /\ n = r.topic)
      BY <1>3, <3>1, <3>3, <3>4, <3>6
    <3> QED
      BY <3>5, <3>6
  <2> QED
    BY <2>2, <2>3 DEF CountAt
<1> QED
  BY <1>1, <1>3, <1>6, GaugeSet

LEMMA CensusDestroy ==
  ASSUME TypeOK, RegistryInv, TypesInv, CensusInv, NEW e \in Endpoints, Destroy(e)
  PROVE  CensusInv'
<1>1. Unregister(e) /\ endpoint' = [endpoint EXCEPT ![e] = NoImpl]
  BY DEF Destroy
<1>2. endpoint'[e] = NoImpl /\ \A f \in Endpoints : f # e => endpoint'[f] = endpoint[f]
  BY <1>1 DEF TypeOK
<1>3. CASE endpoint[e].state = 0
  <2>1. UNCHANGED <<topics, endpoint_count, gauge>>
    BY <1>1, <1>3, UnregisterTopics
  <2> QED
    BY <1>2, <1>3, <2>1, NoHandles, CensusFrame
<1>4. CASE endpoint[e].state # 0
  <2>1. ASSUME NEW k \in States
        PROVE  /\ Wired(k)' = Wired(k) \ {e}
               /\ \A n \in Topics : /\ Providers(k, n)' = Providers(k, n) \ {e}
                                    /\ Users(k, n)' = Users(k, n) \ {e}
    BY <1>2, NoHandles, Sizes DEF Wired, Connected, Providers, Users
  <2> QED
    BY <1>1, <1>4, <2>1, CensusUnregister
<1> QED
  BY <1>3, <1>4

\* Elements e and f trade places, and f's old self is gone.
LEMMA Traded ==
  ASSUME NEW S \in SUBSET Endpoints, NEW T \in SUBSET Endpoints, NEW e \in Endpoints,
         NEW f \in Endpoints, e # f, e \notin T, f \in T <=> e \in S,
         \A x \in Endpoints : x # e /\ x # f => (x \in T <=> x \in S)
  PROVE  Cardinality(T) = Cardinality(S \ {f})
<1> DEFINE R == S \ {f}
<1>1. IsFiniteSet(R)
  BY FS_Subset, DomainAssumption
<1>2. CASE e \in S
  <2> DEFINE Q == R \ {e}
  <2>1. IsFiniteSet(Q) /\ Cardinality(Q) = Cardinality(R) - 1 /\ Cardinality(R) \in Nat
    BY <1>1, <1>2, FS_RemoveElement, FS_CardinalityType
  <2>2. T = Q \cup {f} /\ f \notin Q
    BY <1>2
  <2>3. Cardinality(Q \cup {f}) = Cardinality(Q) + 1
    BY <2>1, <2>2, FS_AddElement
  <2> HIDE DEF Q, R
  <2> QED
    BY <2>1, <2>2, <2>3 DEF R
<1>3. CASE e \notin S
  <2>1. T = R
    BY <1>3
  <2> QED
    BY <2>1
<1> QED
  BY <1>2, <1>3

LEMMA CensusMove ==
  ASSUME TypeOK, RegistryInv, TypesInv, CensusInv, NEW e \in Endpoints, NEW f \in Endpoints,
         Move(e, f)
  PROVE  CensusInv'
<1>1. /\ Unregister(f) /\ e # f
      /\ endpoint' = [endpoint EXCEPT ![f] = endpoint[e], ![e] = NoImpl]
  BY DEF Move, MovedFrom
<1>2. /\ endpoint'[e] = NoImpl /\ endpoint'[f] = endpoint[e]
      /\ \A g \in Endpoints : g # e /\ g # f => endpoint'[g] = endpoint[g]
  BY <1>1 DEF TypeOK
<1>3. ASSUME NEW k \in States
      PROVE  /\ Cardinality(Wired(k)') = Cardinality(Wired(k) \ {f})
             /\ \A n \in Topics :
                  /\ Cardinality(Providers(k, n)') = Cardinality(Providers(k, n) \ {f})
                  /\ Cardinality(Users(k, n)') = Cardinality(Users(k, n) \ {f})
  <2>1. Cardinality(Wired(k)') = Cardinality(Wired(k) \ {f})
    <3> DEFINE S == Wired(k)
               T == Wired(k)'
    <3>1. /\ S \in SUBSET Endpoints /\ T \in SUBSET Endpoints /\ e \notin T
          /\ f \in T <=> e \in S
          /\ \A x \in Endpoints : x # e /\ x # f => (x \in T <=> x \in S)
      BY <1>2, NoHandles, Sizes DEF Wired
    <3> HIDE DEF S, T
    <3>2. Cardinality(T) = Cardinality(S \ {f})
      BY <1>1, <3>1, Traded
    <3> QED
      BY <3>2 DEF S, T
  <2>2. ASSUME NEW n \in Topics
        PROVE  Cardinality(Providers(k, n)') = Cardinality(Providers(k, n) \ {f})
    <3> DEFINE S == Providers(k, n)
               T == Providers(k, n)'
    <3>1. /\ S \in SUBSET Endpoints /\ T \in SUBSET Endpoints /\ e \notin T
          /\ f \in T <=> e \in S
          /\ \A x \in Endpoints : x # e /\ x # f => (x \in T <=> x \in S)
      BY <1>2, NoHandles, Sizes DEF Wired, Connected, Providers
    <3> HIDE DEF S, T
    <3>2. Cardinality(T) = Cardinality(S \ {f})
      BY <1>1, <3>1, Traded
    <3> QED
      BY <3>2 DEF S, T
  <2>3. ASSUME NEW n \in Topics
        PROVE  Cardinality(Users(k, n)') = Cardinality(Users(k, n) \ {f})
    <3> DEFINE S == Users(k, n)
               T == Users(k, n)'
    <3>1. /\ S \in SUBSET Endpoints /\ T \in SUBSET Endpoints /\ e \notin T
          /\ f \in T <=> e \in S
          /\ \A x \in Endpoints : x # e /\ x # f => (x \in T <=> x \in S)
      BY <1>2, NoHandles, Sizes DEF Wired, Connected, Users
    <3> HIDE DEF S, T
    <3>2. Cardinality(T) = Cardinality(S \ {f})
      BY <1>1, <3>1, Traded
    <3> QED
      BY <3>2 DEF S, T
  <2> QED
    BY <2>1, <2>2, <2>3
<1>4. CASE endpoint[f].state = 0
  <2>1. UNCHANGED <<topics, endpoint_count, gauge>>
    BY <1>1, <1>4, UnregisterTopics
  <2>2. ASSUME NEW k \in States
        PROVE  /\ Cardinality(Wired(k)') = Cardinality(Wired(k))
               /\ \A n \in Topics :
                    /\ Cardinality(Providers(k, n)') = Cardinality(Providers(k, n))
                    /\ Cardinality(Users(k, n)') = Cardinality(Users(k, n))
    <3>1. /\ Wired(k) \ {f} = Wired(k)
          /\ \A n \in Topics : /\ Providers(k, n) \ {f} = Providers(k, n)
                               /\ Users(k, n) \ {f} = Users(k, n)
      BY <1>4, Sizes DEF Wired, Connected, Providers, Users
    <3> QED
      BY <1>3, <3>1
  <2>3. ASSUME NEW k \in States PROVE CountAt(k)'
    <3>1. CountAt(k)
      BY DEF CensusInv
    <3> QED
      BY <2>1, <2>2, <3>1 DEF CountAt
  <2>4. ASSUME NEW k \in States PROVE GaugeAt(k)'
    <3>1. Pairs(k)' = Pairs(k)
      BY <2>2 DEF Pairs
    <3> QED
      BY <2>1, <2>2, <3>1 DEF CensusInv, GaugeAt
  <2> QED
    BY <2>1, <2>3, <2>4 DEF CensusInv
<1>5. CASE endpoint[f].state # 0
  BY <1>1, <1>3, <1>5, CensusUnregister
<1> QED
  BY <1>4, <1>5

\* A refused wiring verb, and one over shared memory, register nothing.
LEMMA CensusUnwired ==
  ASSUME TypeOK, RegistryInv, CensusInv, NEW e \in Endpoints, NEW d \in Domains,
         NEW r \in Requests, Wire(e, d, r), endpoint'[e].state = 0
  PROVE  CensusInv'
<1> DEFINE k == domain[d].state
           t == Entry(k, r)
<1>1. endpoint[e].state = 0 /\ \A f \in Endpoints : f # e => endpoint'[f] = endpoint[f]
  BY WireCases, WireHandles
<1>2. /\ UNCHANGED <<endpoint_count, gauge>>
      /\ UNCHANGED topics \/ (k \in States /\ topics' = [topics EXCEPT ![k][r.topic] = t])
  <2>1. CASE UNCHANGED registry
    BY <2>1 DEF registry
  <2>2. CASE ~ UNCHANGED registry
    <3>1. k \in 0..MaxStates
      BY DEF TypeOK, DomainRecord
    <3>2. k # 0
      BY <2>2 DEF Wire
    <3>3. endpoint' # [endpoint EXCEPT ![e] = WiredAs(d, r, Connects(t, r))]
      <4>1. [endpoint EXCEPT ![e] = WiredAs(d, r, Connects(t, r))][e].state = k
        BY DEF TypeOK, WiredAs
      <4> QED
        BY <3>2, <4>1
    <3> QED
      BY <2>2, <3>1, <3>2, <3>3, Sizes DEF Wire, WiredAs
  <2> QED
    BY <2>1, <2>2
<1>3. \A j \in States, n \in Topics : /\ topics'[j][n].pubs = topics[j][n].pubs
                                     /\ topics'[j][n].subs = topics[j][n].subs
  <2>1. CASE k \in States /\ topics' = [topics EXCEPT ![k][r.topic] = t]
    <3>1. /\ t \in TopicRecord /\ r.topic \in Topics
          /\ t.pubs = topics[k][r.topic].pubs /\ t.subs = topics[k][r.topic].subs
      BY <2>1, EntryIs, TopicIn
    <3> HIDE DEF t, k
    <3> QED
      BY <2>1, <3>1, TopicPut
  <2> QED
    BY <1>2, <2>1
<1> QED
  BY <1>1, <1>2, <1>3, CensusFrame

LEMMA OneMore ==
  ASSUME NEW S, IsFiniteSet(S), NEW e, e \notin S
  PROVE  Cardinality(S \cup {e}) = Cardinality(S) + 1
BY FS_AddElement

LEMMA CensusWire ==
  ASSUME TypeOK, RegistryInv, CensusInv, NEW e \in Endpoints, NEW d \in Domains,
         NEW r \in Requests, Wire(e, d, r), endpoint'[e].state # 0
  PROVE  CensusInv'
<1> DEFINE k == domain[d].state
           t == Entry(k, r)
           c == Connects(t, r)
           u == Added(t, r)
<1>1. endpoint[e].state = 0 /\ \A f \in Endpoints : f # e => endpoint'[f] = endpoint[f]
  BY WireCases, WireHandles
<1>2. k # 0
  <2>1. PICK b \in BOOLEAN : endpoint'[e] = WiredAs(d, r, b)
    BY NoHandles, WireHandles
  <2> QED
    BY <2>1, WiredFields
<1>3. /\ k \in States /\ topics' = [topics EXCEPT ![k][r.topic] = u]
      /\ endpoint_count' = [endpoint_count EXCEPT ![k] = endpoint_count[k] + 1]
      /\ UpdateGauges(k)
      /\ endpoint' = [endpoint EXCEPT ![e] = WiredAs(d, r, c)]
  <2>1. endpoint' # [endpoint EXCEPT ![e] = Refused]
    BY NoHandles DEF TypeOK
  <2> QED
    BY <1>2, <2>1, Sizes DEF Wire, WiredAs, TypeOK, DomainRecord
<1>4. c \in BOOLEAN /\ (Provides(r) => c)
  BY DEF Connects, Provides
<1>5. endpoint'[e].state = k /\ endpoint'[e].request = r /\ endpoint'[e].connected = c
  <2>1. endpoint'[e] = WiredAs(d, r, c)
    BY <1>3 DEF TypeOK
  <2> QED
    BY <2>1, WiredFields, SMTT(30)
<1>6. /\ u \in TopicRecord /\ r.topic \in Topics
      /\ u.pubs = topics[k][r.topic].pubs + (IF Provides(r) THEN 1 ELSE 0)
      /\ u.subs = topics[k][r.topic].subs + (IF ~Provides(r) /\ c THEN 1 ELSE 0)
  <2>1. k \in States
    BY <1>3
  <2>2. t \in TopicRecord /\ t.pubs = topics[k][r.topic].pubs /\ t.subs = topics[k][r.topic].subs
    BY <2>1, EntryIs
  <2> HIDE DEF t
  <2> QED
    BY <2>2, AddedIs, TopicIn, SMTT(30)
<1> HIDE DEF k, t, c, u
<1>7. /\ topics'[k][r.topic] = u
      /\ \A j \in States, n \in Topics : j # k \/ n # r.topic => topics'[j][n] = topics[j][n]
  BY <1>3, <1>6, TopicPut, ZenonT(40)
<1>8. /\ endpoint_count'[k] = endpoint_count[k] + 1
      /\ \A j \in States : j # k => endpoint_count'[j] = endpoint_count[j]
  BY <1>3 DEF TypeOK
<1>9. ASSUME NEW j \in States
      PROVE  /\ e \notin Wired(j)
             /\ Wired(j)' = (IF j = k THEN Wired(j) \cup {e} ELSE Wired(j))
             /\ \A n \in Topics :
                  /\ e \notin Providers(j, n) /\ e \notin Users(j, n)
                  /\ Providers(j, n)' = (IF j = k /\ n = r.topic /\ Provides(r) /\ c
                                         THEN Providers(j, n) \cup {e} ELSE Providers(j, n))
                  /\ Users(j, n)' = (IF j = k /\ n = r.topic /\ ~Provides(r) /\ c
                                     THEN Users(j, n) \cup {e} ELSE Users(j, n))
  BY <1>1, <1>4, <1>5, Sizes DEF Wired, Connected, Providers, Users
<1>10. ASSUME NEW j \in States PROVE CountAt(j)'
  <2>1. CountAt(j)
    BY DEF CensusInv
  <2>2. endpoint_count'[j] = Cardinality(Wired(j)')
    <3>1. Cardinality(Wired(j)') = (IF j = k THEN Cardinality(Wired(j)) + 1
                                              ELSE Cardinality(Wired(j)))
      BY <1>9, OneMore, CountedFinite
    <3> QED
      BY <1>8, <2>1, <3>1 DEF CountAt
  <2>3. ASSUME NEW n \in Topics
        PROVE  /\ topics'[j][n].pubs = Cardinality(Providers(j, n)')
               /\ topics'[j][n].subs = Cardinality(Users(j, n)')
    <3> DEFINE P == Providers(j, n)
               U == Users(j, n)
    <3>1. topics[j][n].pubs = Cardinality(P) /\ topics[j][n].subs = Cardinality(U)
      BY <2>1 DEF CountAt
    <3>2. IsFiniteSet(P) /\ Cardinality(P) \in Nat /\ IsFiniteSet(U) /\ Cardinality(U) \in Nat
      BY CountedFinite
    <3>3. /\ e \notin P /\ e \notin U
          /\ Providers(j, n)' = (IF j = k /\ n = r.topic /\ Provides(r) /\ c
                                 THEN P \cup {e} ELSE P)
          /\ Users(j, n)' = (IF j = k /\ n = r.topic /\ ~Provides(r) /\ c THEN U \cup {e} ELSE U)
      BY <1>9
    <3> HIDE DEF P, U
    <3>4. Cardinality(P \cup {e}) = Cardinality(P) + 1 /\ Cardinality(U \cup {e}) = Cardinality(U) + 1
      BY <3>2, <3>3, OneMore
    <3>5. CASE j = k /\ n = r.topic
      <4>1. /\ topics'[j][n].pubs = Cardinality(P) + (IF Provides(r) THEN 1 ELSE 0)
            /\ topics'[j][n].subs = Cardinality(U) + (IF ~Provides(r) /\ c THEN 1 ELSE 0)
        BY <1>6, <1>7, <3>1, <3>5
      <4>2. CASE Provides(r)
        <5>1. Providers(j, n)' = P \cup {e} /\ Users(j, n)' = U
          BY <1>4, <3>3, <3>5, <4>2
        <5> QED
          BY <3>2, <3>4, <4>1, <4>2, <5>1, SMTT(30)
      <4>3. CASE ~Provides(r) /\ c
        <5>1. Providers(j, n)' = P /\ Users(j, n)' = U \cup {e}
          BY <3>3, <3>5, <4>3
        <5> QED
          BY <3>2, <3>4, <4>1, <4>3, <5>1, SMTT(30)
      <4>4. CASE ~Provides(r) /\ ~c
        <5>1. Providers(j, n)' = P /\ Users(j, n)' = U
          BY <3>3, <3>5, <4>4
        <5> QED
          BY <3>2, <4>1, <4>4, <5>1
      <4> QED
        BY <4>2, <4>3, <4>4
    <3>6. CASE ~(j = k /\ n = r.topic)
      BY <1>7, <3>1, <3>3, <3>6
    <3> QED
      BY <3>5, <3>6
  <2> QED
    BY <2>2, <2>3 DEF CountAt
<1> QED
  BY <1>3, <1>10, GaugeSet

\* A step that leaves the registered endpoints alone, or lets only unheld states
\* expire.
LEMMA CensusDomain ==
  ASSUME TypeOK, CensusInv, UNCHANGED <<topics, endpoint_count, gauge>> \/ Expire,
         \A e \in Endpoints : /\ endpoint'[e].state = endpoint[e].state
                             /\ endpoint'[e].request = endpoint[e].request
                             /\ endpoint'[e].connected = endpoint[e].connected
  PROVE  CensusInv'
<1>1. CASE UNCHANGED <<topics, endpoint_count, gauge>>
  BY <1>1, CensusFrame
<1>2. CASE Expire
  <2>1. UNCHANGED gauge
    BY <1>2 DEF Expire
  <2>2. ASSUME NEW k \in States, Held(k)'
        PROVE  /\ endpoint_count'[k] = endpoint_count[k]
               /\ \A n \in Topics : /\ topics'[k][n].pubs = topics[k][n].pubs
                                    /\ topics'[k][n].subs = topics[k][n].subs
    BY <1>2, <2>2, Expires
  <2>3. ASSUME NEW k \in States, ~ Held(k)'
        PROVE  /\ \A e \in Endpoints : endpoint[e].state # k
               /\ endpoint_count'[k] = 0
               /\ \A n \in Topics : topics'[k][n].pubs = 0 /\ topics'[k][n].subs = 0
    <3>1. \A e \in Endpoints : endpoint[e].state # k
      BY <2>3 DEF Held
    <3>2. topics'[k] = NoTopics /\ endpoint_count'[k] = 0
      BY <1>2, <2>3, Expires
    <3> QED
      BY <3>1, <3>2 DEF NoTopics, NoTopic
  <2> QED
    BY <2>1, <2>2, <2>3, CensusFrame
<1> QED
  BY <1>1, <1>2

LEMMA CensusNext ==
  TypeOK /\ RegistryInv /\ TypesInv /\ CensusInv /\ [Next]_vars => CensusInv'
<1> SUFFICES ASSUME TypeOK, RegistryInv, TypesInv, CensusInv, [Next]_vars PROVE CensusInv'
  OBVIOUS
<1>1. CASE UNCHANGED <<topics, endpoint_count, gauge, endpoint>>
  BY <1>1, CensusDomain
<1>2. CASE Step
  <2>1. ASSUME NEW d \in Domains, NEW name \in DOMAIN KeyOf, InProcess(d, name) PROVE CensusInv'
    BY <1>1, <2>1 DEF InProcess, registry
  <2>2. ASSUME NEW d \in Domains, NEW reach, Stateless(d, reach) PROVE CensusInv'
    BY <1>1, <2>2 DEF Stateless, registry
  <2>3. ASSUME NEW d \in Domains, CloseDomain(d) PROVE CensusInv'
    BY <2>3, CensusDomain DEF CloseDomain
  <2>4. ASSUME NEW d \in Domains, NEW f \in Domains, MoveDomain(d, f) PROVE CensusInv'
    <3>1. Expire
      BY <2>4 DEF MoveDomain
    <3> QED
      BY <2>4, <3>1, MoveHomes, CensusDomain
  <2>5. BarrierStep => CensusInv'
    BY <1>1, BarrierApart
  <2> QED
    BY <1>2, <2>1, <2>2, <2>3, <2>4, <2>5, StepCases, CensusUnwired, CensusWire, CensusDestroy,
       CensusMove
<1>3. CASE UNCHANGED vars
  BY <1>1, <1>3 DEF vars
<1> QED
  BY <1>2, <1>3 DEF Next

LEMMA CensusInit == Init => CensusInv
<1> SUFFICES ASSUME Init PROVE CensusInv
  OBVIOUS
<1>1. Cardinality({}) = 0
  BY FS_EmptySet
<1>2. ASSUME NEW k \in States
      PROVE  Wired(k) = {} /\ \A n \in Topics : Providers(k, n) = {} /\ Users(k, n) = {}
  BY NoHandles, Sizes DEF Init, Wired, Connected, Providers, Users
<1>3. ASSUME NEW k \in States PROVE CountAt(k)
  BY <1>1, <1>2 DEF Init, CountAt, NoTopics, NoTopic
<1>4. gauge.of = 0
  BY DEF Init
<1> QED
  BY <1>3, <1>4, Sizes DEF CensusInv, GaugeAt

\* The counters of every topic and the telemetry gauges count exactly the wired
\* endpoints: no refusal, move, unconnected subscriber or destructor, in any
\* order, counts twice, leaks a count or takes one too many, and a registry that
\* is made anew starts from nothing.
THEOREM CensusExactAlways == Spec => []CensusExact
<1>1. CensusInv => CensusExact
  <2> SUFFICES ASSUME CensusInv PROVE CensusExact
    OBVIOUS
  <2>1. ASSUME gauge.of # 0
        PROVE  /\ gauge.endpoints = Cardinality(Wired(gauge.of))
               /\ gauge.matches = SumFunction(Pairs(gauge.of))
    BY <2>1, Sizes DEF CensusInv, GaugeAt
  <2>2. \A k \in States, n \in Topics : /\ topics[k][n].pubs = Cardinality(Providers(k, n))
                                       /\ topics[k][n].subs = Cardinality(Users(k, n))
    BY DEF CensusInv, CountAt
  <2> QED
    BY <2>1, <2>2 DEF CensusExact, Pairs
<1> QED
  BY <1>1, RegistryInit, RegistryNext, TypesInit, TypesNext, CensusInit, CensusNext, PTL DEF Spec

-----------------------------------------------------------------------------
\* The readiness barrier.

\* What is seen in a pass is remembered until it ends.
LEMMA SeenGrows ==
  ASSUME Observe, barrier'.pc = "poll", barrier.pc = "poll"
  PROVE  seen \subseteq seen'
BY DEF Observe

LEMMA BarrierPoll ==
  ASSUME BarrierInv, PollEndpoint, Observe
  PROVE  BarrierInv'
<1> DEFINE i == barrier.i
           list == barrier.list
<1>1. barrier.pc = "poll" /\ i \in Nat /\ list \in Seq(Endpoints)
  BY DEF PollEndpoint, BarrierInv, BarrierRecord
<1>2. CASE Return
  BY <1>2 DEF Return, BarrierInv, BarrierRecord
<1>3. CASE barrier' = [barrier EXCEPT !.pc = "unmatched"]
  BY <1>3 DEF BarrierInv, BarrierRecord
<1>4. ASSUME i <= Len(list), NEW count \in MatchedCounts(list[i]), count > 0,
             barrier' = [barrier EXCEPT !.i = barrier.i + 1]
      PROVE  BarrierInv'
  <2>1. /\ barrier' \in BarrierRecord
        /\ barrier'.pc = "poll" /\ barrier'.list = list /\ barrier'.i = i + 1
    BY <1>1, <1>4 DEF BarrierInv, BarrierRecord
  <2>2. \A j \in DOMAIN list : j < i => list[j] \in seen'
    BY <1>1, <2>1, SeenGrows DEF BarrierInv, BarrierRecord
  <2>3. i \in DOMAIN list => list[i] \in seen'
    <3> SUFFICES ASSUME i \in DOMAIN list PROVE list[i] \in seen'
      OBVIOUS
    <3>1. PICK e \in Endpoints : e = list[i]
      BY <1>1
    <3>2. Busy(e)'
      BY <2>1, <3>1 DEF Busy
    <3>3. UNCHANGED <<endpoint, topics>>
      BY DEF PollEndpoint, registry
    <3>4. MatchedCounts(e)' = MatchedCounts(e)
      BY <3>3 DEF MatchedCounts
    <3>5. MatchedCounts(e)' # {0}
      BY <1>4, <3>1, <3>4
    <3> QED
      BY <1>1, <2>1, <3>1, <3>2, <3>5 DEF Observe
  <2>4. \A j \in DOMAIN list : j < i + 1 => j < i \/ j = i
    BY <1>1
  <2> QED
    BY <2>1, <2>2, <2>3, <2>4 DEF BarrierInv, BarrierRecord
<1> QED
  BY <1>1, <1>2, <1>3, <1>4 DEF PollEndpoint

LEMMA BarrierKept ==
  ASSUME BarrierInv, UNCHANGED barrier, Observe \/ UNCHANGED seen
  PROVE  BarrierInv'
<1>1. barrier.pc = "poll" => seen \subseteq seen'
  BY SeenGrows
<1> QED
  BY <1>1 DEF BarrierInv, BarrierRecord

\* A pass starts with the first endpoint.
LEMMA BarrierStart ==
  ASSUME BarrierInv, NEW d \in Domains, NEW list \in Lists,
         WaitUntilMatched(d, list, MaxDeadline), Observe
  PROVE  BarrierInv'
<1>1. CASE UNCHANGED barrier
  BY <1>1, BarrierKept
<1>2. CASE barrier' = [pc |-> "poll", list |-> list, i |-> 1, remaining |-> MaxDeadline, home |-> d]
  <2>1. list \in Seq(Endpoints) /\ MaxDeadline \in Int
    BY DomainAssumption
  <2>2. \A j \in DOMAIN list : ~(j < 1)
    BY <2>1
  <2> QED
    BY <1>2, <2>1, <2>2 DEF BarrierInv, BarrierRecord
<1> QED
  BY <1>1, <1>2 DEF WaitUntilMatched

LEMMA BarrierWake ==
  ASSUME BarrierInv, Wake
  PROVE  BarrierInv'
<1>1. barrier' = [barrier EXCEPT !.pc = "poll", !.i = 1]
  BY DEF Wake, PassStart
<1>2. /\ barrier' \in BarrierRecord
      /\ barrier'.list = barrier.list /\ barrier'.i = 1 /\ barrier.list \in Seq(Endpoints)
  <2> DEFINE b == [barrier EXCEPT !.pc = "poll"]
  <2>1. b \in BarrierRecord /\ b.list = barrier.list /\ b.list \in Seq(Endpoints)
    BY DEF BarrierInv, BarrierRecord
  <2>2. barrier' = [b EXCEPT !.i = 1]
    BY <1>1
  <2> HIDE DEF b
  <2> QED
    BY <2>1, <2>2 DEF BarrierRecord
<1>3. \A j \in DOMAIN barrier.list : ~(j < 1)
  BY <1>2
<1> QED
  BY <1>2, <1>3 DEF BarrierInv, BarrierRecord

LEMMA BarrierClock ==
  ASSUME BarrierInv, CheckDeadline \/ Tick, Observe
  PROVE  BarrierInv'
<1>1. CASE CheckDeadline
  <2>1. CASE Return
    BY <2>1 DEF Return, BarrierInv, BarrierRecord
  <2>2. CASE barrier' = [barrier EXCEPT !.pc = "asleep"]
    BY <2>2 DEF BarrierInv, BarrierRecord
  <2> QED
    BY <1>1, <2>1, <2>2 DEF CheckDeadline
<1>2. CASE Tick
  <2>1. barrier' = [barrier EXCEPT !.remaining = barrier.remaining - 1]
    BY <1>2 DEF Tick
  <2>2. /\ barrier' \in BarrierRecord
        /\ barrier'.pc = barrier.pc /\ barrier'.list = barrier.list /\ barrier'.i = barrier.i
    BY <2>1 DEF BarrierInv, BarrierRecord
  <2> QED
    BY <2>2, SeenGrows DEF BarrierInv, BarrierRecord
<1> QED
  BY <1>1, <1>2

LEMMA BarrierNext == BarrierInv /\ [Next]_vars => BarrierInv'
<1> SUFFICES ASSUME BarrierInv, [Next]_vars PROVE BarrierInv'
  OBVIOUS
<1>1. CASE Step /\ Observe
  <2>1. UNCHANGED barrier \/ BarrierStep
    BY <1>1, StepCases DEF InProcess, Stateless, CloseDomain, MoveDomain, Wire, Destroy, Move
  <2>2. CASE UNCHANGED barrier
    BY <1>1, <2>2, BarrierKept
  <2>3. CASE BarrierStep
    BY <1>1, <2>3, BarrierStart, BarrierPoll, BarrierWake, BarrierClock DEF BarrierStep
  <2> QED
    BY <2>1, <2>2, <2>3
<1>2. CASE UNCHANGED vars
  BY <1>2, BarrierKept DEF vars
<1> QED
  BY <1>1, <1>2 DEF Next

\* D16: WaitUntilMatched reports kMatched only after a pass in which every listed
\* endpoint, one after the other, had a peer; what other threads wire, move and
\* destroy meanwhile, and what earlier passes saw, makes no difference.
THEOREM BarrierHonestAlways == Spec => BarrierHonest
<1>1. Init => BarrierInv
  BY DEF Init, BarrierInv, BarrierRecord
<1>2. BarrierInv /\ [Next]_vars =>
        [barrier.pc = "poll" /\ barrier'.pc = "idle" =>
           \A i \in DOMAIN barrier.list : barrier.list[i] \in seen]_vars
  <2> SUFFICES ASSUME BarrierInv, Next, barrier.pc = "poll", barrier'.pc = "idle"
               PROVE  \A i \in DOMAIN barrier.list : barrier.list[i] \in seen
    BY DEF vars
  <2>1. Step
    BY DEF Next
  <2>2. UNCHANGED barrier \/ BarrierStep
    BY <2>1, StepCases DEF InProcess, Stateless, CloseDomain, MoveDomain, Wire, Destroy, Move
  <2>3. PollEndpoint
    BY <2>2 DEF BarrierStep, WaitUntilMatched, CheckDeadline, Wake, Tick, BarrierInv, BarrierRecord
  <2>4. barrier.i > Len(barrier.list)
    BY <2>3 DEF PollEndpoint, BarrierInv, BarrierRecord
  <2> QED
    BY <2>4 DEF BarrierInv, BarrierRecord
<1> QED
  BY <1>1, <1>2, BarrierNext, PTL DEF Spec, BarrierHonest
=============================================================================
