------------------------------ MODULE LoanPool ------------------------------
(***************************************************************************)
(* The Loan verb of one publisher: LoanPool<T> (a bitmask over fixed cells,*)
(* detail/in_process.hpp), the move-only Loan<T> handles minted from it and*)
(* the publish verbs that consume them, PublishDerived with its lineage    *)
(* (D14) included.  Every handle is driven by a thread of its own; what    *)
(* Publish does with the copied payload is modelled by Topic and ShmTopic. *)
(***************************************************************************)
EXTENDS Integers, Sequences, FiniteSets, FiniteSetsExt

CONSTANTS
  Handles,        \* Loan<T> objects of the application
  Values,         \* payloads
  kSlots,         \* cells of the pool
  kMaxHops,       \* saturation bound of the hop count
  MaxPublished,   \* bound on publishes
  None            \* the null pointer, and a default-constructed payload

Cells == 0..kSlots - 1

ASSUME LoanAssumption ==
  /\ kSlots \in Nat \ {0} /\ kMaxHops \in Nat \ {0} /\ MaxPublished \in Nat
  /\ None \notin Values /\ None \notin Cells

VARIABLES
  in_use,      \* the bitmask, as the set of its one bits
  payload,     \* what a cell's object holds
  loan,        \* per handle: slot_, what its owner wrote through it, and the
               \* progress of the verb running on it with its local mask
  published    \* history: lineage of the published records, in stamp order

loanVars == <<in_use, payload, loan, published>>

NoLoan == [pc |-> "idle", slot |-> None, mask |-> {}, wrote |-> None]

LoanInit ==
  /\ in_use = {} /\ payload = [c \in Cells |-> None]
  /\ loan = [h \in Handles |-> NoLoan]
  /\ published = <<>>

HoldsLoan(h) == loan[h].pc = "idle" /\ loan[h].slot # None

-----------------------------------------------------------------------------
\* Publisher::Loan and LoanPool::Acquire: load the mask, then compare-exchange
\* until a bit is won or every bit is set.  (A spurious failure of the weak
\* compare-exchange changes nothing.)
Loan(h) ==
  /\ loan[h] = NoLoan
  /\ loan' = [loan EXCEPT ![h].pc = "acquire", ![h].mask = in_use]
  /\ UNCHANGED <<in_use, payload, published>>

\* Mutant: the new mask is stored without comparing.
WinsAlways(h) == TRUE

Wins(h) == in_use = loan[h].mask

Acquire(h) ==
  /\ loan[h].pc = "acquire"
  /\ LET free == Cells \ loan[h].mask
         cell == Min(free)
     IN IF free = {}
        THEN loan' = [loan EXCEPT ![h] = NoLoan] /\ UNCHANGED <<in_use, payload>>
        ELSE IF Wins(h)
        THEN /\ in_use' = loan[h].mask \cup {cell}
             /\ payload' = [payload EXCEPT ![cell] = None]
             /\ loan' = [loan EXCEPT ![h] = [NoLoan EXCEPT !.slot = cell]]
        ELSE loan' = [loan EXCEPT ![h].mask = in_use] /\ UNCHANGED <<in_use, payload>>
  /\ UNCHANGED published

\* The application constructs its payload in place.
Write(h, v) ==
  /\ HoldsLoan(h)
  /\ payload' = [payload EXCEPT ![loan[h].slot] = v]
  /\ loan' = [loan EXCEPT ![h].wrote = v]
  /\ UNCHANGED <<in_use, published>>

\* The cell an assignment or a destructor gives back.
GivenBack(h) == {loan[h].slot} \ {None}

\* ~Loan: an unpublished loan returns its cell.
Destroy(h) ==
  /\ HoldsLoan(h)
  /\ in_use' = in_use \ GivenBack(h)
  /\ loan' = [loan EXCEPT ![h] = NoLoan]
  /\ UNCHANGED <<payload, published>>

\* Mutant: the moved-from loan keeps its pointers.
MovedFromKept(h) == loan[h]

MovedFrom(h) == NoLoan

\* Loan(Loan&&) into an empty g, operator=(Loan&&) into one that may hold a cell.
Move(h, g) ==
  /\ h # g /\ HoldsLoan(h) /\ loan[g].pc = "idle"
  /\ in_use' = in_use \ GivenBack(g)
  /\ loan' = [loan EXCEPT ![g] = loan[h], ![h] = MovedFrom(h)]
  /\ UNCHANGED <<payload, published>>

-----------------------------------------------------------------------------
\* Publish(Loan&&) and PublishDerived: `consumed' takes the loan over, the
\* payload is copied out, and consumed's destructor returns the cell.

\* Mutant: the hop count is incremented before it is compared with the bound.
HopsUnbounded(hops) == Max(hops) + 1

\* Longest upstream chain plus one, saturating.
Hops(hops) == IF Max(hops) >= kMaxHops THEN kMaxHops ELSE Max(hops) + 1

\* A first hop starts a lineage at its own stamp; a derived record takes the
\* oldest origin of the samples it consumed.  `sources' and `chain' are history:
\* the first hops it descends from and the length of the longest way to one.
Derived(stamp, upstream) ==
  IF upstream = {}
  THEN [origin |-> stamp, hops |-> 0, sources |-> {stamp}, chain |-> 0]
  ELSE [origin  |-> Min({published[u].origin : u \in upstream}),
        hops    |-> Hops({published[u].hops : u \in upstream}),
        sources |-> UNION {published[u].sources : u \in upstream},
        chain   |-> Max({published[u].chain : u \in upstream}) + 1]

PublishLoan(h) ==
  /\ HoldsLoan(h) /\ Len(published) < MaxPublished
  /\ loan' = [loan EXCEPT ![h].pc = "copy"]
  /\ UNCHANGED <<in_use, payload, published>>

\* `upstream' are the records whose samples the caller passes along.
CopyOut(h, upstream) ==
  /\ loan[h].pc = "copy" /\ Len(published) < MaxPublished
  /\ published' = Append(published, Derived(Len(published) + 1, upstream))
  /\ loan' = [loan EXCEPT ![h].pc = "release"]
  /\ UNCHANGED <<in_use, payload>>

\* LoanPool::Release: fetch_and of the complement.
Release(h) ==
  /\ loan[h].pc = "release"
  /\ in_use' = in_use \ GivenBack(h)
  /\ loan' = [loan EXCEPT ![h] = NoLoan]
  /\ UNCHANGED <<payload, published>>

LoanNext ==
  \E h \in Handles :
    \/ Loan(h) \/ Acquire(h) \/ Destroy(h) \/ PublishLoan(h) \/ Release(h)
    \/ \E v \in Values : Write(h, v)
    \/ \E g \in Handles : Move(h, g)
    \/ \E upstream \in SUBSET DOMAIN published : CopyOut(h, upstream)

LoanSpec == LoanInit /\ [][LoanNext]_loanVars

-----------------------------------------------------------------------------
\* Properties.

\* The loan contract: until the publish has copied it out, a loan's cell holds
\* what its owner wrote there (None: the default-constructed payload), however
\* many threads acquire, move, drop and publish loans of the pool meanwhile.
LoanIntact ==
  \A h \in Handles :
    loan[h].slot # None /\ loan[h].pc \in {"idle", "copy"} =>
      payload[loan[h].slot] = loan[h].wrote

\* RAII: a bit is set exactly while one handle holds its cell, so no sequence of
\* moves, drops and publishes leaks a cell or frees it twice.
CellsAccounted ==
  /\ in_use = {loan[h].slot : h \in Handles} \ {None}
  /\ \A h, g \in Handles : loan[h].slot # None /\ loan[h].slot = loan[g].slot => h = g

\* D14 over whole pipelines: a record's origin is the oldest first hop it
\* descends from, and its hop count is the length of the longest chain to one,
\* saturated and never wrapped.
LineageExact ==
  \A k \in DOMAIN published :
    /\ published[k].origin = Min(published[k].sources)
    /\ published[k].hops = Min({published[k].chain, kMaxHops})
=============================================================================
