----------------------------- MODULE LatestBox -----------------------------
(***************************************************************************)
(* What latest-only history promises a subscriber, whatever the reach: it  *)
(* has one mailbox; a take reads the record the mailbox shows at one       *)
(* instant and returns it.  Records are ordinals, 0 is "nothing yet".      *)
(* Topic implements Spec.  ShmTopic implements CrashSpec: there a mailbox  *)
(* whose writer is inside a store, or died there, shows its reader nothing *)
(* newer than the reader has already seen.                                 *)
(***************************************************************************)
EXTENDS Naturals

CONSTANT Records   \* the ordinals

VARIABLES
  value,      \* the record the mailbox shows
  inhand,     \* the record a take has read and not yet returned, 0 if none
  returned    \* the records takes have returned

vars == <<value, inhand, returned>>

Init == value = 0 /\ inhand = 0 /\ returned = {}

\* The seed or a delivery: the mailbox shows a newer record.
Post ==
  /\ value' \in Records /\ value' > value
  /\ UNCHANGED <<inhand, returned>>

Read ==
  /\ inhand = 0 /\ value # 0
  /\ inhand' = value
  /\ UNCHANGED <<value, returned>>

Return ==
  /\ inhand # 0
  /\ returned' = returned \cup {inhand}
  /\ inhand' = 0
  /\ UNCHANGED value

\* The mailbox falls back to the newest record its reader has seen.
Withdraw ==
  /\ value' \in returned \cup {inhand, 0} /\ value' < value
  /\ inhand <= value' /\ \A r \in returned : r <= value'
  /\ UNCHANGED <<inhand, returned>>

Next == Post \/ Read \/ Return

CrashNext == Next \/ Withdraw

\* A step of the mailbox, or of something else.
Step      == [Next]_vars
CrashStep == [CrashNext]_vars

Spec      == Init /\ [][Next]_vars
CrashSpec == Init /\ [][CrashNext]_vars

-----------------------------------------------------------------------------
\* A subscriber never goes back: a record returned for the first time is newer
\* than all those returned before.
NeverBack == [][\A o \in returned' \ returned : \A t \in returned : o > t]_vars
=============================================================================
