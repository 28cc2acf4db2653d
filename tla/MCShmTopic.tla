----------------------------- MODULE MCShmTopic -----------------------------
(***************************************************************************)
(* Instances of ShmTopic for TLC.                                          *)
(***************************************************************************)
EXTENDS ShmTopic, TLC

CONSTANTS s1, s2

PubSymmetry == Permutations(Pubs)

AllLatest == {[runs |-> Pubs \cup Subs, queued |-> {}]}

\* Three publishers race for a slot one of them died in, over one mailbox; two
\* follow each other over two subscribers that follow each other in one slot.
RestartCasts ==
  {[runs |-> Pubs \cup {s1}, queued |-> {}]}
    \cup [runs : {P \cup {s1, s2} : P \in {Q \in SUBSET Pubs : Cardinality(Q) = 2}},
          queued : {{}, {s2}}]
=============================================================================
