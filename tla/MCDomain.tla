------------------------------ MODULE MCDomain ------------------------------
(***************************************************************************)
(* Instance of Domain for TLC.  Types A and B collide in their hash.  Two   *)
(* of the three configured names derive one key.                           *)
(***************************************************************************)
EXTENDS Domain

CONSTANTS e1, e2, e3

MCLists == {<<e1, e2>>}

MCKeyOf == [Nav |-> "nav", nav |-> "nav", arm |-> "arm"]

MCHashOf == [A |-> 1, B |-> 1, R |-> 2]

MCRequest(verb, type, ownership, history) ==
  [verb |-> verb, topic |-> "n", type |-> type, ownership |-> ownership, history |-> history]
MCRequests ==
  {MCRequest("Advertise", "A", "kExclusive", "latest-only"),
   MCRequest("Subscribe", "A", "kExclusive", "latest-only"),
   MCRequest("Advertise", "B", "kShared", "queue"),
   MCRequest("Serve", "R", "kExclusive", "latest-only"),
   MCRequest("Client", "R", "kExclusive", "latest-only")}
=============================================================================
