------------------------------ MODULE MCTopic ------------------------------
(***************************************************************************)
(* Instances of Topic for TLC.                                             *)
(***************************************************************************)
EXTENDS Topic, TLC

Qos(o, r) == [ownership |-> o, reliability |-> r]
AllPubQos == {Qos(o, r) : o \in {"kExclusive", "kShared"}, r \in {"kBestEffort", "kReliable"}}
ExclusiveQos == {Qos("kExclusive", "kBestEffort")}
SharedBestEffort == {Qos("kShared", "kBestEffort")}

Latest(d) == [history |-> "kLatestOnly", deadline |-> d]
Queue(d) == [history |-> "kQueue", deadline |-> d]
LatestQos == {Latest(0)}
QueueQos == {Queue(0)}
DeadlineQos == {Latest(1), Queue(0)}

AllSymmetry == Permutations(Pubs) \cup Permutations(Subs)
=============================================================================
