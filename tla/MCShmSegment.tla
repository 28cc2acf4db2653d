---------------------------- MODULE MCShmSegment ----------------------------
(***************************************************************************)
(* Instance of ShmSegment for TLC: a publisher, a subscriber that fits it  *)
(* and a second publisher that fits, was built with another layout, with   *)
(* the nested fields reordered, without a field in the list, or without a  *)
(* list at all.                                                            *)
(***************************************************************************)
EXTENDS ShmSegment

CONSTANTS p1, p2, s1

Member(name, type, dims, offset) ==
  [name |-> name, type |-> type, dims |-> dims, offset |-> offset, listed |-> TRUE]
Struct(name, size, members) ==
  [name |-> name, size |-> size, align |-> 4, described |-> TRUE, members |-> members]
Unlisted(d, i) == [d EXCEPT !.members[i].listed = FALSE]

Scan(point) ==
  Struct("Scan", 24, <<Member("id", "enum", <<>>, 0), Member("range", "float", <<1>>, 4),
                       Member("points", point, <<2, 1>>, 8)>>)

MCDecl ==
  [Point  |-> Struct("Point", 8, <<Member("x", "float", <<>>, 0), Member("y", "float", <<>>, 4)>>),
   PointR |-> Struct("Point", 8, <<Member("y", "float", <<>>, 0), Member("x", "float", <<>>, 4)>>),
   Scan   |-> Scan("Point"),
   ScanR  |-> Scan("PointR"),
   Gap    |-> Unlisted(Scan("Point"), 3),
   GapR   |-> Unlisted(Scan("PointR"), 3),
   Plain  |-> [Scan("Point") EXCEPT !.described = FALSE]]

\* A hash without collisions: one of the types that have the description.
MCFnv1a64(d) == CHOOSE t \in DOMAIN Decl : Description(t) = d

Built(type, build, asserts) == [type |-> type, build |-> build, asserts |-> asserts]

MCProfiles ==
  {[p \in Procs |-> IF p = p2 THEN x ELSE Built("Scan", 3, FALSE)] :
     x \in {Built("Scan", 3, FALSE), Built("ScanR", 3, FALSE), Built("Scan", 2, TRUE),
            Built("Plain", 3, FALSE)}}
  \cup {[p \in Procs |-> Built(IF p = p2 THEN "GapR" ELSE "Gap", 3, p # s1)]}
=============================================================================
