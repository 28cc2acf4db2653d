---------------------------- MODULE SegmentNames ----------------------------
(***************************************************************************)
(* Isolation keys and segment names (DeriveIsolationKey, domain.cpp;       *)
(* ShmSegmentName, shm_segment.hpp) and the parser of an observer          *)
(* (ParseSegmentName, introspect_reader.hpp).  A name is the sequence of   *)
(* its characters without the prefix "/xmmsg."; characters are abstract:   *)
(* the ones the code tells apart, one lower-case letter and its capital,   *)
(* and "-" for everything a sanitiser replaces.                            *)
(***************************************************************************)
EXTENDS Naturals, Sequences, FiniteSets

CONSTANTS
  kNameBound, kHexDigits,   \* 240 less the prefix, 16
  Fnv1a64(_)                \* hash of a name, as kHexDigits characters of Hex

Hex   == {"0", "a"}
Chars == Hex \cup {"u", "h", "A", "_", ".", "-"}

Lower(c) == CASE c = "A" -> "a" [] c = "-" -> "_" [] OTHER -> c

\* Mutant: the domain's dots are kept.
DomainCharKept(c) == Lower(c)

DomainChar(c) == IF c = "." THEN "_" ELSE Lower(c)

euid == <<"0">>
default == <<"a", "u">>

DeriveIsolationKey(configured_name) ==
  LET base == IF configured_name = <<>> THEN default ELSE configured_name
  IN <<"u">> \o euid \o <<".">> \o [i \in DOMAIN base |-> DomainChar(base[i])]

SanitizeShmNamePart(part) == [i \in DOMAIN part |-> Lower(part[i])]

ShmSegmentName(isolation_key, topic) ==
  LET name == SanitizeShmNamePart(isolation_key) \o <<".">> \o SanitizeShmNamePart(topic)
  IN IF Len(name) > kNameBound THEN <<"h">> \o Fnv1a64(name) ELSE name

NoSegment == [found |-> FALSE, hashed |-> FALSE, key |-> <<>>, topic |-> <<>>]

IsHashed(name) ==
  /\ Len(name) = kHexDigits + 1 /\ name[1] = "h"
  /\ \A i \in 2..Len(name) : name[i] \in Hex

\* The key is the first two dotted parts, the topic all the rest.
ParseSegmentName(name) ==
  LET dots == {i \in DOMAIN name : name[i] = "."}
      dot2 == CHOOSE i \in dots : Cardinality({j \in dots : j <= i}) = 2
  IN IF IsHashed(name) THEN [NoSegment EXCEPT !.found = TRUE, !.hashed = TRUE]
     ELSE IF Cardinality(dots) >= 2 /\ dot2 < Len(name) /\ name[1] = "u"
     THEN [found |-> TRUE, hashed |-> FALSE, key |-> SubSeq(name, 1, dot2 - 1),
           topic |-> SubSeq(name, dot2 + 1, Len(name))]
     ELSE NoSegment
=============================================================================
