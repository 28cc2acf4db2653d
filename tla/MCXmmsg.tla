------------------------------ MODULE MCXmmsg ------------------------------
(***************************************************************************)
(* Instance of Xmmsg for TLC: the segment in use shares its topic with a    *)
(* dead segment of another domain; beside them lie objects that must not    *)
(* be taken for segments.                                                   *)
(***************************************************************************)
EXTENDS Xmmsg

\* A hash that tells names of different lengths apart.
MCFnv(name) == IF Len(name) % 2 = 0 THEN <<"0", "a">> ELSE <<"a", "a">>

AtRest == [readable |-> TRUE, sized |-> TRUE, ready |-> TRUE, magic |-> TRUE,
           version |-> TRUE, consistent |-> TRUE]
Foreign(name) == [name |-> name, key |-> Any, live |-> FALSE, object |-> AtRest]
\* ShmSegmentName of a short topic that needs no sanitising.
Created(key, topic, object) ==
  [name |-> key \o <<".">> \o topic, key |-> key, live |-> FALSE, object |-> object]

MCKey    == <<"u", "0", ".", "a">>
MCDotted == DeriveIsolationKey(<<"h", ".">>)

\* The second name is a hashed one, the fourth object is overwritten.
MCDirectory ==
  <<Created(MCDotted, <<"a">>, AtRest),
    [name |-> <<"h", "0", "a">>, key |-> MCKey, live |-> FALSE,
     object |-> [AtRest EXCEPT !.version = FALSE]],
    Foreign(<<"h", ".", ".">>),
    Created(MCKey, <<"h">>, [AtRest EXCEPT !.magic = FALSE]),
    [Created(MCKey, <<"a">>, AtRest) EXCEPT !.live = TRUE]>>

Command(verb, topic, domain, yes) ==
  [verb |-> verb, topic |-> topic, raw |-> FALSE, domain |-> domain, yes |-> yes, json |-> FALSE]

MCCommands ==
  {Command("stat", <<"a">>, Any, FALSE), Command("clean", Any, Any, TRUE),
   Command("watch", <<"a">>, MCDotted, FALSE),
   Command("list", Any, MCDotted, FALSE), Command("list", Any, Any, TRUE)}
=============================================================================
