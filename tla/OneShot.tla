------------------------------ MODULE OneShot ------------------------------
(***************************************************************************)
(* What Call and Reply promise their two ends, for one caller: each request *)
(* is answered at most once, the answer the server was told is accepted is  *)
(* the one its caller returns, and a caller that gives up has no accepted   *)
(* answer.  RpcTopic implements Spec for each of its callers.               *)
(***************************************************************************)
EXTENDS Naturals

CONSTANT Tokens   \* the correlation tokens, 0 excluded

VARIABLES
  token,      \* the request in flight, 0 if none
  answered,   \* its Reply was told kOk
  result      \* the Result being returned: status and the request it answers

vars == <<token, answered, result>>

Failed(status) == [status |-> status, value |-> 0]

Init == token = 0 /\ answered = FALSE /\ result = Failed("kNoServer")

\* The request is published.
Ask ==
  /\ token = 0 /\ token' \in Tokens
  /\ UNCHANGED <<answered, result>>

\* Reply returns kOk.
Answer ==
  /\ token # 0 /\ ~answered /\ answered' = TRUE
  /\ UNCHANGED <<token, result>>

\* Call reads the answer, and returns it.
Read ==
  /\ token # 0 /\ answered
  /\ result' = [status |-> "kOk", value |-> token]
  /\ UNCHANGED <<token, answered>>

Return ==
  /\ token # 0 /\ answered /\ result = [status |-> "kOk", value |-> token]
  /\ token' = 0 /\ answered' = FALSE
  /\ UNCHANGED result

\* Call returns at its deadline; a Reply from now on is late.
Expire ==
  /\ token # 0 /\ ~answered
  /\ token' = 0 /\ result' = Failed("kDeadlineExpired")
  /\ UNCHANGED answered

\* Call returns before it published a request.
Fail ==
  /\ token = 0 /\ result' \in {Failed("kNoServer"), Failed("kDeadlineExpired")}
  /\ UNCHANGED <<token, answered>>

Next == Ask \/ Answer \/ Read \/ Return \/ Expire \/ Fail

\* A step of this call, or of something else.
Step == [Next]_vars

Spec == Init /\ [][Next]_vars
=============================================================================
