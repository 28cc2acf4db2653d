----------------------------- MODULE MCLoanPool -----------------------------
(***************************************************************************)
(* Instance of LoanPool for TLC.                                           *)
(***************************************************************************)
EXTENDS LoanPool, TLC

LoanSymmetry == Permutations(Handles) \cup Permutations(Values)
=============================================================================
