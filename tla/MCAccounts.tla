----------------------------- MODULE MCAccounts -----------------------------
(* Model-checking instances of Accounts: requests, founders and emails are  *)
(* interchangeable.                                                         *)
EXTENDS Accounts, TLC

MCSymmetry == Permutations(Requests) \cup Permutations(Founders) \cup Permutations(Emails)
=============================================================================
