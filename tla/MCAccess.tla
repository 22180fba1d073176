------------------------------ MODULE MCAccess ------------------------------
(* Model-checking instance of Access: two users of account A, its founder   *)
(* and one who was invited, and the founder of account B.                   *)
EXTENDS Access, TLC

CONSTANTS anna, adam, ben, A, B

MCAccountOf == (anna :> A) @@ (adam :> A) @@ (ben :> B)
MCSymmetry == Permutations(Requests)
=============================================================================
