----------------------------- MODULE MCSessions -----------------------------
(* Model-checking instances of Sessions: tokens, requests and logouts are   *)
(* interchangeable; the clock runs past the expiry of the first tokens.     *)
EXTENDS Sessions, TLC

MCSymmetry == Permutations(Tokens) \cup Permutations(Requests) \cup Permutations(Logouts)

(* Later in the life of the table: every token was revoked by a logout that *)
(* is over, and has expired, so that purges have rows to contend for.       *)
MCExpiredInit == /\ now = Lifetime + 1
                 /\ exp = [t \in Tokens |-> Lifetime]
                 /\ denylist = Tokens
                 /\ rpc = [r \in Requests |-> "idle"]
                 /\ rtoken = [r \in Requests |-> None]
                 /\ lpc = [l \in Logouts |-> "idle"]
                 /\ ltoken = [l \in Logouts |-> None]
                 /\ cutoff = [l \in Logouts |-> 0]
                 /\ todo = [l \in Logouts |-> {}]
                 /\ locked = [l \in Logouts |-> {}]
                 /\ late = {}
MCExpiredSpec == MCExpiredInit /\ [][Next]_vars /\ Fairness
=============================================================================
