---------------------------- MODULE TokenPromise ----------------------------
(***************************************************************************)
(* What the access tokens promise, without statements, locks or a clock: a *)
(* logout takes effect in one step and at once, its answer may get lost,   *)
(* the denylist forgets a token only when the token is dead, and a request *)
(* is decided at one moment, refused only if its token is dead or denied.  *)
(***************************************************************************)
EXTENDS FiniteSets

CONSTANTS Tokens, Requests, Logouts, None

VARIABLES issued,   \* tokens issued so far
          live,     \* those that have not expired
          denied,   \* the denylist
          answer,   \* answer[r]: none, pending, accepted or refused
          carried,  \* carried[r]: the token of request r
          outcome,  \* outcome[l]: none, pending, revoked, ok or lost
          subject   \* subject[l]: the token logout l revokes

tokens == <<issued, live>>
asked == <<answer, carried>>
logouts == <<outcome, subject>>
vars == <<issued, live, denied, answer, carried, outcome, subject>>

Init == /\ issued = {} /\ live = {} /\ denied = {}
        /\ answer = [r \in Requests |-> "none"]
        /\ carried = [r \in Requests |-> None]
        /\ outcome = [l \in Logouts |-> "none"]
        /\ subject = [l \in Logouts |-> None]

Issue(t) == /\ t \notin issued
            /\ issued' = issued \cup {t}
            /\ live' = live \cup {t}
            /\ UNCHANGED <<denied, asked, logouts>>

Die(D) == /\ D # {}
          /\ live' = live \ D
          /\ UNCHANGED <<issued, denied, asked, logouts>>

\* A request with a dead token is refused at once.
Ask(r, t) == /\ answer[r] = "none" /\ t \in issued
             /\ answer' = [answer EXCEPT ![r] = IF t \in live THEN "pending" ELSE "refused"]
             /\ carried' = [carried EXCEPT ![r] = t]
             /\ UNCHANGED <<tokens, denied, logouts>>

Decide(r) == /\ answer[r] = "pending"
             /\ answer' = [answer EXCEPT ![r] =
                             IF carried[r] \in denied THEN "refused" ELSE "accepted"]
             /\ UNCHANGED <<tokens, denied, carried, logouts>>

LogOut(l, t) == /\ outcome[l] = "none" /\ t \in issued
                /\ outcome' = [outcome EXCEPT ![l] = "pending"]
                /\ subject' = [subject EXCEPT ![l] = t]
                /\ UNCHANGED <<tokens, denied, asked>>

\* The token is denied from here on; dead ones may be forgotten with it.
Revoke(l, forgotten) ==
  /\ outcome[l] = "pending"
  /\ forgotten \cap live = {}
  /\ denied' = (denied \ forgotten) \cup {subject[l]}
  /\ outcome' = [outcome EXCEPT ![l] = "revoked"]
  /\ UNCHANGED <<tokens, asked, subject>>

Confirm(l) == /\ outcome[l] = "revoked"
              /\ outcome' = [outcome EXCEPT ![l] = "ok"]
              /\ UNCHANGED <<tokens, denied, asked, subject>>

\* A logout that fails has not touched the denylist since it last did.
Lose(l) == /\ outcome[l] \in {"pending", "revoked"}
           /\ outcome' = [outcome EXCEPT ![l] = "lost"]
           /\ UNCHANGED <<tokens, denied, asked, subject>>

Next == \/ \E t \in Tokens : Issue(t)
        \/ \E D \in SUBSET Tokens : Die(D)
        \/ \E r \in Requests : (\E t \in Tokens : Ask(r, t)) \/ Decide(r)
        \/ \E l \in Logouts : \/ \E t \in Tokens : LogOut(l, t)
                              \/ \E F \in SUBSET Tokens : Revoke(l, F)
                              \/ Confirm(l) \/ Lose(l)

Spec == Init /\ [][Next]_vars
=============================================================================
