------------------------------ MODULE Sessions ------------------------------
(***************************************************************************)
(* Access tokens: issued at login, checked by decode_access_token on every *)
(* authenticated request, revoked at logout through the revoked_tokens     *)
(* table, which every logout also purges. Requests and logouts interleave  *)
(* at their database statements while the clock runs.                      *)
(*                                                                         *)
(* denylist is the committed table. Rows a logout has deleted but not yet  *)
(* committed are in locked: other deletes and inserts of them wait.        *)
(***************************************************************************)
EXTENDS Integers, FiniteSets

CONSTANTS Tokens,    \* tokens that may be issued, each with its own jti
          Requests,  \* authenticated requests
          Logouts,   \* logout requests
          Lifetime,  \* ACCESS_TOKEN_EXPIRE_MINUTES, in ticks
          LastTick,  \* bound on the clock
          None       \* no token yet

ASSUME LifetimeIsPositive == Lifetime \in Nat \ {0}
ASSUME LastTickIsNat == LastTick \in Nat
ASSUME NoneIsNoToken == None \notin Tokens

VARIABLES now,       \* the clock of the API process
          exp,       \* exp[t]: the exp claim of token t, 0 until it is issued
          denylist,  \* the committed rows of revoked_tokens
          rpc,       \* rpc[r]: where request r stands, or its answer
          rtoken,    \* rtoken[r]: the token it carries
          lpc,       \* lpc[l]: where logout l stands, or its answer
          ltoken,    \* ltoken[l]: the token it revokes
          cutoff,    \* cutoff[l]: the time its purge compares with
          todo,      \* todo[l]: rows its DELETE has still to visit
          locked,    \* locked[l]: rows it has deleted, not committed
          late       \* history: rows of denylist inserted after their token expired

requestVars == <<rpc, rtoken>>
logoutVars == <<lpc, ltoken, cutoff, todo, locked, late>>
vars == <<now, exp, denylist, rpc, rtoken, lpc, ltoken, cutoff, todo, locked, late>>

Issued == {t \in Tokens : exp[t] > 0}
Expired(t, time) == exp[t] <= time     \* what jwt.decode rejects
Answered == {"accepted", "refused", "ok", "lost"}

Init == /\ now = 0
        /\ exp = [t \in Tokens |-> 0]
        /\ denylist = {}
        /\ rpc = [r \in Requests |-> "idle"]
        /\ rtoken = [r \in Requests |-> None]
        /\ lpc = [l \in Logouts |-> "idle"]
        /\ ltoken = [l \in Logouts |-> None]
        /\ cutoff = [l \in Logouts |-> 0]
        /\ todo = [l \in Logouts |-> {}]
        /\ locked = [l \in Logouts |-> {}]
        /\ late = {}

Tick == /\ now < LastTick
        /\ now' = now + 1
        /\ UNCHANGED <<exp, denylist, requestVars, logoutVars>>

\* create_access_token
NewExp == now + Lifetime

\* A login with the right password; register and accept_invite end the same way.
Issue(t) == /\ exp[t] = 0
            /\ exp' = [exp EXCEPT ![t] = NewExp]
            /\ UNCHANGED <<now, denylist, requestVars, logoutVars>>

---------------------------------------------------------------------------
(* decode_access_token: signature and exp first, then the denylist.        *)
Decodes(r, t) ==
  /\ rpc[r] = "idle" /\ t \in Issued
  /\ rpc' = [rpc EXCEPT ![r] = IF Expired(t, now) THEN "refused" ELSE "lookup"]
  /\ rtoken' = [rtoken EXCEPT ![r] = t]
  /\ UNCHANGED <<now, exp, denylist, logoutVars>>

LookupSkipped(r) ==   \* mutant: the denylist is not consulted
  /\ rpc[r] = "lookup"
  /\ rpc' = [rpc EXCEPT ![r] = "accepted"]
  /\ UNCHANGED <<now, exp, denylist, rtoken, logoutVars>>

LooksUp(r) ==
  /\ rpc[r] = "lookup"
  /\ rpc' = [rpc EXCEPT ![r] = IF rtoken[r] \in denylist THEN "refused" ELSE "accepted"]
  /\ UNCHANGED <<now, exp, denylist, rtoken, logoutVars>>

---------------------------------------------------------------------------
(* revoke_token *)

LogoutForgetsToken(l, t) ==   \* mutant: the payload is dropped, no jti is left
  /\ lpc[l] = "idle" /\ t \in Issued
  /\ lpc' = [lpc EXCEPT ![l] = "purge"]
  /\ cutoff' = [cutoff EXCEPT ![l] = now]
  /\ UNCHANGED <<now, exp, denylist, requestVars, ltoken, todo, locked, late>>

\* An expired token is revoked like any other (verify_exp False).
LogoutBegins(l, t) ==
  /\ lpc[l] = "idle" /\ t \in Issued
  /\ lpc' = [lpc EXCEPT ![l] = "purge"]
  /\ ltoken' = [ltoken EXCEPT ![l] = t]
  /\ cutoff' = [cutoff EXCEPT ![l] = now]
  /\ UNCHANGED <<now, exp, denylist, requestVars, todo, locked, late>>

EveryRow(l) == denylist   \* mutant: DELETE without its WHERE

NoRows(l) == {}   \* mutant: the condition of the DELETE never holds

\* The rows the DELETE sees when it starts.
ExpiredRows(l) == {t \in denylist : exp[t] < cutoff[l]}

PurgeBegins(l) ==
  /\ lpc[l] = "purge"
  /\ lpc' = [lpc EXCEPT ![l] = "purging"]
  /\ todo' = [todo EXCEPT ![l] = ExpiredRows(l)]
  /\ UNCHANGED <<now, exp, denylist, requestVars, ltoken, cutoff, locked, late>>

LockedByOther(t, l) == \E m \in Logouts \ {l} : t \in locked[m]

\* A row another logout has deleted is waited for, and skipped once it is gone
\* (see InsertsAndCommits).
PurgesRow(l, t) ==
  /\ lpc[l] = "purging" /\ t \in todo[l]
  /\ ~LockedByOther(t, l)
  /\ todo' = [todo EXCEPT ![l] = @ \ {t}]
  /\ locked' = [locked EXCEPT ![l] = @ \cup {t}]
  /\ UNCHANGED <<now, exp, denylist, requestVars, lpc, ltoken, cutoff, late>>

\* The row l inserts, if its token has expired already.
LateRow(l) == {t \in Issued \ (denylist \ locked[l]) : t = ltoken[l] /\ exp[t] < now}

\* INSERT ... ON CONFLICT DO NOTHING, then COMMIT. The rows l has deleted are
\* gone for every other DELETE, even if one of their tokens is inserted anew:
\* that row is no part of what a DELETE that is under way has seen.
InsertsAndCommits(l) ==
  /\ lpc[l] = "purging" /\ todo[l] = {}
  /\ ~LockedByOther(ltoken[l], l)
  /\ denylist' = (denylist \ locked[l]) \cup {ltoken[l]}
  /\ late' = (late \ locked[l]) \cup LateRow(l)
  /\ todo' = [m \in Logouts |-> todo[m] \ locked[l]]
  /\ locked' = [locked EXCEPT ![l] = {}]
  /\ lpc' = [lpc EXCEPT ![l] = "committed"]
  /\ UNCHANGED <<now, exp, requestVars, ltoken, cutoff>>

\* 204 goes out.
LogoutAnswers(l) ==
  /\ lpc[l] = "committed"
  /\ lpc' = [lpc EXCEPT ![l] = "ok"]
  /\ UNCHANGED <<now, exp, denylist, requestVars, ltoken, cutoff, todo, locked, late>>

AbortKeepsPurge(l) ==   \* mutant: each statement commits by itself
  /\ lpc' = [lpc EXCEPT ![l] = "lost"]
  /\ denylist' = denylist \ locked[l]
  /\ todo' = [todo EXCEPT ![l] = {}]
  /\ locked' = [locked EXCEPT ![l] = {}]
  /\ late' = late \ locked[l]
  /\ UNCHANGED <<now, exp, requestVars, ltoken, cutoff>>

AbortRetries(l) ==   \* mutant: a deadlock is answered by trying again
  /\ lpc' = [lpc EXCEPT ![l] = "purge"]
  /\ todo' = [todo EXCEPT ![l] = {}]
  /\ locked' = [locked EXCEPT ![l] = {}]
  /\ UNCHANGED <<now, exp, denylist, requestVars, ltoken, cutoff, late>>

AbortKeepsLocks(l) ==   \* mutant: the session is never closed
  /\ lpc' = [lpc EXCEPT ![l] = "lost"]
  /\ todo' = [todo EXCEPT ![l] = {}]
  /\ UNCHANGED <<now, exp, denylist, requestVars, ltoken, cutoff, locked, late>>

\* The session closes: an open transaction rolls back and its locks are gone.
Abort(l) ==
  /\ lpc' = [lpc EXCEPT ![l] = "lost"]
  /\ todo' = [todo EXCEPT ![l] = {}]
  /\ locked' = [locked EXCEPT ![l] = {}]
  /\ UNCHANGED <<now, exp, denylist, requestVars, ltoken, cutoff, late>>

\* Once it has committed, only the answer is lost.
LogoutFails(l) == lpc[l] \in {"purge", "purging", "committed"} /\ Abort(l)

\* l may be waiting for a row that m has deleted.
WaitsFor(l, m) ==
  /\ lpc[l] = "purging" /\ l # m
  /\ (IF todo[l] = {} THEN {ltoken[l]} ELSE todo[l]) \cap locked[m] # {}

\* l is one of several that may all be waiting for one another.
Deadlocked(l) == \E S \in SUBSET Logouts :
                   l \in S /\ \A a \in S : \E b \in S : WaitsFor(a, b)

\* PostgreSQL aborts one of them.
DeadlockVictim(l) == Deadlocked(l) /\ Abort(l)

---------------------------------------------------------------------------
RequestStep(r) == (\E t \in Tokens : Decodes(r, t)) \/ LooksUp(r)
LogoutStep(l) == \/ \E t \in Tokens : LogoutBegins(l, t) \/ PurgesRow(l, t)
                 \/ PurgeBegins(l) \/ InsertsAndCommits(l) \/ LogoutAnswers(l)
                 \/ DeadlockVictim(l)

Quiescent == /\ now = LastTick
             /\ \A r \in Requests : rpc[r] \in Answered
             /\ \A l \in Logouts : lpc[l] \in Answered
             /\ UNCHANGED vars

Next == \/ Tick
        \/ \E t \in Tokens : Issue(t)
        \/ \E r \in Requests : RequestStep(r)
        \/ \E l \in Logouts : LogoutStep(l) \/ LogoutFails(l)
        \/ Quiescent

Spec == Init /\ [][Next]_vars

(* Whatever has begun is driven on by the event loop and the database;     *)
(* nobody has to log in, send a request or log out.                        *)
Fairness == /\ \A r \in Requests : WF_vars(LooksUp(r))
            /\ \A l \in Logouts : WF_vars(lpc[l] # "idle" /\ LogoutStep(l))
FairSpec == Spec /\ Fairness

---------------------------------------------------------------------------
(* Properties *)

(* Every variable keeps to its type (security.py, models/revoked_token.py).*)
TypeOK == /\ now \in 0 .. LastTick
          /\ exp \in [Tokens -> Nat]
          /\ denylist \subseteq Tokens
          /\ rpc \in [Requests -> {"idle", "lookup", "accepted", "refused"}]
          /\ rtoken \in [Requests -> Tokens \cup {None}]
          /\ lpc \in [Logouts -> {"idle", "purge", "purging", "committed", "ok", "lost"}]
          /\ ltoken \in [Logouts -> Tokens \cup {None}]
          /\ cutoff \in [Logouts -> Nat]
          /\ todo \in [Logouts -> SUBSET Tokens]
          /\ locked \in [Logouts -> SUBSET Tokens]
          /\ late \subseteq Tokens

(* A token whose logout was committed, answered or not, stays in           *)
(* revoked_tokens until it has expired, whichever logouts purge the table  *)
(* meanwhile (revoke_token).                                               *)
RevokedStaysDenied ==
  \A l \in Logouts :
    lpc[l] \in {"committed", "ok"} /\ ~Expired(ltoken[l], now) => ltoken[l] \in denylist

(* The purges keep the table bounded (security.py:70-74): once a logout    *)
(* has committed, no row is left of a token that had expired when it read  *)
(* the clock, however many purges shared the rows, skipped them or rolled  *)
(* back, unless the row itself came in after its token had expired.        *)
TableBounded ==
  \A l \in Logouts : lpc[l] \in {"committed", "ok"} =>
    \A t \in denylist : exp[t] < cutoff[l] => t \in late

(* decode_access_token lets a token through after its logout was answered  *)
(* only if the token has expired since it was decoded.                     *)
RevocationAnswered(t) == \E l \in Logouts : lpc[l] = "ok" /\ ltoken[l] = t
LetThrough(r) == rpc[r] = "lookup" /\ rpc'[r] = "accepted"
RevokedRejectedWhileLive ==
  [][\A r \in Requests :
       LetThrough(r) /\ RevocationAnswered(rtoken[r]) => Expired(rtoken[r], now)]_vars

(* The interleaved statements, with their locks, deadlocks, crashes and    *)
(* the clock, keep what TokenPromise says: each logout revokes in one step *)
(* that forgets dead tokens only, or leaves the denylist alone, and each   *)
(* request is decided by the denylist of one moment (security.py:40-82).   *)
Answer == [idle |-> "none", lookup |-> "pending", accepted |-> "accepted", refused |-> "refused"]
Outcome == [idle |-> "none", purge |-> "pending", purging |-> "pending",
            committed |-> "revoked", ok |-> "ok", lost |-> "lost"]
Promise == INSTANCE TokenPromise
             WITH issued <- Issued,
                  live <- {t \in Issued : ~Expired(t, now)},
                  denied <- denylist,
                  answer <- [r \in Requests |-> Answer[rpc[r]]],
                  carried <- rtoken,
                  outcome <- [l \in Logouts |-> Outcome[lpc[l]]],
                  subject <- ltoken
PromiseSpec == Promise!Spec

(* Logouts waiting for each other's rows never all wait: purges take their *)
(* row locks in no fixed order, so a cycle can form (security.py:74-81). A *)
(* logout that cannot go on waits for a running one, never for the locks   *)
(* of one that is over, and some running one can go on or be given up.     *)
Running(l) == lpc[l] \in {"purge", "purging"}
CanGoOn(l) ==
  \/ lpc[l] = "purge"
  \/ lpc[l] = "purging" /\ \E t \in todo[l] : ~LockedByOther(t, l)
  \/ lpc[l] = "purging" /\ todo[l] = {} /\ ~LockedByOther(ltoken[l], l)
NoLogoutStuck ==
  /\ \A l \in Logouts :
       Running(l) /\ ~CanGoOn(l) => \E m \in Logouts : Running(m) /\ WaitsFor(l, m)
  /\ (\E l \in Logouts : Running(l)) =>
       \E l \in Logouts : Running(l) /\ (CanGoOn(l) \/ Deadlocked(l))

(* No logout starts over, not even the victim of a deadlock: a step brings *)
(* it nearer to its answer or leaves its DELETE fewer rows to visit. With  *)
(* NoLogoutStuck, it is answered after finitely many steps.                *)
Place == [idle |-> 0, purge |-> 1, purging |-> 2, committed |-> 3, ok |-> 4, lost |-> 4]
Advances(l) == \/ Place[lpc'[l]] > Place[lpc[l]]
               \/ /\ lpc'[l] = lpc[l] /\ todo'[l] \subseteq todo[l]
                  /\ todo'[l] = todo[l] => locked'[l] = locked[l]
LogoutsAdvance == [][\A l \in Logouts : Advances(l)]_vars

(* Every logout that reached the server is answered, although purges and   *)
(* inserts of several logouts wait for each other's rows.                  *)
LogoutsAnswered == \A l \in Logouts : lpc[l] = "purge" ~> lpc[l] \in Answered
=============================================================================
