--------------------------- MODULE SessionsProofs ---------------------------
(***************************************************************************)
(* Proofs about Sessions: however many logouts purge and insert at once,   *)
(* a revoked token is denied until it has expired.                         *)
(***************************************************************************)
EXTENDS Sessions, TLAPS

(* The inductive invariant: a purge compares with a time that is past, and *)
(* what it visits and locks had expired by then.                           *)
PurgeOK(l) ==
  /\ cutoff[l] <= now
  /\ \A t \in todo[l] \cup locked[l] : 0 < exp[t] /\ exp[t] < cutoff[l]
LogoutOK(l) == /\ lpc[l] # "idle" => ltoken[l] \in Issued
               /\ lpc[l] # "purging" => todo[l] = {} /\ locked[l] = {}

IInv == /\ TypeOK
        /\ denylist \subseteq Issued
        /\ \A l \in Logouts : PurgeOK(l) /\ LogoutOK(l)
        /\ RevokedStaysDenied

---------------------------------------------------------------------------
(* Nothing is issued or revoked before the first step.                     *)
LEMMA InitInv == Init => IInv
BY LifetimeIsPositive, LastTickIsNat
   DEF Init, IInv, TypeOK, PurgeOK, LogoutOK, RevokedStaysDenied, Expired, Issued

(* While no logout moves, time may pass and tokens may be issued: what was *)
(* issued keeps its exp, what had expired stays expired.                   *)
LEMMA OutsideStepKeeps ==
  ASSUME IInv, TypeOK', UNCHANGED <<denylist, logoutVars>>, now <= now',
         \A t \in Issued : exp'[t] = exp[t]
  PROVE  IInv'
<1>1. Issued \subseteq Issued'
  BY DEF Issued
<1>2. ASSUME NEW l \in Logouts PROVE PurgeOK(l)' /\ LogoutOK(l)'
  BY <1>1, <1>2 DEF IInv, TypeOK, PurgeOK, LogoutOK, Issued, logoutVars
<1>3. RevokedStaysDenied'
  BY DEF IInv, TypeOK, LogoutOK, RevokedStaysDenied, Expired, Issued, logoutVars
<1> QED BY <1>1, <1>2, <1>3 DEF IInv

(* A step of logout m owes the invariant its own part, and may take off    *)
(* the denylist only what has expired.                                     *)
LEMMA LogoutStepKeeps ==
  ASSUME IInv, TypeOK', UNCHANGED <<now, exp>>,
         NEW m \in Logouts, PurgeOK(m)', LogoutOK(m)',
         \A l \in Logouts \ {m} : /\ lpc'[l] = lpc[l] /\ ltoken'[l] = ltoken[l]
                                  /\ cutoff'[l] = cutoff[l]
                                  /\ todo'[l] \subseteq todo[l] /\ locked'[l] = locked[l],
         denylist' \subseteq Issued,
         \A t \in denylist : t \in denylist' \/ exp[t] < now,
         (lpc[m] \in {"committed", "ok"} /\ ~Expired(ltoken[m], now) => ltoken[m] \in denylist)'
  PROVE  IInv'
<1>1. Issued' = Issued
  BY DEF Issued
<1>2. ASSUME NEW l \in Logouts \ {m} PROVE PurgeOK(l)' /\ LogoutOK(l)'
  BY <1>1, <1>2 DEF IInv, PurgeOK, LogoutOK
<1>3. ASSUME NEW l \in Logouts, lpc'[l] \in {"committed", "ok"}, ~Expired(ltoken[l], now)', l # m
      PROVE  ltoken'[l] \in denylist'
  <2>1. ltoken[l] \in denylist /\ exp[ltoken[l]] \in Nat
    BY <1>3 DEF IInv, TypeOK, RevokedStaysDenied, Expired, LogoutOK, Issued
  <2> QED BY <1>3, <2>1 DEF IInv, TypeOK, Expired
<1>4. RevokedStaysDenied'
  BY <1>3 DEF RevokedStaysDenied
<1> QED BY <1>1, <1>2, <1>4 DEF IInv

(* The clock, the logins and the authenticated requests.                   *)
LEMMA OutsideNext ==
  ASSUME IInv, \/ Tick
               \/ \E t \in Tokens : Issue(t)
               \/ \E r \in Requests : RequestStep(r)
  PROVE  IInv'
<1>1. CASE Tick
  BY <1>1, OutsideStepKeeps, LastTickIsNat DEF Tick, IInv, TypeOK, requestVars, logoutVars
<1>2. CASE \E t \in Tokens : Issue(t)
  BY <1>2, OutsideStepKeeps, LifetimeIsPositive
     DEF Issue, NewExp, IInv, TypeOK, requestVars, logoutVars, Issued
<1>3. CASE \E r \in Requests : RequestStep(r)
  <2>1. PICK r \in Requests : (\E t \in Tokens : Decodes(r, t)) \/ LooksUp(r)
    BY <1>3 DEF RequestStep
  <2>2. TypeOK'
    BY <2>1 DEF Decodes, LooksUp, IInv, TypeOK, logoutVars, Issued
  <2>3. UNCHANGED <<now, exp, denylist, logoutVars>>
    BY <2>1 DEF Decodes, LooksUp
  <2> QED BY <2>2, <2>3, OutsideStepKeeps DEF IInv, TypeOK
<1> QED BY <1>1, <1>2, <1>3

(* The steps of a logout up to its INSERT.                                 *)
LEMMA LogoutBeginsKeeps ==
  ASSUME IInv, NEW m \in Logouts, NEW t \in Tokens, LogoutBegins(m, t) PROVE IInv'
<1>1. TypeOK'
  BY DEF LogoutBegins, IInv, TypeOK, requestVars, Issued
<1>2. PurgeOK(m)' /\ LogoutOK(m)'
  BY DEF LogoutBegins, IInv, TypeOK, PurgeOK, LogoutOK, Issued
<1> QED BY <1>1, <1>2, LogoutStepKeeps DEF LogoutBegins, IInv, TypeOK

(* The rows a DELETE sees had expired when its logout read the clock.      *)
LEMMA PurgeBeginsKeeps ==
  ASSUME IInv, NEW m \in Logouts, PurgeBegins(m) PROVE IInv'
<1>1. TypeOK'
  BY DEF PurgeBegins, ExpiredRows, IInv, TypeOK, requestVars
<1>2. PurgeOK(m)' /\ LogoutOK(m)'
  BY DEF PurgeBegins, ExpiredRows, IInv, TypeOK, PurgeOK, LogoutOK, Issued
<1> QED BY <1>1, <1>2, LogoutStepKeeps DEF PurgeBegins, IInv, TypeOK

(* A row a logout locks was among those its DELETE has to visit.           *)
LEMMA PurgesRowKeeps ==
  ASSUME IInv, NEW m \in Logouts, NEW t \in Tokens, PurgesRow(m, t) PROVE IInv'
<1>1. TypeOK'
  BY DEF PurgesRow, IInv, TypeOK, requestVars
<1>2. PurgeOK(m)' /\ LogoutOK(m)'
  BY DEF PurgesRow, IInv, TypeOK, PurgeOK, LogoutOK, Issued
<1> QED BY <1>1, <1>2, LogoutStepKeeps DEF PurgesRow, IInv, TypeOK

(* The commit takes off the denylist only rows that have expired, and puts *)
(* its own token on it.                                                    *)
LEMMA InsertsAndCommitsKeeps ==
  ASSUME IInv, NEW m \in Logouts, InsertsAndCommits(m) PROVE IInv'
<1>1. ltoken[m] \in Issued /\ ltoken'[m] = ltoken[m]
  BY DEF InsertsAndCommits, IInv, LogoutOK
<1>2. TypeOK'
  BY <1>1 DEF InsertsAndCommits, LateRow, IInv, TypeOK, requestVars, Issued
<1>3. PurgeOK(m)' /\ LogoutOK(m)'
  BY <1>1 DEF InsertsAndCommits, IInv, TypeOK, PurgeOK, LogoutOK, Issued
<1>4. \A t \in denylist : t \in denylist' \/ exp[t] < now
  BY DEF InsertsAndCommits, IInv, TypeOK, PurgeOK, Issued
<1>5. denylist' \subseteq Issued /\ ltoken'[m] \in denylist'
  BY <1>1 DEF InsertsAndCommits, IInv
<1> QED BY <1>2, <1>3, <1>4, <1>5, LogoutStepKeeps DEF InsertsAndCommits, IInv, TypeOK

(* The answer changes no row.                                              *)
LEMMA LogoutAnswersKeeps ==
  ASSUME IInv, NEW m \in Logouts, LogoutAnswers(m) PROVE IInv'
<1>1. TypeOK'
  BY DEF LogoutAnswers, IInv, TypeOK, requestVars
<1>2. PurgeOK(m)' /\ LogoutOK(m)'
  BY DEF LogoutAnswers, IInv, TypeOK, PurgeOK, LogoutOK, Issued
<1> QED BY <1>1, <1>2, LogoutStepKeeps DEF LogoutAnswers, IInv, TypeOK, RevokedStaysDenied, Expired

(* An aborted logout leaves the table as it was.                           *)
LEMMA AbortKeeps ==
  ASSUME IInv, NEW m \in Logouts, lpc[m] # "idle", Abort(m) PROVE IInv'
<1>1. TypeOK'
  BY DEF Abort, IInv, TypeOK, requestVars
<1>2. PurgeOK(m)' /\ LogoutOK(m)'
  BY DEF Abort, IInv, TypeOK, PurgeOK, LogoutOK, Issued
<1> QED BY <1>1, <1>2, LogoutStepKeeps DEF Abort, IInv, TypeOK

(* Every step keeps the invariant: one case per action.                    *)
LEMMA NextInv == IInv /\ [Next]_vars => IInv'
<1> SUFFICES ASSUME IInv, [Next]_vars PROVE IInv'
  OBVIOUS
<1>1. CASE UNCHANGED vars
  <2>1. UNCHANGED <<denylist, logoutVars, exp, now>> /\ TypeOK'
    BY <1>1 DEF vars, IInv, TypeOK, logoutVars
  <2> QED BY <2>1, OutsideStepKeeps DEF IInv, TypeOK
<1>2. CASE \/ Tick
           \/ \E t \in Tokens : Issue(t)
           \/ \E r \in Requests : RequestStep(r)
  BY <1>2, OutsideNext
<1>3. ASSUME NEW m \in Logouts, LogoutStep(m) \/ LogoutFails(m) PROVE IInv'
  <2>1. CASE \E t \in Tokens : LogoutBegins(m, t) \/ PurgesRow(m, t)
    BY <2>1, LogoutBeginsKeeps, PurgesRowKeeps
  <2>2. CASE PurgeBegins(m)
    BY <2>2, PurgeBeginsKeeps
  <2>3. CASE InsertsAndCommits(m)
    BY <2>3, InsertsAndCommitsKeeps
  <2>4. CASE LogoutAnswers(m)
    BY <2>4, LogoutAnswersKeeps
  <2>5. CASE DeadlockVictim(m)
    <3>1. lpc[m] # "idle"
      BY <2>5 DEF DeadlockVictim, Deadlocked, WaitsFor
    <3> QED BY <2>5, <3>1, AbortKeeps DEF DeadlockVictim
  <2>6. CASE LogoutFails(m)
    BY <2>6, AbortKeeps DEF LogoutFails
  <2> QED BY <1>3, <2>1, <2>2, <2>3, <2>5, <2>6, <2>4 DEF LogoutStep
<1>4. CASE Quiescent
  BY <1>1, <1>4 DEF Quiescent
<1> QED BY <1>1, <1>2, <1>3, <1>4 DEF Next

(* The invariant holds in every reachable state, for any number of tokens, *)
(* requests and logouts, any lifetime and any bound on the clock.          *)
THEOREM Invariance == Spec => []IInv
BY InitInv, NextInv, PTL DEF Spec

(* No purge takes a token off the denylist before it has expired           *)
(* (revoke_token, security.py:74).                                         *)
THEOREM RevokedDenied == Spec => []RevokedStaysDenied
<1>1. IInv => RevokedStaysDenied
  BY DEF IInv
<1> QED BY <1>1, Invariance, PTL

(* A token that decode_access_token lets through after its logout was      *)
(* answered has expired since it was decoded.                              *)
THEOREM RevokedRejected == Spec => RevokedRejectedWhileLive
<1>1. ASSUME IInv, [Next]_vars, NEW r \in Requests,
             LetThrough(r), RevocationAnswered(rtoken[r])
      PROVE  Expired(rtoken[r], now)
  <2>1. rtoken[r] \notin denylist
    BY <1>1 DEF LetThrough, Next, vars, Quiescent, Tick, Issue, RequestStep, Decodes, LooksUp,
                LogoutStep, LogoutFails, LogoutBegins, PurgeBegins, PurgesRow, InsertsAndCommits,
                LogoutAnswers, DeadlockVictim, Abort, requestVars, IInv, TypeOK
  <2> QED BY <1>1, <2>1 DEF RevocationAnswered, IInv, RevokedStaysDenied
<1>2. IInv /\ [Next]_vars =>
        [\A r \in Requests :
           LetThrough(r) /\ RevocationAnswered(rtoken[r]) => Expired(rtoken[r], now)]_vars
  BY <1>1
<1> QED BY <1>2, Invariance, PTL DEF Spec, RevokedRejectedWhileLive

---------------------------------------------------------------------------
(* The table stays bounded *)

\* A running DELETE has yet to visit, or has locked, every row its clock
\* reading lets it delete, but those that came in late.
PurgeCovers ==
  \A l \in Logouts : lpc[l] = "purging" =>
    \A t \in denylist : exp[t] < cutoff[l] => t \in todo[l] \cup locked[l] \cup late
BoundInv == TableBounded /\ PurgeCovers

(* A step that adds no row, hides none from a purge and lets no logout     *)
(* commit leaves the table as bounded as it was.                           *)
LEMMA QuietStepBounds ==
  ASSUME IInv, BoundInv, UNCHANGED <<denylist, late>>, \A t \in denylist : exp'[t] = exp[t],
         \A l \in Logouts :
           /\ lpc'[l] \in {"purging", "committed", "ok"} => cutoff'[l] = cutoff[l]
           /\ lpc'[l] \in {"committed", "ok"} => lpc[l] \in {"committed", "ok"}
           /\ lpc'[l] = "purging" => \A t \in denylist : exp[t] < cutoff[l] =>
                t \in todo'[l] \cup locked'[l] \cup late
  PROVE  BoundInv'
BY DEF BoundInv, TableBounded, PurgeCovers

(* A commit takes its rows off the table for good, and the row it adds, if *)
(* a running or earlier purge could have deleted it, came in late.         *)
LEMMA CommitBounds ==
  ASSUME IInv, BoundInv, NEW m \in Logouts, InsertsAndCommits(m)
  PROVE  BoundInv'
<1>1. /\ denylist' = (denylist \ locked[m]) \cup {ltoken[m]}
      /\ late' = (late \ locked[m]) \cup LateRow(m)
      /\ lpc[m] = "purging" /\ todo[m] = {}
      /\ \A l \in Logouts : /\ cutoff'[l] = cutoff[l] /\ todo'[l] = todo[l] \ locked[m]
                            /\ l # m => lpc'[l] = lpc[l] /\ locked'[l] = locked[l]
      /\ lpc'[m] = "committed" /\ exp' = exp
  BY DEF InsertsAndCommits, IInv, TypeOK
<1>2. ASSUME NEW l \in Logouts, NEW t \in denylist', exp[t] < cutoff[l],
             t \notin denylist \ locked[m]
      PROVE  t \in late'
  <2>1. t = ltoken[m] /\ t \in Issued /\ t \in Tokens
    BY <1>1, <1>2 DEF IInv, LogoutOK, Issued
  <2>2. exp[t] < now
    BY <1>2, <2>1 DEF IInv, TypeOK, PurgeOK
  <2> QED BY <1>1, <1>2, <2>1, <2>2 DEF LateRow
<1>3. ASSUME NEW l \in Logouts, lpc'[l] \in {"committed", "ok"},
             NEW t \in denylist', exp[t] < cutoff[l]
      PROVE  t \in late'
  BY <1>1, <1>2, <1>3 DEF BoundInv, TableBounded, PurgeCovers
<1>4. ASSUME NEW l \in Logouts, lpc'[l] = "purging", NEW t \in denylist', exp[t] < cutoff[l]
      PROVE  t \in todo'[l] \cup locked'[l] \cup late'
  BY <1>1, <1>2, <1>4 DEF BoundInv, PurgeCovers
<1> QED BY <1>1, <1>3, <1>4 DEF BoundInv, TableBounded, PurgeCovers

(* Every step keeps the table bounded: one case per action.                *)
LEMMA NextBounds == IInv /\ BoundInv /\ [Next]_vars => BoundInv'
<1> SUFFICES ASSUME IInv, BoundInv, [Next]_vars PROVE BoundInv'
  OBVIOUS
<1> USE DEF IInv, TypeOK
<1>1. \A l \in Logouts : lpc[l] = "purging" => \A t \in denylist : exp[t] < cutoff[l] =>
                           t \in todo[l] \cup locked[l] \cup late
  BY DEF BoundInv, PurgeCovers
<1>2. CASE /\ UNCHANGED <<denylist, lpc, cutoff, todo, locked, late>>
           /\ \A t \in denylist : exp'[t] = exp[t]
  BY <1>1, <1>2, QuietStepBounds
<1>3. CASE Tick \/ Quiescent \/ UNCHANGED vars \/ \E r \in Requests : RequestStep(r)
  BY <1>2, <1>3 DEF Tick, Quiescent, vars, RequestStep, Decodes, LooksUp, logoutVars
<1>4. ASSUME NEW t \in Tokens, Issue(t) PROVE BoundInv'
  BY <1>2, <1>4 DEF Issue, Issued, logoutVars
<1>5. ASSUME NEW m \in Logouts, LogoutStep(m) \/ LogoutFails(m) PROVE BoundInv'
  <2>1. CASE \E t \in Tokens : LogoutBegins(m, t)
    BY <1>1, <2>1, QuietStepBounds DEF LogoutBegins
  <2>2. CASE \E t \in Tokens : PurgesRow(m, t)
    BY <1>1, <2>2, QuietStepBounds DEF PurgesRow
  <2>3. CASE PurgeBegins(m)
    BY <1>1, <2>3, QuietStepBounds DEF PurgeBegins, ExpiredRows
  <2>4. CASE InsertsAndCommits(m)
    BY <2>4, CommitBounds
  <2>5. CASE LogoutAnswers(m)
    BY <1>1, <2>5, QuietStepBounds DEF LogoutAnswers
  <2>6. CASE Abort(m)
    BY <1>1, <2>6, QuietStepBounds DEF Abort
  <2> QED BY <1>5, <2>1, <2>2, <2>3, <2>4, <2>5, <2>6 DEF LogoutStep, DeadlockVictim, LogoutFails
<1> QED BY <1>3, <1>4, <1>5 DEF Next

(* No row of a token that had expired outlives a committed logout, unless  *)
(* it came in late (revoke_token, security.py:70-74).                      *)
THEOREM TableStaysBounded == Spec => []TableBounded
<1>1. Init => BoundInv
  BY DEF Init, BoundInv, TableBounded, PurgeCovers
<1>2. BoundInv => TableBounded
  BY DEF BoundInv
<1> QED BY <1>1, <1>2, NextBounds, Invariance, PTL DEF Spec

---------------------------------------------------------------------------
(* The refinement of TokenPromise *)

(* The initial states map to the abstract one: nothing issued or asked.    *)
LEMMA PromiseInit == Init => Promise!Init
<1> SUFFICES ASSUME Init PROVE Promise!Init
  OBVIOUS
<1>1. Issued = {}
  BY DEF Init, Issued
<1> QED BY <1>1 DEF Init, Promise!Init, Answer, Outcome

(* Issuing and the passing of time.                                        *)
LEMMA PromiseOutside ==
  ASSUME IInv, Tick \/ \E t \in Tokens : Issue(t)
  PROVE  [Promise!Next]_Promise!vars
<1> DEFINE Live == {t \in Issued : ~Expired(t, now)}
<1>1. CASE Tick
  <2>1. Issued' = Issued /\ Live' = Live \ (Live \ Live')
    BY <1>1 DEF Tick, Issued, Expired, IInv, TypeOK
  <2>2. CASE Live \ Live' = {}
    BY <1>1, <2>1, <2>2 DEF Tick, Promise!vars, requestVars, logoutVars
  <2>3. CASE Live \ Live' # {}
    <3>1. Live \ Live' \in SUBSET Tokens
      BY DEF Issued
    <3>2. Promise!Die(Live \ Live')
      BY <1>1, <2>1, <2>3
         DEF Tick, requestVars, logoutVars, Promise!Die, Promise!asked, Promise!logouts
    <3> QED BY <3>1, <3>2 DEF Promise!Next
  <2> QED BY <2>2, <2>3
<1>2. ASSUME NEW t \in Tokens, Issue(t) PROVE Promise!Issue(t)
  <2>1. t \notin Issued /\ Issued' = Issued \cup {t}
    BY <1>2, LifetimeIsPositive DEF Issue, NewExp, Issued, IInv, TypeOK
  <2>2. Live' = Live \cup {t}
    BY <1>2, <2>1, LifetimeIsPositive DEF Issue, NewExp, Issued, Expired, IInv, TypeOK
  <2> QED BY <1>2, <2>1, <2>2
          DEF Issue, requestVars, logoutVars, Promise!Issue, Promise!asked, Promise!logouts
<1> QED BY <1>1, <1>2 DEF Promise!Next

(* Authenticated requests: a lookup decides, a decode asks.                *)
LEMMA PromiseRequest ==
  ASSUME IInv, NEW r \in Requests, RequestStep(r)
  PROVE  Promise!Next
<1> DEFINE Live == {t \in Issued : ~Expired(t, now)}
<1> DEFINE answers == [q \in Requests |-> Answer[rpc[q]]]
<1>1. CASE LooksUp(r)
  <2>1. answers' = [answers EXCEPT ![r] = IF rtoken[r] \in denylist THEN "refused" ELSE "accepted"]
    BY <1>1 DEF LooksUp, Answer, IInv, TypeOK
  <2>2. answers[r] = "pending" /\ Issued' = Issued /\ Live' = Live
    BY <1>1 DEF LooksUp, Answer, Issued, Expired
  <2>3. Promise!Decide(r)
    BY <1>1, <2>1, <2>2 DEF LooksUp, logoutVars, Promise!Decide, Promise!tokens, Promise!logouts
  <2> QED BY <2>3 DEF Promise!Next
<1>2. ASSUME NEW t \in Tokens, Decodes(r, t) PROVE Promise!Ask(r, t)
  <2>1. answers' = [answers EXCEPT ![r] = IF t \in Live THEN "pending" ELSE "refused"]
    BY <1>2 DEF Decodes, Answer, IInv, TypeOK
  <2>2. answers[r] = "none" /\ Issued' = Issued /\ Live' = Live
    BY <1>2 DEF Decodes, Answer, Issued, Expired
  <2> QED BY <1>2, <2>1, <2>2
          DEF Decodes, logoutVars, Promise!Ask, Promise!tokens, Promise!logouts
<1> QED BY <1>1, <1>2 DEF RequestStep, Promise!Next

(* What the places of a logout mean to its client.                         *)
LEMMA OutcomeValues ==
  /\ Outcome["idle"] = "none" /\ Outcome["purge"] = "pending" /\ Outcome["purging"] = "pending"
  /\ Outcome["committed"] = "revoked" /\ Outcome["ok"] = "ok" /\ Outcome["lost"] = "lost"
BY DEF Outcome

(* Logouts: the commit revokes, earlier statements stutter.                *)
LEMMA PromiseLogout ==
  ASSUME IInv, NEW m \in Logouts, LogoutStep(m) \/ LogoutFails(m)
  PROVE  [Promise!Next]_Promise!vars
<1> DEFINE Live == {t \in Issued : ~Expired(t, now)}
<1> DEFINE outcomes == [l \in Logouts |-> Outcome[lpc[l]]]
<1>1. UNCHANGED <<now, exp, requestVars>>
  BY DEF LogoutStep, LogoutFails, LogoutBegins, PurgeBegins, PurgesRow, InsertsAndCommits,
         LogoutAnswers, DeadlockVictim, Abort
<1>2. Issued' = Issued /\ Live' = Live
  BY <1>1 DEF Issued, Expired
<1> USE DEF requestVars, Promise!tokens, Promise!asked
<1>3. ASSUME NEW s, lpc' = [lpc EXCEPT ![m] = s]
      PROVE  outcomes' = [outcomes EXCEPT ![m] = Outcome[s]]
  BY <1>3 DEF IInv, TypeOK
<1>4. ASSUME NEW t \in Tokens, LogoutBegins(m, t) PROVE Promise!LogOut(m, t)
  <2>1. outcomes[m] = "none" /\ outcomes' = [outcomes EXCEPT ![m] = "pending"]
    <3>1. outcomes' = [outcomes EXCEPT ![m] = Outcome["purge"]]
      BY <1>4, <1>3 DEF LogoutBegins
    <3>2. outcomes[m] = "none"
      BY <1>4, OutcomeValues DEF LogoutBegins
    <3> QED BY <3>1, <3>2, OutcomeValues
  <2> QED BY <1>1, <1>2, <1>4, <2>1 DEF LogoutBegins, Promise!LogOut
<1>5. ASSUME PurgeBegins(m) \/ \E t \in Tokens : PurgesRow(m, t)
      PROVE  UNCHANGED Promise!vars
  <2>1. outcomes' = outcomes
    BY <1>5 DEF PurgeBegins, PurgesRow, Outcome, IInv, TypeOK
  <2> QED BY <1>1, <1>2, <1>5, <2>1 DEF PurgeBegins, PurgesRow, Promise!vars
<1>6. CASE InsertsAndCommits(m)
  <2>1. outcomes[m] = "pending" /\ outcomes' = [outcomes EXCEPT ![m] = "revoked"]
    <3>1. outcomes' = [outcomes EXCEPT ![m] = Outcome["committed"]]
      BY <1>6, <1>3 DEF InsertsAndCommits
    <3>2. outcomes[m] = "pending"
      BY <1>6, OutcomeValues DEF InsertsAndCommits
    <3> QED BY <3>1, <3>2, OutcomeValues
  <2>2. PICK F \in SUBSET Tokens : F = locked[m] /\ F \cap Live = {}
    BY DEF IInv, TypeOK, PurgeOK, Expired
  <2>3. Promise!Revoke(m, F)
    BY <1>1, <1>2, <1>6, <2>1, <2>2 DEF InsertsAndCommits, Promise!Revoke
  <2> QED BY <2>2, <2>3 DEF Promise!Next
<1>7. CASE LogoutAnswers(m)
  <2>1. outcomes[m] = "revoked" /\ outcomes' = [outcomes EXCEPT ![m] = "ok"]
    <3>1. outcomes' = [outcomes EXCEPT ![m] = Outcome["ok"]]
      BY <1>7, <1>3 DEF LogoutAnswers
    <3>2. outcomes[m] = "revoked"
      BY <1>7, OutcomeValues DEF LogoutAnswers
    <3> QED BY <3>1, <3>2, OutcomeValues
  <2>2. Promise!Confirm(m)
    BY <1>1, <1>2, <1>7, <2>1 DEF LogoutAnswers, Promise!Confirm
  <2> QED BY <2>2 DEF Promise!Next
<1>8. CASE DeadlockVictim(m) \/ LogoutFails(m)
  <2>1. lpc[m] \in {"purge", "purging", "committed"} /\ Abort(m)
    BY <1>8 DEF DeadlockVictim, Deadlocked, WaitsFor, LogoutFails
  <2>2. outcomes[m] \in {"pending", "revoked"} /\ outcomes' = [outcomes EXCEPT ![m] = "lost"]
    <3>1. outcomes' = [outcomes EXCEPT ![m] = Outcome["lost"]]
      BY <2>1, <1>3 DEF Abort
    <3>2. outcomes[m] \in {"pending", "revoked"}
      BY <2>1, OutcomeValues
    <3> QED BY <3>1, <3>2, OutcomeValues
  <2>3. Promise!Lose(m)
    BY <1>1, <1>2, <2>1, <2>2 DEF Abort, Promise!Lose
  <2> QED BY <2>3 DEF Promise!Next
<1> QED BY <1>4, <1>5, <1>6, <1>7, <1>8 DEF LogoutStep, Promise!Next

(* However the statements of requests and logouts interleave, die or wait  *)
(* for each other, what a client sees is a run of TokenPromise.            *)
THEOREM ImplementsPromise == Spec => PromiseSpec
<1>1. ASSUME IInv, [Next]_vars PROVE [Promise!Next]_Promise!vars
  <2>1. CASE UNCHANGED vars
    BY <2>1 DEF vars, Promise!vars, Issued, Expired
  <2>2. CASE Quiescent
    BY <2>1, <2>2 DEF Quiescent
  <2> QED BY <1>1, <2>1, <2>2, PromiseOutside, PromiseRequest, PromiseLogout DEF Next
<1> QED BY <1>1, PromiseInit, Invariance, PTL DEF Spec, PromiseSpec, Promise!Spec

(* Every variable keeps to its type.                                       *)
THEOREM TypeCorrect == Spec => []TypeOK
<1>1. IInv => TypeOK
  BY DEF IInv
<1> QED BY <1>1, Invariance, PTL

---------------------------------------------------------------------------
(* Waiting *)

(* Rows are locked by running logouts only, so a logout that cannot go on  *)
(* waits for one of those; and if none of them can go on, all of them wait *)
(* for one another (security.py:74-81).                                    *)
THEOREM LogoutsNotStuck == Spec => []NoLogoutStuck
<1>1. ASSUME IInv, NEW l \in Logouts, Running(l), ~CanGoOn(l)
      PROVE  \E m \in Logouts : Running(m) /\ WaitsFor(l, m)
  <2>1. lpc[l] = "purging"
    BY <1>1 DEF Running, CanGoOn
  <2>2. \A m \in Logouts : locked[m] # {} => Running(m)
    BY <1>1 DEF IInv, LogoutOK, Running
  <2>3. CASE todo[l] = {}
    <3>1. PICK m \in Logouts \ {l} : ltoken[l] \in locked[m]
      BY <1>1, <2>1, <2>3 DEF CanGoOn, LockedByOther
    <3> QED BY <2>1, <2>2, <2>3, <3>1 DEF WaitsFor
  <2>4. CASE todo[l] # {}
    <3>1. PICK t \in todo[l] : LockedByOther(t, l)
      BY <1>1, <2>1, <2>4 DEF CanGoOn
    <3>2. PICK m \in Logouts \ {l} : t \in locked[m]
      BY <3>1 DEF LockedByOther
    <3> QED BY <2>1, <2>2, <2>4, <3>1, <3>2 DEF WaitsFor
  <2> QED BY <2>3, <2>4
<1>2. ASSUME IInv, NEW k \in Logouts, Running(k)
      PROVE  \E l \in Logouts : Running(l) /\ (CanGoOn(l) \/ Deadlocked(l))
  <2> DEFINE S == {l \in Logouts : Running(l)}
  <2>1. CASE \A l \in S : ~CanGoOn(l)
    <3>1. \A a \in S : \E b \in S : WaitsFor(a, b)
      BY <1>1, <1>2, <2>1
    <3>2. k \in S /\ S \in SUBSET Logouts
      BY <1>2
    <3>3. Deadlocked(k)
      BY <3>1, <3>2 DEF Deadlocked
    <3> QED BY <1>2, <3>3
  <2> QED BY <2>1
<1>3. IInv => NoLogoutStuck
  BY <1>1, <1>2 DEF NoLogoutStuck
<1> QED BY <1>3, Invariance, PTL

(* No logout starts over (revoke_token).                                   *)
THEOREM LogoutsAdvancing == Spec => LogoutsAdvance
<1>1. ASSUME IInv, [Next]_vars, NEW l \in Logouts PROVE Advances(l)
  <2> USE DEF Advances
  <2>1. CASE UNCHANGED <<lpc, todo, locked>>
    BY <2>1
  <2>3. ASSUME NEW m \in Logouts, LogoutStep(m) \/ LogoutFails(m) PROVE Advances(l)
    <3>1. /\ todo \in [Logouts -> SUBSET Tokens] /\ locked \in [Logouts -> SUBSET Tokens]
          /\ lpc \in [Logouts -> DOMAIN Place]
      BY <1>1 DEF IInv, TypeOK, Place
    <3>2. CASE \E t \in Tokens : PurgesRow(m, t)
      BY <3>1, <3>2 DEF PurgesRow
    <3>3. ASSUME NEW s \in DOMAIN Place, lpc' = [lpc EXCEPT ![m] = s],
                 Place[s] > Place[lpc[m]],
                 \A k \in Logouts \ {m} : todo'[k] \subseteq todo[k] /\ locked'[k] = locked[k]
          PROVE  Advances(l)
      BY <3>1, <3>3
    <3>4. CASE PurgeBegins(m) \/ \E t \in Tokens : LogoutBegins(m, t)
      BY <3>1, <3>3, <3>4 DEF PurgeBegins, LogoutBegins, Place
    <3>5. CASE InsertsAndCommits(m) \/ LogoutAnswers(m)
      BY <3>1, <3>3, <3>5 DEF InsertsAndCommits, LogoutAnswers, Place
    <3>6. CASE DeadlockVictim(m) \/ LogoutFails(m)
      <4>1. lpc[m] \in {"purge", "purging", "committed"} /\ Abort(m)
        BY <3>6, <1>1 DEF DeadlockVictim, Deadlocked, WaitsFor, LogoutFails
      <4> QED BY <3>1, <3>3, <4>1 DEF Abort, Place
    <3> QED BY <2>3, <3>2, <3>4, <3>5, <3>6 DEF LogoutStep
  <2>4. CASE Tick \/ (\E t \in Tokens : Issue(t)) \/ Quiescent \/ UNCHANGED vars
    BY <2>1, <2>4 DEF Tick, Issue, Quiescent, vars, logoutVars
  <2>5. CASE \E r \in Requests : RequestStep(r)
    BY <2>1, <2>5 DEF RequestStep, Decodes, LooksUp, logoutVars
  <2> QED BY <1>1, <2>3, <2>4, <2>5 DEF Next
<1>2. IInv /\ [Next]_vars => [\A l \in Logouts : Advances(l)]_vars
  BY <1>1
<1> QED BY <1>2, Invariance, PTL DEF Spec, LogoutsAdvance
=============================================================================
