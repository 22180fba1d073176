---------------------------- MODULE TenancyProofs ----------------------------
(***************************************************************************)
(* Each account has what Access models for itself: the proof that Access,  *)
(* seen from any one account, implements Tenancy. The requests of that     *)
(* account take its steps, are answered and refused for its own rows, and  *)
(* those of the others leave all it can see as it is.                      *)
(***************************************************************************)
EXTENDS AccessProofs

(* An incident that was found in an account is still there when its        *)
(* timeline is read (incidents.py:221-222).                                *)
Found(r) == At(r, "incidentLog", "read") => InAccount(call[r].item, Account(r))
FoundInv == IInv /\ \A r \in Requests : Found(r)

\* Request r ends without having done anything.
Failed(r) == \E code \in Refusals \cup {"lost"}, x \in Items : Fails(r, code, x)

(* A step that is neither a success nor a move to the next statement is a  *)
(* failure.                                                                *)
LEMMA RefusalsFail ==
  ASSUME IInv, NEW r \in Requests
  PROVE  /\ Crash(r) \/ ExplainsNone(r) => Failed(r) /\ pc[r] \in Steps
         /\ \A op \in Ops : Authenticates(r, op) /\ Fails(r, "denied", None) => Failed(r)
         /\ \A w \in Users \cup {None, Nobody} : Fails(r, "badRequest", w) => Failed(r)
         /\ \A w \in Users \cup {Nobody} \cup Requests : Fails(r, "notFound", w) => Failed(r)
<1>1. At(r, "updateIncident", "reason") => call[r].item \in Items /\ pc[r] \in Steps
  BY DEF At, IInv, RequestOK, Items, Steps
<1>2. Crash(r) \/ ExplainsNone(r) => Failed(r) /\ pc[r] \in Steps
  BY <1>1 DEF Crash, ExplainsNone, Failed, Refusals, Items
<1> QED BY <1>2 DEF Failed, Refusals, Items

(* A step of one request moves no other one.                               *)
LEMMA OthersStand ==
  ASSUME IInv, NEW r \in Requests, RequestStep(r), NEW q \in Requests \ {r}
  PROVE  pc'[q] = pc[q] /\ call'[q] = call[q] /\ seen'[q] = seen[q]
<1> USE DEF IInv, TypeOK, Go, database
<1>1. ASSUME Failed(r) \/ Succeeds(r) PROVE pc'[q] = pc[q] /\ call'[q] = call[q]
  BY <1>1 DEF Failed, Fails, Succeeds
<1>2. CASE Failed(r)
  BY <1>1, <1>2 DEF Failed, Fails
<1>3. ASSUME NEW S, Shows(r, S) PROVE pc'[q] = pc[q] /\ call'[q] = call[q] /\ seen'[q] = seen[q]
  BY <1>1, <1>3 DEF Shows
<1>4. CASE \/ \E u \in Users, x \in Roles : Arrives(r, u, x)
           \/ \E op \in Calls : Authenticates(r, op)
  BY <1>2, <1>4, CallsAreOps, RefusalsFail DEF Arrives, Authenticates
<1>5. CASE \/ \E i \in Requests, w \in Users \cup {None, Nobody} : ChecksAssignee(r, i, w)
           \/ \E w \in Users \cup {Nobody}, x \in Roles : SetRoleLoads(r, w, x)
           \/ \E i \in Requests : FindsIncident(r, i)
  BY <1>2, <1>5, RefusalsFail DEF ChecksAssignee, SetRoleLoads, FindsIncident
<1>6. CASE CreateCommits(r) \/ UpdateCommits(r) \/ SetRoleCommits(r) \/ InviteCommits(r)
  BY <1>1, <1>6 DEF CreateCommits, UpdateCommits, SetRoleCommits, InviteCommits
<1>7. CASE ExplainsNone(r) \/ Crash(r)
  BY <1>2, <1>7, RefusalsFail
<1>8. CASE ListsIncidents(r) \/ ListsUsers(r) \/ ListsInvites(r) \/ ReadsTimeline(r) \/ ListsAuditLogs(r)
  BY <1>3, <1>8 DEF ListsIncidents, ListsUsers, ListsInvites, ReadsTimeline, ListsAuditLogs
<1>9. CASE \E i \in Requests : GetsIncident(r, i)
  BY <1>2, <1>3, <1>9, RefusalsFail DEF GetsIncident
<1>10. CASE \E e \in Users \cup Requests : ReadsTrail(r, e)
  BY <1>3, <1>10 DEF ReadsTrail
<1>11. CASE UpdateMatchesNone(r) \/ \E e \in Users \cup {Nobody} : ChecksEmail(r, e)
  BY <1>2, <1>11, RefusalsFail DEF UpdateMatchesNone, ChecksEmail
<1> QED BY <1>4, <1>5, <1>6, <1>7, <1>8, <1>9, <1>10, <1>11 DEF RequestStep

(* Only the two commits touch an incident.                                 *)
LEMMA RowsTouched ==
  ASSUME IInv, NEW r \in Requests, RequestStep(r),
         ~CreateCommits(r), ~UpdateCommits(r)
  PROVE  incident' = incident
<1> USE DEF database
<1>1. CASE Failed(r)
  BY <1>1 DEF Failed, Fails
<1>2. ASSUME NEW S, Shows(r, S) PROVE incident' = incident
  BY <1>2 DEF Shows
<1>3. CASE \/ \E u \in Users, x \in Roles : Arrives(r, u, x)
           \/ \E op \in Calls : Authenticates(r, op)
           \/ \E i \in Requests, w \in Users \cup {None, Nobody} : ChecksAssignee(r, i, w)
           \/ \E w \in Users \cup {Nobody}, x \in Roles : SetRoleLoads(r, w, x)
           \/ \E i \in Requests : FindsIncident(r, i)
  BY <1>1, <1>3, CallsAreOps, RefusalsFail
     DEF Arrives, Authenticates, ChecksAssignee, SetRoleLoads, FindsIncident
<1>4. CASE \/ SetRoleCommits(r) \/ UpdateMatchesNone(r) \/ ExplainsNone(r) \/ Crash(r)
           \/ InviteCommits(r) \/ \E e \in Users \cup {Nobody} : ChecksEmail(r, e)
  BY <1>1, <1>4, RefusalsFail DEF SetRoleCommits, UpdateMatchesNone, InviteCommits, ChecksEmail
<1>5. CASE \/ ListsIncidents(r) \/ ListsUsers(r) \/ ListsInvites(r)
           \/ ReadsTimeline(r) \/ ListsAuditLogs(r)
           \/ \E i \in Requests : GetsIncident(r, i)
           \/ \E e \in Users \cup Requests : ReadsTrail(r, e)
  BY <1>1, <1>2, <1>5, RefusalsFail DEF ListsIncidents, ListsUsers, ListsInvites, ReadsTimeline,
                                        ListsAuditLogs, GetsIncident, ReadsTrail
<1> QED BY <1>3, <1>4, <1>5 DEF RequestStep

(* Incidents stay, in their account.                                       *)
LEMMA IncidentsStay ==
  ASSUME IInv, NEW r \in Requests, RequestStep(r), NEW i \in Requests, NEW x, InAccount(i, x)
  PROVE  InAccount(i, x)'
<1>1. CASE CreateCommits(r)
  <2>1. incident[r] = None
    BY <1>1, UnderWay DEF CreateCommits, At
  <2>2. incident'[i] = incident[i]
    BY <1>1, <2>1 DEF CreateCommits, InAccount, IInv, TypeOK
  <2> QED BY <2>2 DEF InAccount
<1>2. CASE UpdateCommits(r)
  <2>1. call[r].item \in Requests /\ AssigneeFits(r, call[r].arg)
    BY <1>2 DEF UpdateCommits, At, IInv, RequestOK
  <2>2. PICK j \in Requests : j = call[r].item
    BY <2>1
  <2>3. incident' = [incident EXCEPT ![j] = [@ EXCEPT !.assignee = call[r].arg]]
    BY <1>2, <2>2 DEF UpdateCommits
  <2>4. CASE i # j
    BY <2>3, <2>4 DEF InAccount, IInv, TypeOK
  <2>5. CASE i = j
    <3>1. incident[i] \in IncidentRow
      BY DEF InAccount, IInv, TypeOK
    <3>2. incident'[i] \in IncidentRow /\ incident'[i].account = incident[i].account
      BY <2>1, <2>3, <2>5, <3>1 DEF IInv, TypeOK, IncidentRow, AssigneeFits
    <3> QED BY <3>2, NoneIsNoRow DEF InAccount
  <2> QED BY <2>4, <2>5
<1>3. CASE ~CreateCommits(r) /\ ~UpdateCommits(r)
  BY <1>3, RowsTouched DEF InAccount
<1> QED BY <1>1, <1>2, <1>3

(* Only get_incident_or_404 brings a request to the read of a timeline.    *)
LEMMA FoundKept == FoundInv /\ [Next]_vars => FoundInv'
<1> SUFFICES ASSUME FoundInv, [Next]_vars PROVE FoundInv'
  OBVIOUS
<1>1. IInv /\ IInv'
  BY NextInv DEF FoundInv
<1>2. CASE UNCHANGED vars \/ Quiescent \/ \E u \in Users : Deactivate(u)
  BY <1>1, <1>2 DEF FoundInv, Found, At, InAccount, Account, Caller, vars, Quiescent, Deactivate
<1>3. ASSUME NEW r \in Requests, RequestStep(r), NEW q \in Requests PROVE Found(q)'
  <2>1. CASE q # r
    <3>1. pc'[q] = pc[q] /\ call'[q] = call[q]
      BY <1>1, <1>3, <2>1, OthersStand
    <3>2. At(q, "incidentLog", "read") => call[q].item \in Requests
      BY <1>1 DEF IInv, RequestOK
    <3>3. At(q, "incidentLog", "read") => InAccount(call[q].item, Account(q))'
      BY <1>1, <1>3, <3>1, <3>2, IncidentsStay DEF FoundInv, Found, InAccount, Account, Caller
    <3> QED BY <3>1, <3>3 DEF Found, At
  <2>2. CASE q = r
    <3>1. SUFFICES ASSUME pc'[r] = "read", call'[r].op = "incidentLog"
                   PROVE  InAccount(call[r].item, Account(r))'
      BY <2>2 DEF Found, At
    <3> USE DEF Go
    <3>2. /\ ~Failed(r) /\ ~Succeeds(r)
      BY <1>1, <3>1 DEF Failed, Fails, Refusals, Succeeds, IInv, TypeOK
    <3>3. ~(\E u \in Users, x \in Roles : Arrives(r, u, x))
      BY <1>1, <3>1 DEF Arrives, IInv, TypeOK
    <3>4. ~(\E op \in Calls : Authenticates(r, op))
      <4>1. FirstStep["incidentLog"] = "find"
        BY DEF FirstStep, Ops
      <4>2. ASSUME NEW op \in Ops, Authenticates(r, op) PROVE FALSE
        <5>1. PICK c : c = [call[r] EXCEPT !.op = op, !.role = RoleOf(r)]
          OBVIOUS
        <5>2. /\ pc' = [pc EXCEPT ![r] = FirstStep[op]]
              /\ call' = [call EXCEPT ![r] = c]
          BY <1>1, <3>2, <4>2, <5>1, RefusalsFail DEF Authenticates
        <5>3. call[r] \in CallRecord
          BY <1>1 DEF IInv, TypeOK
        <5>4. c.op = op
          BY <5>1, <5>3 DEF CallRecord
        <5>5. pc'[r] = FirstStep[op] /\ call'[r].op = op
          BY <1>1, <5>2, <5>4 DEF IInv, TypeOK
        <5> QED BY <3>1, <4>1, <5>5
      <4> QED BY <4>2, CallsAreOps
    <3>5. ~(\E i \in Requests, w \in Users \cup {None, Nobody} : ChecksAssignee(r, i, w))
      BY <1>1, <3>1, <3>2, RefusalsFail DEF ChecksAssignee, IInv, TypeOK
    <3>6. ~(\E w \in Users \cup {Nobody}, x \in Roles : SetRoleLoads(r, w, x))
      BY <1>1, <3>1, <3>2, RefusalsFail DEF SetRoleLoads, IInv, TypeOK
    <3>7. /\ ~CreateCommits(r) /\ ~UpdateCommits(r) /\ ~SetRoleCommits(r) /\ ~InviteCommits(r)
          /\ ~ExplainsNone(r) /\ ~Crash(r)
      BY <1>1, <3>2, RefusalsFail DEF CreateCommits, UpdateCommits, SetRoleCommits, InviteCommits
    <3>8. /\ ~ListsIncidents(r) /\ ~ListsUsers(r) /\ ~ListsInvites(r)
          /\ ~ReadsTimeline(r) /\ ~ListsAuditLogs(r)
          /\ ~(\E i \in Requests : GetsIncident(r, i))
          /\ ~(\E e \in Users \cup Requests : ReadsTrail(r, e))
      BY <1>1, <3>2, RefusalsFail
         DEF ListsIncidents, ListsUsers, ListsInvites, ReadsTimeline, ListsAuditLogs, GetsIncident,
             ReadsTrail, Shows
    <3>13. ~UpdateMatchesNone(r) /\ ~(\E e \in Users \cup {Nobody} : ChecksEmail(r, e))
      BY <1>1, <3>1, <3>2, RefusalsFail DEF UpdateMatchesNone, ChecksEmail, IInv, TypeOK
    <3>9. PICK i \in Requests : FindsIncident(r, i)
      BY <1>3, <3>3, <3>4, <3>5, <3>6, <3>7, <3>8, <3>13 DEF RequestStep
    <3>10. /\ InAccount(i, Account(r)) /\ UNCHANGED incident
           /\ call' = [call EXCEPT ![r].item = i]
      BY <1>1, <3>2, <3>9, RefusalsFail DEF FindsIncident, database
    <3>11. call[r] \in CallRecord
      BY <1>1 DEF IInv, TypeOK
    <3>12. call'[r].item = i /\ call'[r].by = call[r].by
      BY <1>1, <3>10, <3>11 DEF IInv, TypeOK, CallRecord
    <3> QED BY <3>10, <3>12 DEF InAccount, Account, Caller
  <2> QED BY <2>1, <2>2
<1> QED BY <1>1, <1>2, <1>3 DEF FoundInv, Next

(* Hence the incident of a timeline is in the account while it is read.    *)
LEMMA FoundInvariance == Spec => []FoundInv
<1>1. Init => FoundInv
  BY InitInv DEF FoundInv, Found, At, Init
<1> QED BY <1>1, FoundKept, PTL DEF Spec

(* What an account sees of a request that does not move.                   *)
LEMMA StandsInView ==
  ASSUME NEW a \in Accounts, NEW q \in Requests,
         pc'[q] = pc[q], call'[q] = call[q], seen'[q] = seen[q]
  PROVE  /\ RequestsOf(a)'[q] = RequestsOf(a)[q] /\ ShownOf(a)'[q] = ShownOf(a)[q]
         /\ AnswersOf(a)'[q] = AnswersOf(a)[q]
BY DEF RequestsOf, ShownOf, AnswersOf, LetIn, Answered, Mine, Caller

(* Views are functions on the requests.                                    *)
LEMMA ViewsAreFunctions ==
  ASSUME NEW a \in Accounts
  PROVE  /\ RequestsOf(a) = [q \in Requests |-> RequestsOf(a)[q]]
         /\ AnswersOf(a) = [q \in Requests |-> AnswersOf(a)[q]]
         /\ ShownOf(a) = [q \in Requests |-> ShownOf(a)[q]]
BY DEF RequestsOf, AnswersOf, ShownOf

(* The same of the next state.                                             *)
LEMMA ViewsAreFunctionsNext ==
  ASSUME NEW a \in Accounts
  PROVE  /\ RequestsOf(a)' = [q \in Requests |-> RequestsOf(a)'[q]]
         /\ AnswersOf(a)' = [q \in Requests |-> AnswersOf(a)'[q]]
         /\ ShownOf(a)' = [q \in Requests |-> ShownOf(a)'[q]]
BY DEF RequestsOf, AnswersOf, ShownOf

(* So a step changes an account's view of one request at most.             *)
LEMMA OneInView ==
  ASSUME IInv, NEW r \in Requests, RequestStep(r), NEW a \in Accounts
  PROVE  /\ RequestsOf(a)' = [RequestsOf(a) EXCEPT ![r] = RequestsOf(a)'[r]]
         /\ AnswersOf(a)' = [AnswersOf(a) EXCEPT ![r] = AnswersOf(a)'[r]]
         /\ ShownOf(a)' = [ShownOf(a) EXCEPT ![r] = ShownOf(a)'[r]]
<1>1. \A q \in Requests \ {r} :
        /\ RequestsOf(a)'[q] = RequestsOf(a)[q] /\ ShownOf(a)'[q] = ShownOf(a)[q]
        /\ AnswersOf(a)'[q] = AnswersOf(a)[q]
  BY OthersStand, StandsInView
<1>2. ASSUME NEW f, NEW g, f = [q \in Requests |-> f[q]], g = [q \in Requests |-> g[q]],
             \A q \in Requests \ {r} : g[q] = f[q]
      PROVE  g = [f EXCEPT ![r] = g[r]]
  BY <1>2
<1>3. RequestsOf(a)' = [RequestsOf(a) EXCEPT ![r] = RequestsOf(a)'[r]]
  BY <1>1, <1>2, ViewsAreFunctions, ViewsAreFunctionsNext
<1>4. AnswersOf(a)' = [AnswersOf(a) EXCEPT ![r] = AnswersOf(a)'[r]]
  BY <1>1, <1>2, ViewsAreFunctions, ViewsAreFunctionsNext
<1>5. ShownOf(a)' = [ShownOf(a) EXCEPT ![r] = ShownOf(a)'[r]]
  BY <1>1, <1>2, ViewsAreFunctions, ViewsAreFunctionsNext
<1> QED BY <1>3, <1>4, <1>5

RowsUnseen(a) ==   \* an account sees no row change
  UNCHANGED <<RolesOf(a), active \cap MembersOf(a), IncidentsOf(a), LogOf(a), InvitesOf(a)>>

(* Rows that do not change do not change in any view.                      *)
LEMMA RowsStandInView ==
  ASSUME NEW a \in Accounts, UNCHANGED <<role, active, incident, log, invites>>
  PROVE  RowsUnseen(a)
BY DEF RowsUnseen, RolesOf, IncidentsOf, InAccount, LogOf, InvitesOf

(* A function that may change at one place and does not.                   *)
LEMMA SameFunction ==
  ASSUME NEW S, NEW p \in S, NEW f, NEW g, f = [q \in S |-> f[q]],
         g = [f EXCEPT ![p] = g[p]], g[p] = f[p]
  PROVE  g = f
OBVIOUS

(* A view that stands at the one request that moves stands altogether.     *)
LEMMA ViewsStand ==
  ASSUME IInv, NEW r \in Requests, RequestStep(r), NEW a \in Accounts
  PROVE  /\ RequestsOf(a)'[r] = RequestsOf(a)[r] => RequestsOf(a)' = RequestsOf(a)
         /\ AnswersOf(a)'[r] = AnswersOf(a)[r] => AnswersOf(a)' = AnswersOf(a)
         /\ ShownOf(a)'[r] = ShownOf(a)[r] => ShownOf(a)' = ShownOf(a)
<1>1. RequestsOf(a)'[r] = RequestsOf(a)[r] => RequestsOf(a)' = RequestsOf(a)
  BY OneInView, ViewsAreFunctions, SameFunction
<1>2. AnswersOf(a)'[r] = AnswersOf(a)[r] => AnswersOf(a)' = AnswersOf(a)
  BY OneInView, ViewsAreFunctions, SameFunction
<1>3. ShownOf(a)'[r] = ShownOf(a)[r] => ShownOf(a)' = ShownOf(a)
  BY OneInView, ViewsAreFunctions, SameFunction
<1> QED BY <1>1, <1>2, <1>3

(* A step that changes nothing an account sees is none of its steps.       *)
LEMMA StaysAside ==
  ASSUME IInv, NEW r \in Requests, RequestStep(r), NEW a \in Accounts, RowsUnseen(a),
         RequestsOf(a)'[r] = RequestsOf(a)[r], ShownOf(a)'[r] = ShownOf(a)[r],
         AnswersOf(a)'[r] = AnswersOf(a)[r]
  PROVE  UNCHANGED Tenant(a)!vars
BY ViewsStand DEF RowsUnseen, Tenant!vars

(* A request that is neither let in nor answered is not seen at all.       *)
LEMMA Unseen ==
  ASSUME IInv, NEW r \in Requests, NEW a \in Accounts, ~LetIn(r, a), ~Answered(r, a)
  PROVE  /\ RequestsOf(a)[r] = [by |-> None, op |-> None, role |-> None]
         /\ AnswersOf(a)[r] = [code |-> None, item |-> None]
         /\ ShownOf(a)[r] = {}
<1>1. Mine(r, a) => seen[r] = {}
  BY UnderWay DEF Answered, Answers
<1> QED BY <1>1 DEF RequestsOf, ShownOf, AnswersOf

(* The same of the next state.                                             *)
LEMMA UnseenNext ==
  ASSUME IInv', NEW r \in Requests, NEW a \in Accounts, ~LetIn(r, a)', ~Answered(r, a)'
  PROVE  /\ RequestsOf(a)'[r] = [by |-> None, op |-> None, role |-> None]
         /\ AnswersOf(a)'[r] = [code |-> None, item |-> None]
         /\ ShownOf(a)'[r] = {}
<1>1. Mine(r, a)' => seen'[r] = {}
  BY DEF IInv, RequestOK, Answered, Answers
<1> QED BY <1>1 DEF RequestsOf, ShownOf, AnswersOf

(* A request that is let in is seen with what it was let in to do.         *)
LEMMA SeenPending ==
  ASSUME IInv, NEW r \in Requests, NEW a \in Accounts, LetIn(r, a)
  PROVE  /\ RequestsOf(a)[r] = [by |-> Caller(r), op |-> call[r].op, role |-> call[r].role]
         /\ RequestsOf(a)[r].by # None /\ Tenant(a)!Pending(r, call[r].op)
         /\ ShownOf(a)[r] = {} /\ AnswersOf(a)[r] = [code |-> None, item |-> None]
         /\ Caller(r) \in MembersOf(a) /\ ~Answered(r, a)
<1>1. /\ pc[r] # "ok" /\ Caller(r) \in MembersOf(a) /\ Caller(r) # None
      /\ ~Answered(r, a)
  BY NamesAreDistinct DEF LetIn, Steps, Mine, MembersOf, Answered, Answers, Refusals
<1>2. RequestsOf(a)[r] = [by |-> Caller(r), op |-> call[r].op, role |-> call[r].role]
  BY DEF RequestsOf
<1>3. ShownOf(a)[r] = {} /\ AnswersOf(a)[r] = [code |-> None, item |-> None]
  BY <1>1, UnderWay DEF ShownOf, AnswersOf
<1> QED BY <1>1, <1>2, <1>3 DEF Tenant!Pending

(* A token alone is not seen.                                              *)
LEMMA ArrivesAside ==
  ASSUME IInv, NEW r \in Requests, RequestStep(r), NEW a \in Accounts,
         NEW u \in Users, NEW x \in Roles, Arrives(r, u, x)
  PROVE  UNCHANGED Tenant(a)!vars
<1>1. IInv' /\ RowsUnseen(a)
  BY RequestKeeps, RowsStandInView DEF Arrives, database
<1>2. pc[r] = "idle" /\ pc'[r] = "arrived"
  BY DEF Arrives, Go, IInv, TypeOK
<1>3. ~LetIn(r, a) /\ ~LetIn(r, a)' /\ ~Answered(r, a) /\ ~Answered(r, a)'
  BY <1>2 DEF LetIn, Answered, Answers, Refusals, Steps
<1> QED BY <1>1, <1>3, Unseen, UnseenNext, StaysAside

(* What a failure leaves of a request: its caller and what it was about.   *)
LEMMA FailsLeaves ==
  ASSUME IInv, NEW r \in Requests, RequestStep(r), NEW a \in Accounts,
         NEW code \in Refusals \cup {"lost"}, NEW x \in Items, Fails(r, code, x)
  PROVE  /\ IInv' /\ RowsUnseen(a) /\ ~LetIn(r, a)' /\ (Mine(r, a)' <=> Mine(r, a))
         /\ pc'[r] = code /\ call'[r].item = x
<1>1. IInv' /\ RowsUnseen(a)
  BY RequestKeeps, RowsStandInView DEF Fails, database
<1>2. pc'[r] = code /\ call'[r].item = x /\ Caller(r)' = Caller(r)
  BY DEF Fails, Go, NoCall, Caller, IInv, TypeOK
<1> QED BY <1>1, <1>2 DEF LetIn, Mine, Steps, Refusals

(* An error, or a crash, drops a request that was let in.                  *)
LEMMA LostDrops ==
  ASSUME IInv, NEW r \in Requests, RequestStep(r), NEW a \in Accounts,
         pc[r] \in Steps, Fails(r, "lost", None)
  PROVE  Tenant(a)!Drop(r) \/ UNCHANGED Tenant(a)!vars
<1>1. /\ IInv' /\ RowsUnseen(a) /\ ~LetIn(r, a)' /\ ~Answered(r, a)' /\ ~Answered(r, a)
  BY FailsLeaves DEF Items, Answered, Answers, Refusals, Steps
<1>2. CASE ~LetIn(r, a)
  BY <1>1, <1>2, Unseen, UnseenNext, StaysAside
<1>3. CASE LetIn(r, a)
  <2>1. RequestsOf(a)' = [RequestsOf(a) EXCEPT ![r] = Tenant(a)!NoRequest]
    BY <1>1, UnseenNext, OneInView DEF Tenant!NoRequest
  <2>2. ShownOf(a)' = ShownOf(a) /\ AnswersOf(a)' = AnswersOf(a)
    <3>1. /\ ShownOf(a)'[r] = ShownOf(a)[r]
          /\ AnswersOf(a)'[r] = AnswersOf(a)[r]
      BY <1>1, <1>3, UnseenNext, SeenPending
    <3> QED BY <3>1, ViewsStand
  <2> QED BY <1>1, <1>3, <2>1, <2>2, SeenPending
          DEF RowsUnseen, Tenant!Drop, Tenant!Close, Tenant!rows
<1> QED BY <1>2, <1>3

(* A refusal is told to the account of the request, and only there.        *)
LEMMA RefusedInView ==
  ASSUME IInv, NEW r \in Requests, RequestStep(r), NEW a \in Accounts,
         pc[r] \in Steps \ {"arrived"}, NEW code \in Refusals, NEW x \in Items, Fails(r, code, x),
         LetIn(r, a) => Tenant(a)!Refusable(r, code, x)
  PROVE  Tenant(a)!Refuse(r, code, x) \/ UNCHANGED Tenant(a)!vars
<1>1. /\ IInv' /\ RowsUnseen(a) /\ ~LetIn(r, a)' /\ pc'[r] = code /\ call'[r].item = x
      /\ (Mine(r, a)' <=> Mine(r, a)) /\ ~Answered(r, a)
  BY FailsLeaves DEF Answered, Answers, Refusals, Steps
<1>2. CASE ~LetIn(r, a)
  <2>1. ~Answered(r, a)'
    BY <1>1, <1>2 DEF LetIn, Answered
  <2> QED BY <1>1, <1>2, <2>1, Unseen, UnseenNext, StaysAside
<1>3. CASE LetIn(r, a)
  <2>1. Answered(r, a)' /\ seen'[r] = {}
    BY <1>1, <1>3 DEF LetIn, Answered, Answers, IInv, RequestOK, Refusals
  <2>2. /\ RequestsOf(a)'[r] = Tenant(a)!NoRequest /\ ShownOf(a)'[r] = {}
        /\ AnswersOf(a)'[r] = [code |-> code, item |-> x]
    BY <1>1, <2>1 DEF RequestsOf, ShownOf, AnswersOf, Tenant!NoRequest
  <2>3. /\ RequestsOf(a)' = [RequestsOf(a) EXCEPT ![r] = Tenant(a)!NoRequest]
        /\ AnswersOf(a)' = [AnswersOf(a) EXCEPT ![r] = [code |-> code, item |-> x]]
        /\ ShownOf(a)' = ShownOf(a)
    <3>1. RequestsOf(a)' = [RequestsOf(a) EXCEPT ![r] = Tenant(a)!NoRequest]
      BY <2>2, OneInView
    <3>2. AnswersOf(a)' = [AnswersOf(a) EXCEPT ![r] = [code |-> code, item |-> x]]
      BY <2>2, OneInView
    <3>3. ShownOf(a)' = ShownOf(a)
      BY <1>3, <2>2, SeenPending, ViewsStand
    <3> QED BY <3>1, <3>2, <3>3
  <2> QED BY <1>1, <1>3, <2>3
          DEF RowsUnseen, Tenant!Refuse, Tenant!Close, Tenant!Say, Tenant!rows
<1> QED BY <1>2, <1>3

(* A statement before the last changes nothing that is seen.               *)
LEMMA MovesAside ==
  ASSUME IInv, NEW r \in Requests, RequestStep(r), NEW a \in Accounts,
         pc[r] \in Steps \ {"arrived"}, pc'[r] \in Steps \ {"arrived"},
         call'[r].by = call[r].by, call'[r].op = call[r].op, call'[r].role = call[r].role,
         UNCHANGED <<database, seen>>
  PROVE  UNCHANGED Tenant(a)!vars
<1>1. RowsUnseen(a)
  BY RowsStandInView DEF database
<1>2. LetIn(r, a)' <=> LetIn(r, a)
  BY DEF LetIn, Mine, Caller
<1>3. RequestsOf(a)'[r] = RequestsOf(a)[r]
  BY <1>2 DEF RequestsOf, Caller
<1>4. ShownOf(a)'[r] = ShownOf(a)[r]
  BY DEF ShownOf, Mine, Caller
<1>5. AnswersOf(a)'[r] = AnswersOf(a)[r]
  <2>1. ~Answered(r, a) /\ ~Answered(r, a)'
    BY DEF Answered, Answers, Refusals, Steps
  <2> QED BY <2>1 DEF AnswersOf
<1> QED BY <1>1, <1>3, <1>4, <1>5, StaysAside

(* What the two say of roles is the same.                                  *)
LEMMA SameRights ==
  ASSUME NEW a \in Accounts, NEW op \in Ops, NEW x \in Roles
  PROVE  x \in Allowed[op] <=> Tenant(a)!May(x, op)
BY DEF Allowed, Ops, Roles, Tenant!May

(* get_current_user and RequireRole let a member in by the member's row.   *)
LEMMA AuthenticatesLetsIn ==
  ASSUME IInv, NEW r \in Requests, RequestStep(r), NEW a \in Accounts,
         NEW op \in Ops, Authenticates(r, op), ~Fails(r, "denied", None)
  PROVE  \/ \E u \in MembersOf(a) : Tenant(a)!LetIn(r, u, op)
         \/ UNCHANGED Tenant(a)!vars
<1>1. IInv' /\ RowsUnseen(a)
  BY RequestKeeps, RowsStandInView DEF Authenticates, database
<1>2. PICK c : c = [call[r] EXCEPT !.op = op, !.role = RoleOf(r)]
  OBVIOUS
<1>3. /\ pc[r] = "arrived" /\ Caller(r) \in active /\ RoleOf(r) \in Allowed[op]
      /\ pc' = [pc EXCEPT ![r] = FirstStep[op]] /\ call' = [call EXCEPT ![r] = c]
      /\ UNCHANGED <<database, held, seen>>
  BY <1>2 DEF Authenticates, Go
<1>4. call[r] \in CallRecord /\ Caller(r) \in Users /\ RoleOf(r) \in Roles
  BY <1>3 DEF IInv, TypeOK, RequestOK, Steps, RoleOf
<1>5. c.by = Caller(r) /\ c.op = op /\ c.role = RoleOf(r)
  BY <1>2, <1>4 DEF CallRecord, Caller
<1>6. /\ pc'[r] = FirstStep[op] /\ call'[r] = c /\ Caller(r)' = Caller(r)
      /\ FirstStep[op] \in Steps \ {"arrived"}
  BY <1>3, <1>5 DEF IInv, TypeOK, FirstStep, Ops, Steps, Caller
<1>7. /\ ~LetIn(r, a) /\ (LetIn(r, a)' <=> Caller(r) \in MembersOf(a))
      /\ ~Answered(r, a) /\ ~Answered(r, a)'
  BY <1>3, <1>6 DEF LetIn, Answered, Answers, Refusals, Steps, Mine
<1>8. /\ RequestsOf(a)[r] = Tenant(a)!NoRequest /\ ShownOf(a)[r] = {}
      /\ AnswersOf(a)[r] = Tenant(a)!NoAnswer
  BY <1>7, Unseen DEF Tenant!NoRequest, Tenant!NoAnswer
<1>9. CASE Caller(r) \notin MembersOf(a)
  BY <1>1, <1>7, <1>9, Unseen, UnseenNext, StaysAside
<1>10. CASE Caller(r) \in MembersOf(a)
  <2>1. PICK u \in MembersOf(a) : u = Caller(r)
    BY <1>10
  <2>2. RequestsOf(a)'[r] = [by |-> u, op |-> op, role |-> RoleOf(r)]
    BY <1>5, <1>6, <1>7, <1>10, <2>1 DEF RequestsOf
  <2>3. ShownOf(a)'[r] = {} /\ AnswersOf(a)'[r] = AnswersOf(a)[r]
    <3>1. seen'[r] = {}
      BY <1>3, UnderWay
    <3> QED BY <1>7, <3>1 DEF ShownOf, AnswersOf
  <2>4. RoleOf(r) = RolesOf(a)[u]
    BY <2>1 DEF RolesOf, RoleOf
  <2>5. RequestsOf(a)' = [RequestsOf(a) EXCEPT ![r] = [by |-> u, op |-> op, role |-> RolesOf(a)[u]]]
    BY <2>2, <2>4, OneInView
  <2>6. ShownOf(a)' = ShownOf(a) /\ AnswersOf(a)' = AnswersOf(a)
    BY <1>8, <2>3, ViewsStand
  <2>7. Tenant(a)!May(RolesOf(a)[u], op)
    BY <1>3, <1>4, <2>4, SameRights
  <2>8. u \in active \cap MembersOf(a) /\ Tenant(a)!New(r)
    BY <1>3, <1>8, <2>1 DEF Tenant!New, Tenant!NoRequest
  <2>9. Tenant(a)!LetIn(r, u, op)
    BY <1>1, <2>5, <2>6, <2>7, <2>8 DEF RowsUnseen, Tenant!LetIn, Tenant!rows
  <2> QED BY <2>9
<1> QED BY <1>9, <1>10

(* And they turn away only a member whose row does not allow it.           *)
LEMMA AuthenticatesDenies ==
  ASSUME IInv, NEW r \in Requests, RequestStep(r), NEW a \in Accounts,
         NEW op \in Ops, Authenticates(r, op), Fails(r, "denied", None)
  PROVE  \/ \E u \in MembersOf(a) : Tenant(a)!Deny(r, u, op)
         \/ UNCHANGED Tenant(a)!vars
<1>1. /\ IInv' /\ RowsUnseen(a) /\ ~LetIn(r, a)' /\ pc'[r] = "denied" /\ call'[r].item = None
      /\ (Mine(r, a)' <=> Mine(r, a))
  BY FailsLeaves DEF Refusals, Items
<1>2. pc[r] = "arrived" /\ ~(Caller(r) \in active /\ RoleOf(r) \in Allowed[op])
  <2>1. FirstStep[op] # "denied"
    BY DEF FirstStep, Ops
  <2> QED BY <1>1, <2>1 DEF Authenticates, Go, IInv, TypeOK
<1>3. ~LetIn(r, a) /\ ~Answered(r, a)
  BY <1>2 DEF LetIn, Answered, Answers, Refusals
<1>4. CASE ~Mine(r, a)
  <2>1. ~Answered(r, a)'
    BY <1>1, <1>4 DEF Answered
  <2>2. /\ RequestsOf(a)'[r] = RequestsOf(a)[r] /\ ShownOf(a)'[r] = ShownOf(a)[r]
        /\ AnswersOf(a)'[r] = AnswersOf(a)[r]
    BY <1>1, <1>3, <2>1, Unseen, UnseenNext
  <2>3. UNCHANGED Tenant(a)!vars
    BY <1>1, <2>2, StaysAside
  <2> QED BY <2>3
<1>5. CASE Mine(r, a)
  <2>1. PICK u \in MembersOf(a) : u = Caller(r)
    BY <1>5 DEF Mine
  <2>2. RoleOf(r) = RolesOf(a)[u] /\ RoleOf(r) \in Roles
    BY <2>1 DEF RolesOf, RoleOf, MembersOf, IInv, TypeOK
  <2>3. ~(u \in active \cap MembersOf(a) /\ Tenant(a)!May(RolesOf(a)[u], op))
    BY <1>2, <2>1, <2>2, SameRights
  <2>4. Answered(r, a)' /\ seen'[r] = {}
    BY <1>1, <1>5 DEF Answered, Answers, Refusals, IInv, RequestOK
  <2>5. /\ RequestsOf(a)'[r] = RequestsOf(a)[r] /\ ShownOf(a)'[r] = ShownOf(a)[r]
        /\ AnswersOf(a)'[r] = [code |-> "denied", item |-> None] /\ Tenant(a)!New(r)
    <3>1. /\ RequestsOf(a)[r] = Tenant(a)!NoRequest /\ ShownOf(a)[r] = {}
          /\ AnswersOf(a)[r] = Tenant(a)!NoAnswer
      BY <1>3, Unseen DEF Tenant!NoRequest, Tenant!NoAnswer
    <3>2. RequestsOf(a)'[r] = Tenant(a)!NoRequest /\ ShownOf(a)'[r] = {}
      BY <1>1, <2>4 DEF RequestsOf, ShownOf, Tenant!NoRequest
    <3>3. AnswersOf(a)'[r] = [code |-> "denied", item |-> None]
      BY <1>1, <2>4 DEF AnswersOf
    <3> QED BY <3>1, <3>2, <3>3 DEF Tenant!New, Tenant!NoRequest
  <2>6. /\ RequestsOf(a)' = RequestsOf(a) /\ ShownOf(a)' = ShownOf(a)
        /\ AnswersOf(a)' = [AnswersOf(a) EXCEPT ![r] = [code |-> "denied", item |-> None]]
    BY <2>5, ViewsStand, OneInView
  <2>7. Tenant(a)!Deny(r, u, op)
    BY <1>1, <2>3, <2>5, <2>6 DEF RowsUnseen, Tenant!Deny, Tenant!Say, Tenant!rows
  <2> QED BY <2>7
<1> QED BY <1>4, <1>5

(* A success ends the request, with what it shows.                         *)
LEMMA SucceedsEnds ==
  ASSUME IInv, NEW r \in Requests, RequestStep(r), NEW a \in Accounts,
         Succeeds(r), LetIn(r, a)
  PROVE  Tenant(a)!Ends(r, call[r].op, seen'[r])
<1>1. /\ pc[r] \in Steps \ {"arrived"} /\ pc'[r] = "ok" /\ Caller(r)' = Caller(r)
      /\ Caller(r) \in MembersOf(a) /\ call'[r].item = None
  BY SucceedsKeeps DEF LetIn, Mine, Succeeds, NoCall, IInv, TypeOK
<1>2. ~LetIn(r, a)' /\ Mine(r, a)' /\ Answered(r, a)'
  BY <1>1 DEF LetIn, Mine, Steps, Answered, Answers
<1>3. RequestsOf(a)'[r] = Tenant(a)!NoRequest
  BY <1>2 DEF RequestsOf, Tenant!NoRequest
<1>4. ShownOf(a)'[r] = seen'[r] /\ AnswersOf(a)'[r] = [code |-> "ok", item |-> None]
  BY <1>1, <1>2 DEF ShownOf, AnswersOf
<1>5. RequestsOf(a)' = [RequestsOf(a) EXCEPT ![r] = Tenant(a)!NoRequest]
  BY <1>3, OneInView
<1>6. ShownOf(a)' = [ShownOf(a) EXCEPT ![r] = seen'[r]]
  BY <1>4, OneInView
<1>7. AnswersOf(a)' = [AnswersOf(a) EXCEPT ![r] = [code |-> "ok", item |-> None]]
  BY <1>4, OneInView
<1>8. Tenant(a)!Pending(r, call[r].op)
  BY SeenPending
<1> QED BY <1>5, <1>6, <1>7, <1>8 DEF Tenant!Ends, Tenant!Close, Tenant!Say

(* The success of another account's request is not seen.                   *)
LEMMA SucceedsAside ==
  ASSUME IInv, NEW r \in Requests, RequestStep(r), NEW a \in Accounts,
         Succeeds(r), pc[r] \in Steps \ {"arrived"}, ~Mine(r, a), RowsUnseen(a)
  PROVE  UNCHANGED Tenant(a)!vars
<1>1. Caller(r)' = Caller(r)
  BY SucceedsKeeps
<1>2. ~Mine(r, a)' /\ ~LetIn(r, a) /\ ~LetIn(r, a)' /\ ~Answered(r, a) /\ ~Answered(r, a)'
  BY <1>1 DEF Mine, LetIn, Answered
<1>3. RequestsOf(a)'[r] = RequestsOf(a)[r]
  BY <1>2 DEF RequestsOf
<1>4. ShownOf(a)'[r] = ShownOf(a)[r]
  BY <1>2 DEF ShownOf
<1>5. AnswersOf(a)'[r] = AnswersOf(a)[r]
  BY <1>2 DEF AnswersOf
<1> QED BY <1>3, <1>4, <1>5, StaysAside

(* Commits *)

(* An account's part of a log that grows.                                  *)
LEMMA LogOfGrows ==
  ASSUME IInv, NEW a \in Accounts, NEW e \in LogEntry, log' = Append(log, e)
  PROVE  /\ e.account # a => LogOf(a)' = LogOf(a)
         /\ e.account = a =>
              \E k \in DOMAIN LogOf(a)' \ DOMAIN LogOf(a) :
                LogOf(a)' = [j \in DOMAIN LogOf(a) \cup {k} |->
                               IF j = k THEN e ELSE LogOf(a)[j]]
<1> DEFINE n == Len(log) + 1
           D == {j \in DOMAIN log : log[j].account = a}
<1>1. log \in Seq(LogEntry)
  BY DEF IInv, TypeOK
<1>2. /\ DOMAIN log' = DOMAIN log \cup {n} /\ n \notin DOMAIN log /\ log'[n] = e
      /\ \A j \in DOMAIN log : log'[j] = log[j]
  BY <1>1
<1>3. /\ LogOf(a) = [k \in D |-> log[k]]
      /\ LogOf(a)' = [k \in {j \in DOMAIN log' : log'[j].account = a} |-> log'[k]]
  BY DEF LogOf
<1> HIDE DEF n
<1>4. CASE e.account # a
  <2>1. {j \in DOMAIN log' : log'[j].account = a} = D
    BY <1>2, <1>4
  <2> QED BY <1>2, <1>3, <1>4, <2>1
<1>5. CASE e.account = a
  <2>1. {j \in DOMAIN log' : log'[j].account = a} = D \cup {n} /\ n \notin D
    BY <1>2, <1>5
  <2>2. DOMAIN LogOf(a) = D /\ DOMAIN LogOf(a)' = D \cup {n}
    BY <1>3, <2>1
  <2>3. LogOf(a)' = [j \in D \cup {n} |-> IF j = n THEN e ELSE LogOf(a)[j]]
    BY <1>2, <1>3, <2>1
  <2> QED BY <1>5, <2>1, <2>2, <2>3
<1> QED BY <1>4, <1>5

(* The account of a request that is let in is the caller's.                *)
LEMMA AccountInView ==
  ASSUME NEW r \in Requests, NEW a \in Accounts, LetIn(r, a)
  PROVE  Account(r) = a /\ Caller(r) \in Users
BY DEF LetIn, Mine, MembersOf, Account

(* record_audit_log adds the entry to the log of the caller's account,     *)
(* under a name that is new there.                                         *)
LEMMA LogsInView ==
  ASSUME IInv, NEW r \in Requests, NEW a \in Accounts, LetIn(r, a),
         NEW entity \in Users \cup Requests, NEW i \in Requests \cup {None},
         NEW x \in Roles \cup {None}, Logs(r, entity, i, x)
  PROVE  Tenant(a)!Logs(r, entity, i, x)
<1>1. PICK e : e = [account |-> a, actor |-> Caller(r), entity |-> entity,
                    incident |-> i, role |-> x]
  OBVIOUS
<1>2. e \in LogEntry /\ e.account = a /\ log' = Append(log, e)
  BY <1>1, AccountInView DEF LogEntry, Logs
<1>3. PICK k \in DOMAIN LogOf(a)' \ DOMAIN LogOf(a) :
        LogOf(a)' = [j \in DOMAIN LogOf(a) \cup {k} |-> IF j = k THEN e ELSE LogOf(a)[j]]
  BY <1>2, LogOfGrows
<1>4. RequestsOf(a)[r] = [by |-> Caller(r), op |-> call[r].op, role |-> call[r].role]
  BY SeenPending
<1>5. RequestsOf(a)[r].by = Caller(r)
  BY <1>4
<1> QED BY <1>1, <1>3, <1>5 DEF Tenant!Logs

(* The entry of another account's request is not seen.                     *)
LEMMA LogsAside ==
  ASSUME IInv, NEW r \in Requests, NEW a \in Accounts,
         Caller(r) \in Users, Account(r) # a,
         NEW entity \in Users \cup Requests, NEW i \in Requests \cup {None},
         NEW x \in Roles \cup {None}, Logs(r, entity, i, x)
  PROVE  LogOf(a)' = LogOf(a)
<1>1. PICK e : e = [account |-> Account(r), actor |-> Caller(r), entity |-> entity,
                    incident |-> i, role |-> x]
  OBVIOUS
<1>2. e \in LogEntry /\ e.account # a /\ log' = Append(log, e)
  BY <1>1, UsersHaveAccounts DEF LogEntry, Logs, Account
<1> QED BY <1>2, LogOfGrows

(* An account's part of the incidents, when one of them is written.        *)
LEMMA IncidentsOfWritten ==
  ASSUME IInv, NEW a \in Accounts, NEW i \in Requests, NEW n \in IncidentRow,
         incident' = [incident EXCEPT ![i] = n]
  PROVE  /\ n.account = a => IncidentsOf(a)' = [IncidentsOf(a) EXCEPT ![i] = n]
         /\ n.account # a /\ ~InAccount(i, a) => IncidentsOf(a)' = IncidentsOf(a)
<1>1. incident'[i] = n /\ n # None /\ \A j \in Requests \ {i} : incident'[j] = incident[j]
  BY NoneIsNoRow DEF IInv, TypeOK
<1>2. IncidentsOf(a) = [j \in Requests |-> IF InAccount(j, a) THEN incident[j] ELSE None]
  BY DEF IncidentsOf
<1>3. IncidentsOf(a)' = [j \in Requests |-> IF InAccount(j, a)' THEN incident'[j] ELSE None]
  BY DEF IncidentsOf
<1>4. \A j \in Requests \ {i} : InAccount(j, a)' <=> InAccount(j, a)
  BY <1>1 DEF InAccount
<1>5. InAccount(i, a)' <=> n.account = a
  BY <1>1 DEF InAccount
<1>6. CASE n.account = a
  BY <1>1, <1>2, <1>3, <1>4, <1>5, <1>6
<1>7. CASE n.account # a /\ ~InAccount(i, a)
  BY <1>1, <1>2, <1>3, <1>4, <1>5, <1>7
<1> QED BY <1>6, <1>7

(* create_incident writes a row of the caller's account.                   *)
LEMMA CreateInView ==
  ASSUME IInv, NEW r \in Requests, RequestStep(r), CreateCommits(r), NEW a \in Accounts
  PROVE  \/ \E w \in MembersOf(a) \cup {None} : Tenant(a)!Create(r, w)
         \/ UNCHANGED Tenant(a)!vars
<1>1. At(r, "createIncident", "write") /\ pc[r] \in Steps \ {"arrived"} /\ Succeeds(r)
  BY DEF CreateCommits, At, Steps
<1>2. /\ incident[r] = None /\ seen[r] = {} /\ AssigneeFits(r, call[r].arg)
      /\ Caller(r) \in Users /\ Account(r) \in Accounts
  BY <1>1, UnderWay, SucceedsKeeps, UsersHaveAccounts DEF At, IInv, RequestOK, Account
<1>3. PICK n : n = [account |-> Account(r), reporter |-> Caller(r), assignee |-> call[r].arg]
  OBVIOUS
<1>4. n \in IncidentRow /\ n.account = Account(r) /\ incident' = [incident EXCEPT ![r] = n]
  BY <1>2, <1>3 DEF CreateCommits, AssigneeFits, IncidentRow
<1>5. Logs(r, r, r, None) /\ UNCHANGED <<role, active, invites, seen>>
  BY DEF CreateCommits
<1>6. RolesOf(a)' = RolesOf(a) /\ (active \cap MembersOf(a))' = active \cap MembersOf(a)
  BY <1>5 DEF RolesOf, MembersOf
<1>10. InvitesOf(a)' = InvitesOf(a)
  BY <1>5 DEF InvitesOf
<1>7. ~InAccount(r, a)
  BY <1>2 DEF InAccount
<1>8. CASE ~Mine(r, a)
  <2>1. Account(r) # a
    BY <1>2, <1>8 DEF Mine, MembersOf, Account
  <2>2. LogOf(a)' = LogOf(a)
    BY <1>2, <1>5, <2>1, LogsAside
  <2>3. IncidentsOf(a)' = IncidentsOf(a)
    BY <1>4, <1>7, <2>1, IncidentsOfWritten
  <2>4. RowsUnseen(a)
    BY <1>6, <1>10, <2>2, <2>3 DEF RowsUnseen
  <2> QED BY <1>1, <1>8, <2>4, SucceedsAside
<1>9. CASE Mine(r, a)
  <2>1. LetIn(r, a) /\ Account(r) = a
    BY <1>1, <1>9, AccountInView DEF LetIn
  <2>2. PICK w \in MembersOf(a) \cup {None} : w = call[r].arg
    BY <1>2, <2>1 DEF AssigneeFits, MembersOf
  <2>3. Tenant(a)!Ends(r, "createIncident", {})
    <3>1. seen'[r] = {} /\ call[r].op = "createIncident"
      BY <1>1, <1>2, <1>5 DEF At
    <3> QED BY <1>1, <2>1, <3>1, SucceedsEnds
  <2>4. RequestsOf(a)[r].by = Caller(r)
    <3>1. RequestsOf(a)[r] = [by |-> Caller(r), op |-> call[r].op, role |-> call[r].role]
      BY <2>1, SeenPending
    <3> QED BY <3>1
  <2>5. IncidentsOf(a)' = [IncidentsOf(a) EXCEPT ![r] = n]
    BY <1>4, <2>1, IncidentsOfWritten
  <2>6. n = [account |-> a, reporter |-> RequestsOf(a)[r].by, assignee |-> w]
    BY <1>3, <2>1, <2>2, <2>4
  <2>7. IncidentsOf(a)[r] = None
    BY <1>7 DEF IncidentsOf
  <2>8. Tenant(a)!Logs(r, r, r, None)
    BY <1>5, <2>1, LogsInView
  <2> QED BY <1>6, <1>10, <2>3, <2>5, <2>6, <2>7, <2>8 DEF Tenant!Create
<1> QED BY <1>8, <1>9

(* update_incident writes only a row of the caller's account.              *)
LEMMA UpdateInView ==
  ASSUME IInv, NEW r \in Requests, RequestStep(r), UpdateCommits(r), NEW a \in Accounts
  PROVE  \/ \E i \in Requests, w \in MembersOf(a) \cup {None} : Tenant(a)!Update(r, i, w)
         \/ UNCHANGED Tenant(a)!vars
<1>1. At(r, "updateIncident", "write") /\ pc[r] \in Steps \ {"arrived"} /\ Succeeds(r)
  BY DEF UpdateCommits, At, Steps
<1>2. /\ seen[r] = {} /\ AssigneeFits(r, call[r].arg) /\ call[r].item \in Requests
      /\ Caller(r) \in Users /\ Account(r) \in Accounts
  BY <1>1, UnderWay, SucceedsKeeps, UsersHaveAccounts DEF At, IInv, RequestOK, Account
<1>3. PICK i \in Requests : i = call[r].item
  BY <1>2
<1>4. incident[i] \in IncidentRow /\ InAccount(i, Account(r))
  BY <1>3 DEF UpdateCommits, InAccount, IInv, TypeOK
<1>5. PICK n : n = [incident[i] EXCEPT !.assignee = call[r].arg]
  OBVIOUS
<1>6. n \in IncidentRow /\ n.account = Account(r) /\ incident' = [incident EXCEPT ![i] = n]
  BY <1>2, <1>3, <1>4, <1>5 DEF UpdateCommits, AssigneeFits, IncidentRow, InAccount
<1>7. Logs(r, i, i, None) /\ UNCHANGED <<role, active, invites, seen>>
  BY <1>3 DEF UpdateCommits
<1>8. RolesOf(a)' = RolesOf(a) /\ (active \cap MembersOf(a))' = active \cap MembersOf(a)
  BY <1>7 DEF RolesOf, MembersOf
<1>11. InvitesOf(a)' = InvitesOf(a)
  BY <1>7 DEF InvitesOf
<1>9. CASE ~Mine(r, a)
  <2>1. Account(r) # a /\ ~InAccount(i, a)
    BY <1>2, <1>4, <1>9 DEF Mine, MembersOf, Account, InAccount
  <2>2. LogOf(a)' = LogOf(a)
    BY <1>2, <1>7, <2>1, LogsAside
  <2>3. IncidentsOf(a)' = IncidentsOf(a)
    BY <1>6, <2>1, IncidentsOfWritten
  <2>4. RowsUnseen(a)
    BY <1>8, <1>11, <2>2, <2>3 DEF RowsUnseen
  <2> QED BY <1>1, <1>9, <2>4, SucceedsAside
<1>10. CASE Mine(r, a)
  <2>1. LetIn(r, a) /\ Account(r) = a
    BY <1>1, <1>10, AccountInView DEF LetIn
  <2>2. PICK w \in MembersOf(a) \cup {None} : w = call[r].arg
    BY <1>2, <2>1 DEF AssigneeFits, MembersOf
  <2>3. Tenant(a)!Ends(r, "updateIncident", {})
    <3>1. seen'[r] = {} /\ call[r].op = "updateIncident"
      BY <1>1, <1>2, <1>7 DEF At
    <3> QED BY <1>1, <2>1, <3>1, SucceedsEnds
  <2>4. IncidentsOf(a)[i] = incident[i] /\ incident[i] # None
    BY <1>4, <2>1 DEF IncidentsOf, InAccount
  <2>5. IncidentsOf(a)' = [IncidentsOf(a) EXCEPT ![i] = n]
    <3>1. n.account = a
      BY <1>6, <2>1
    <3>2. n \in IncidentRow /\ incident' = [incident EXCEPT ![i] = n]
      BY <1>6
    <3> QED BY <3>1, <3>2, IncidentsOfWritten
  <2>6. IncidentsOf(a)' = [IncidentsOf(a) EXCEPT ![i].assignee = w]
    BY <1>5, <2>2, <2>4, <2>5
  <2>7. Tenant(a)!Logs(r, i, i, None)
    BY <1>7, <2>1, LogsInView
  <2>8. Tenant(a)!Update(r, i, w)
    BY <1>8, <1>11, <2>3, <2>4, <2>6, <2>7 DEF Tenant!Update
  <2> QED BY <2>8
<1> QED BY <1>9, <1>10

(* update_user_role changes a member of the caller's account.              *)
LEMMA SetRoleInView ==
  ASSUME IInv, NEW r \in Requests, RequestStep(r), SetRoleCommits(r), NEW a \in Accounts
  PROVE  \/ \E w \in MembersOf(a), x \in Roles : Tenant(a)!SetRole(r, w, x)
         \/ UNCHANGED Tenant(a)!vars
<1>1. At(r, "setRole", "commit") /\ pc[r] \in Steps \ {"arrived"} /\ Succeeds(r)
  BY DEF SetRoleCommits, At, Steps
<1>2. /\ seen[r] = {} /\ Caller(r) \in Users /\ Account(r) \in Accounts
      /\ call[r].item \in Users /\ AccountOf[call[r].item] = Account(r) /\ call[r].arg \in Roles
  BY <1>1, UnderWay, SucceedsKeeps, UsersHaveAccounts DEF At, IInv, RequestOK, Account
<1>3. PICK w \in Users, x \in Roles : w = call[r].item /\ x = call[r].arg
  BY <1>2
<1>4. role' = [role EXCEPT ![w] = x] \/ role' = role
  <2>1. \/ role' = [role EXCEPT ![w] = x]
        \/ role' = [role EXCEPT ![w] = role[w]]
    BY <1>3 DEF SetRoleCommits
  <2> QED BY <2>1 DEF IInv, TypeOK
<1>5. Logs(r, w, None, x) /\ UNCHANGED <<active, incident, invites, seen>>
  BY <1>3 DEF SetRoleCommits
<1>6. /\ IncidentsOf(a)' = IncidentsOf(a) /\ InvitesOf(a)' = InvitesOf(a)
      /\ (active \cap MembersOf(a))' = active \cap MembersOf(a)
  BY <1>5 DEF IncidentsOf, InAccount, InvitesOf, MembersOf
<1>7. CASE ~Mine(r, a)
  <2>1. Account(r) # a /\ w \notin MembersOf(a)
    BY <1>2, <1>3, <1>7 DEF Mine, MembersOf, Account
  <2>2. LogOf(a)' = LogOf(a)
    BY <1>2, <1>5, <2>1, LogsAside
  <2>3. RolesOf(a)' = RolesOf(a)
    <3>1. \A u \in MembersOf(a) : role'[u] = role[u]
      BY <1>4, <2>1 DEF IInv, TypeOK, MembersOf
    <3> QED BY <3>1 DEF RolesOf, MembersOf
  <2>4. RowsUnseen(a)
    BY <1>6, <2>2, <2>3 DEF RowsUnseen
  <2> QED BY <1>1, <1>7, <2>4, SucceedsAside
<1>8. CASE Mine(r, a)
  <2>1. LetIn(r, a) /\ Account(r) = a /\ w \in MembersOf(a)
    BY <1>1, <1>2, <1>3, <1>8, AccountInView DEF LetIn, MembersOf
  <2>2. Tenant(a)!Ends(r, "setRole", {})
    <3>1. seen'[r] = {} /\ call[r].op = "setRole"
      BY <1>1, <1>2, <1>5 DEF At
    <3> QED BY <1>1, <2>1, <3>1, SucceedsEnds
  <2>3. RolesOf(a)' \in {[RolesOf(a) EXCEPT ![w] = x], RolesOf(a)}
    BY <1>4, <2>1 DEF RolesOf, MembersOf, IInv, TypeOK
  <2>4. Tenant(a)!Logs(r, w, None, x)
    BY <1>5, <2>1, LogsInView
  <2>5. Tenant(a)!SetRole(r, w, x)
    BY <1>6, <2>2, <2>3, <2>4 DEF Tenant!SetRole
  <2> QED BY <2>1, <2>5
<1> QED BY <1>7, <1>8

(* create_invite adds a row of the caller's account.                       *)
LEMMA InviteInView ==
  ASSUME IInv, NEW r \in Requests, RequestStep(r), InviteCommits(r), NEW a \in Accounts
  PROVE  Tenant(a)!Invite(r) \/ UNCHANGED Tenant(a)!vars
<1>1. /\ At(r, "createInvite", "invite") /\ pc[r] \in Steps \ {"arrived"} /\ Succeeds(r)
      /\ UNCHANGED <<role, active, incident, log, seen>>
  BY DEF InviteCommits, At, Steps
<1>2. seen[r] = {} /\ Caller(r) \in Users
  BY <1>1, UnderWay, SucceedsKeeps DEF At
<1>3. PICK n : /\ n = [account |-> Account(r), invitedBy |-> Caller(r)]
              /\ invites' = invites \cup {n}
  BY DEF InviteCommits
<1>4. n.account = Account(r)
  BY <1>3
<1>5. /\ RolesOf(a)' = RolesOf(a) /\ IncidentsOf(a)' = IncidentsOf(a) /\ LogOf(a)' = LogOf(a)
      /\ (active \cap MembersOf(a))' = active \cap MembersOf(a)
  BY <1>1 DEF RolesOf, MembersOf, IncidentsOf, InAccount, LogOf
<1>6. CASE ~Mine(r, a)
  <2>1. Account(r) # a
    BY <1>2, <1>6 DEF Mine, MembersOf, Account
  <2>2. InvitesOf(a)' = InvitesOf(a)
    BY <1>3, <1>4, <2>1 DEF InvitesOf
  <2> QED BY <1>1, <1>5, <1>6, <2>2, SucceedsAside DEF RowsUnseen
<1>7. CASE Mine(r, a)
  <2>1. LetIn(r, a) /\ Account(r) = a
    BY <1>1, <1>7, AccountInView DEF LetIn
  <2>2. Tenant(a)!Ends(r, "createInvite", {})
    <3>1. seen'[r] = {} /\ call[r].op = "createInvite"
      BY <1>1, <1>2 DEF At
    <3> QED BY <1>1, <2>1, <3>1, SucceedsEnds
  <2>3. RequestsOf(a)[r].by = Caller(r)
    <3>1. RequestsOf(a)[r] = [by |-> Caller(r), op |-> call[r].op, role |-> call[r].role]
      BY <2>1, SeenPending
    <3> QED BY <3>1
  <2>4. InvitesOf(a)' = InvitesOf(a) \cup {[account |-> a, invitedBy |-> RequestsOf(a)[r].by]}
    BY <1>3, <1>4, <2>1, <2>3 DEF InvitesOf
  <2> QED BY <1>5, <2>2, <2>4 DEF Tenant!Invite
<1> QED BY <1>6, <1>7

(* Refusals *)

(* ensure_assignee_exists refuses whoever is not a member of the account.  *)
LEMMA AssigneeRefused ==
  ASSUME IInv, NEW r \in Requests, RequestStep(r), NEW a \in Accounts, NEW i \in Requests,
         NEW w \in Users \cup {None, Nobody}, ChecksAssignee(r, i, w), Fails(r, "badRequest", w)
  PROVE  \/ w # None /\ Tenant(a)!Refuse(r, "badRequest", w)
         \/ UNCHANGED Tenant(a)!vars
<1>1. pc[r] = "assignee" /\ call[r].op \in {"createIncident", "updateIncident"}
  BY DEF ChecksAssignee, IInv, RequestOK
<1>2. ~AssigneeFits(r, w)
  BY DEF ChecksAssignee, Fails, Go, IInv, TypeOK
<1>3. ASSUME LetIn(r, a) PROVE Tenant(a)!Refusable(r, "badRequest", w)
  <2>1. w \notin MembersOf(a) \cup {None}
    BY <1>2, <1>3, AccountInView DEF AssigneeFits, MembersOf
  <2>2. Tenant(a)!Pending(r, call[r].op)
    BY <1>3, SeenPending
  <2> QED BY <1>1, <2>1, <2>2 DEF Tenant!Refusable
<1> QED BY <1>1, <1>2, <1>3, RefusedInView DEF Steps, Refusals, Items, AssigneeFits

(* An id that no incident of the account has is not found, whether or not  *)
(* another account has it.                                                 *)
LEMMA NotFoundInView ==
  ASSUME IInv, NEW r \in Requests, RequestStep(r), NEW a \in Accounts, NEW i \in Requests,
         pc[r] \in Steps \ {"arrived"}, call[r].op \in {"updateIncident", "incidents", "incidentLog"},
         Fails(r, "notFound", i), ~InAccount(i, Account(r))
  PROVE  Tenant(a)!Refuse(r, "notFound", i) \/ UNCHANGED Tenant(a)!vars
<1>1. ASSUME LetIn(r, a) PROVE Tenant(a)!Refusable(r, "notFound", i)
  <2>1. IncidentsOf(a)[i] = None
    BY <1>1, AccountInView DEF IncidentsOf
  <2>2. Tenant(a)!Pending(r, call[r].op)
    BY <1>1, SeenPending
  <2> QED BY <2>1, <2>2 DEF Tenant!Refusable, Tenant!Existing
<1> QED BY <1>1, RefusedInView DEF Refusals, Items

(* apply_optimistic_update tells of a conflict only in a row of the        *)
(* account, and of any other that it is not there (incidents.py:64-84).    *)
LEMMA ExplainedInView ==
  ASSUME IInv, NEW r \in Requests, RequestStep(r), NEW a \in Accounts, ExplainsNone(r)
  PROVE  \/ \E code \in {"notFound", "conflict"}, i \in Requests : Tenant(a)!Refuse(r, code, i)
         \/ UNCHANGED Tenant(a)!vars
<1>1. pc[r] \in Steps \ {"arrived"} /\ call[r].op = "updateIncident"
  BY DEF ExplainsNone, At, Steps
<1>2. PICK i \in Requests : i = call[r].item
  BY DEF ExplainsNone, At, IInv, RequestOK
<1>3. CASE ~InAccount(i, Account(r))
  <2>1. Fails(r, "notFound", i)
    BY <1>2, <1>3 DEF ExplainsNone
  <2> QED BY <1>1, <1>3, <2>1, NotFoundInView
<1>4. CASE InAccount(i, Account(r))
  <2>1. Fails(r, "conflict", i)
    BY <1>2, <1>4 DEF ExplainsNone
  <2>2. ASSUME LetIn(r, a) PROVE Tenant(a)!Refusable(r, "conflict", i)
    <3>1. IncidentsOf(a)[i] # None
      BY <1>4, <2>2, AccountInView DEF IncidentsOf, InAccount
    <3>2. Tenant(a)!Pending(r, call[r].op)
      BY <2>2, SeenPending
    <3> QED BY <1>1, <3>1, <3>2 DEF Tenant!Refusable, Tenant!Existing
  <2> QED BY <1>1, <2>1, <2>2, RefusedInView DEF Refusals, Items
<1> QED BY <1>3, <1>4

(* The other lookups of an incident by its id.                             *)
LEMMA LookupRefused ==
  ASSUME IInv, NEW r \in Requests, RequestStep(r), NEW a \in Accounts, NEW i \in Requests,
         GetsIncident(r, i) \/ FindsIncident(r, i), Fails(r, "notFound", i)
  PROVE  Tenant(a)!Refuse(r, "notFound", i) \/ UNCHANGED Tenant(a)!vars
<1>1. pc[r] \in Steps \ {"arrived"} /\ call[r].op \in {"incidents", "incidentLog"}
  BY DEF GetsIncident, FindsIncident, At, Steps
<1>2. ~InAccount(i, Account(r))
  BY DEF GetsIncident, FindsIncident, Shows, Succeeds, Fails, Go, IInv, TypeOK
<1> QED BY <1>1, <1>2, NotFoundInView

(* update_user_role finds no user of another account.                      *)
LEMMA UserRefused ==
  ASSUME IInv, NEW r \in Requests, RequestStep(r), NEW a \in Accounts,
         NEW w \in Users \cup {Nobody}, NEW x \in Roles, SetRoleLoads(r, w, x),
         Fails(r, "notFound", w)
  PROVE  Tenant(a)!Refuse(r, "notFound", w) \/ UNCHANGED Tenant(a)!vars
<1>1. pc[r] \in Steps \ {"arrived"} /\ call[r].op = "setRole"
  BY DEF SetRoleLoads, At, Steps
<1>2. ~(w \in Users /\ AccountOf[w] = Account(r))
  BY DEF SetRoleLoads, Fails, Go, IInv, TypeOK
<1>3. ASSUME LetIn(r, a) PROVE Tenant(a)!Refusable(r, "notFound", w)
  <2>1. w \notin MembersOf(a)
    BY <1>2, <1>3, AccountInView DEF MembersOf
  <2>2. Tenant(a)!Pending(r, call[r].op)
    BY <1>3, SeenPending
  <2> QED BY <1>1, <2>1, <2>2 DEF Tenant!Refusable
<1> QED BY <1>1, <1>3, RefusedInView DEF Refusals, Items

(* create_invite refuses an address that is taken, here or elsewhere.      *)
LEMMA EmailRefused ==
  ASSUME IInv, NEW r \in Requests, RequestStep(r), NEW a \in Accounts,
         NEW e \in Users, ChecksEmail(r, e)
  PROVE  Tenant(a)!Refuse(r, "badRequest", e) \/ UNCHANGED Tenant(a)!vars
<1>1. /\ pc[r] \in Steps \ {"arrived"} /\ call[r].op = "createInvite"
      /\ Fails(r, "badRequest", e)
  BY DEF ChecksEmail, At, Steps
<1>2. ASSUME LetIn(r, a) PROVE Tenant(a)!Refusable(r, "badRequest", e)
  <2>1. Tenant(a)!Pending(r, call[r].op)
    BY <1>2, SeenPending
  <2> QED BY <1>1, <2>1 DEF Tenant!Refusable
<1> QED BY <1>1, <1>2, RefusedInView DEF Refusals, Items

(* Answers *)

(* A read of one's own is an answer that changes no row, and a read of     *)
(* others is not seen.                                                     *)
LEMMA ShowsInView ==
  ASSUME IInv, NEW r \in Requests, RequestStep(r), NEW a \in Accounts,
         pc[r] = "read", NEW S, Shows(r, S)
  PROVE  /\ LetIn(r, a) => Tenant(a)!Ends(r, call[r].op, S) /\ UNCHANGED Tenant(a)!rows
         /\ ~LetIn(r, a) => UNCHANGED Tenant(a)!vars
<1>1. Succeeds(r) /\ RowsUnseen(a) /\ pc[r] \in Steps \ {"arrived"}
  BY RowsStandInView DEF Shows, database, Steps
<1>2. seen'[r] = S
  BY DEF Shows, IInv, TypeOK
<1>3. ASSUME LetIn(r, a) PROVE Tenant(a)!Ends(r, call[r].op, S) /\ UNCHANGED Tenant(a)!rows
  <2>1. Tenant(a)!Ends(r, call[r].op, S)
    BY <1>1, <1>2, <1>3, SucceedsEnds
  <2>2. UNCHANGED Tenant(a)!rows
    BY <1>1 DEF RowsUnseen, Tenant!rows
  <2> QED BY <2>1, <2>2
<1>4. ASSUME ~LetIn(r, a) PROVE UNCHANGED Tenant(a)!vars
  BY <1>1, <1>4, SucceedsAside DEF LetIn
<1> QED BY <1>3, <1>4

(* What exists for an account is what InAccount finds.                     *)
LEMMA ExistingInView ==
  ASSUME NEW a \in Accounts
  PROVE  /\ Tenant(a)!Existing = {i \in Requests : InAccount(i, a)}
         /\ \A i \in Requests : InAccount(i, a) => incident[i].account = a
BY DEF Tenant!Existing, IncidentsOf, InAccount

(* Entries of the account are shown alike.                                 *)
LEMMA EntriesInView ==
  ASSUME NEW a \in Accounts, NEW K, K \subseteq DOMAIN LogOf(a)
  PROVE  Entries(K) = Tenant(a)!Entries(K)
<1>1. ASSUME NEW k \in K PROVE log[k].account = a /\ LogOf(a)[k] = log[k]
  BY <1>1 DEF LogOf
<1>2. \A s : s \in Entries(K) <=>
             \E k \in K : s = [account |-> a, kind |-> EntryKind(k)]
  BY <1>1 DEF Entries
<1>3. \A s : s \in Tenant(a)!Entries(K) <=>
             \E k \in K : s = [account |-> a, kind |-> IF log[k].role = None
                                                     THEN "incidentEntry" ELSE "roleEntry"]
  BY <1>1 DEF Tenant!Entries, Tenant!Rows
<1>4. \A s : s \in Entries(K) <=> s \in Tenant(a)!Entries(K)
  BY <1>2, <1>3 DEF EntryKind
<1> QED BY <1>4

(* The readers of incidents and users show all there is in the account.    *)
LEMMA RowReadersInView ==
  ASSUME IInv, NEW r \in Requests, RequestStep(r), NEW a \in Accounts,
         \/ ListsIncidents(r) \/ ListsUsers(r) \/ ListsInvites(r)
         \/ \E i \in Requests : GetsIncident(r, i) /\ ~Fails(r, "notFound", i)
  PROVE  Tenant(a)!Reads(r) \/ UNCHANGED Tenant(a)!vars
<1>1. pc[r] = "read"
  BY DEF ListsIncidents, ListsUsers, ListsInvites, GetsIncident, At
<1>2. CASE ~LetIn(r, a)
  <2>1. \E S : Shows(r, S)
    BY DEF ListsIncidents, ListsUsers, ListsInvites, GetsIncident
  <2> QED BY <1>1, <1>2, <2>1, ShowsInView
<1>3. ASSUME LetIn(r, a), ListsIncidents(r) PROVE Tenant(a)!Reads(r)
  <2> DEFINE S == {[account |-> incident[i].account, kind |-> "incident"] :
                     i \in {j \in Requests : InAccount(j, Account(r))}}
  <2>1. Account(r) = a /\ call[r].op = "incidents" /\ Shows(r, S)
    BY <1>3, AccountInView DEF ListsIncidents, At
  <2>2. S = Tenant(a)!Rows("incident", Tenant(a)!Existing)
    BY <2>1, ExistingInView DEF Tenant!Rows
  <2> QED BY <1>1, <1>3, <2>1, <2>2, ShowsInView DEF Tenant!Reads
<1>4. ASSUME LetIn(r, a), NEW i \in Requests, GetsIncident(r, i), ~Fails(r, "notFound", i)
      PROVE  Tenant(a)!Reads(r)
  <2> DEFINE S == {[account |-> incident[i].account, kind |-> "incident"]}
  <2>1. /\ Account(r) = a /\ call[r].op = "incidents" /\ InAccount(i, a) /\ Shows(r, S)
    BY <1>4, AccountInView DEF GetsIncident, At
  <2>2. S = Tenant(a)!Rows("incident", {i}) /\ i \in Tenant(a)!Existing
    BY <2>1, ExistingInView DEF Tenant!Rows
  <2>3. Tenant(a)!Ends(r, "incidents", Tenant(a)!Rows("incident", {i}))
        /\ UNCHANGED Tenant(a)!rows
    BY <1>1, <1>4, <2>1, <2>2, ShowsInView
  <2> QED BY <2>2, <2>3 DEF Tenant!Reads
<1>5. ASSUME LetIn(r, a), ListsUsers(r) PROVE Tenant(a)!Reads(r)
  <2> DEFINE k == IF call[r].role = "admin" THEN "profile" ELSE "name"
             S == {[account |-> AccountOf[w], kind |-> k] :
                     w \in {v \in Users : AccountOf[v] = Account(r)}}
  <2>1. Account(r) = a /\ call[r].op = "users" /\ Shows(r, S)
    BY <1>5, AccountInView DEF ListsUsers, At
  <2>2. S = Tenant(a)!Rows(k, MembersOf(a))
    BY <2>1 DEF Tenant!Rows, MembersOf
  <2>3. RequestsOf(a)[r] = [by |-> Caller(r), op |-> call[r].op, role |-> call[r].role]
    BY <1>5, SeenPending
  <2>4. RequestsOf(a)[r].role = call[r].role
    BY <2>3
  <2>5. Tenant(a)!Ends(r, "users", Tenant(a)!Rows(k, MembersOf(a))) /\ UNCHANGED Tenant(a)!rows
    BY <1>1, <1>5, <2>1, <2>2, ShowsInView
  <2> QED BY <2>4, <2>5 DEF Tenant!Reads
<1>6. ASSUME LetIn(r, a), ListsInvites(r) PROVE Tenant(a)!Reads(r)
  <2> DEFINE S == {[account |-> j.account, kind |-> "invite"] :
                     j \in {n \in invites : n.account = Account(r)}}
  <2>1. Account(r) = a /\ call[r].op = "invites" /\ Shows(r, S)
    BY <1>6, AccountInView DEF ListsInvites, At
  <2>2. S = Tenant(a)!Rows("invite", InvitesOf(a))
    BY <2>1 DEF Tenant!Rows, InvitesOf
  <2> QED BY <1>1, <1>6, <2>1, <2>2, ShowsInView DEF Tenant!Reads
<1> QED BY <1>2, <1>3, <1>4, <1>5, <1>6

(* The readers of the audit log show all entries there are in the account  *)
(* of what was asked for.                                                  *)
LEMMA LogReadersInView ==
  ASSUME FoundInv, NEW r \in Requests, RequestStep(r), NEW a \in Accounts,
         \/ ReadsTimeline(r) \/ ListsAuditLogs(r)
         \/ \E e \in Users \cup Requests : ReadsTrail(r, e)
  PROVE  Tenant(a)!Reads(r) \/ UNCHANGED Tenant(a)!vars
<1>1. pc[r] = "read" /\ IInv
  BY DEF ReadsTimeline, ListsAuditLogs, ReadsTrail, At, FoundInv
<1>2. CASE ~LetIn(r, a)
  <2>1. \E S : Shows(r, S)
    BY DEF ReadsTimeline, ListsAuditLogs, ReadsTrail
  <2> QED BY <1>1, <1>2, <2>1, ShowsInView
<1>3. /\ DOMAIN LogOf(a) = {k \in DOMAIN log : log[k].account = a}
      /\ \A k \in DOMAIN LogOf(a) : LogOf(a)[k] = log[k]
  BY DEF LogOf
<1>4. ASSUME LetIn(r, a), ReadsTimeline(r) PROVE Tenant(a)!Reads(r)
  <2>1. /\ Account(r) = a /\ call[r].op = "incidentLog" /\ Shows(r, Entries(Timeline(r)))
        /\ call[r].item \in Requests
    BY <1>1, <1>4, AccountInView DEF ReadsTimeline, At, IInv, RequestOK
  <2>2. PICK i \in Requests : i = call[r].item
    BY <2>1
  <2>3. i \in Tenant(a)!Existing
    BY <1>4, <2>1, <2>2, ExistingInView DEF FoundInv, Found, ReadsTimeline
  <2>4. Timeline(r) = {k \in DOMAIN LogOf(a) : LogOf(a)[k].incident = i}
    BY <1>3, <2>1, <2>2 DEF Timeline
  <2>5. Tenant(a)!Ends(r, "incidentLog", Tenant(a)!Entries(Timeline(r))) /\ UNCHANGED Tenant(a)!rows
    <3>1. Entries(Timeline(r)) = Tenant(a)!Entries(Timeline(r))
      BY <2>4, EntriesInView
    <3> QED BY <1>1, <1>4, <2>1, <3>1, ShowsInView
  <2> QED BY <2>3, <2>4, <2>5 DEF Tenant!Reads
<1>5. ASSUME LetIn(r, a), ListsAuditLogs(r) PROVE Tenant(a)!Reads(r)
  <2>1. /\ call[r].op = "auditLogs"
        /\ Shows(r, Entries({k \in DOMAIN log : log[k].account = Account(r)}))
        /\ Account(r) = a
    BY <1>5, AccountInView DEF ListsAuditLogs, At
  <2>2. Shows(r, Tenant(a)!Entries(DOMAIN LogOf(a)))
    BY <1>3, <2>1, EntriesInView
  <2>3. Tenant(a)!Ends(r, "auditLogs", Tenant(a)!Entries(DOMAIN LogOf(a)))
        /\ UNCHANGED Tenant(a)!rows
    BY <1>1, <1>5, <2>1, <2>2, ShowsInView
  <2> QED BY <2>3 DEF Tenant!Reads
<1>6. ASSUME LetIn(r, a), NEW e \in Users \cup Requests, ReadsTrail(r, e)
      PROVE  Tenant(a)!Reads(r)
  <2> DEFINE K == {k \in DOMAIN LogOf(a) : LogOf(a)[k].entity = e}
  <2>1. call[r].op = "auditLogs" /\ Shows(r, Entries(Trail(r, e))) /\ Account(r) = a
    BY <1>6, AccountInView DEF ReadsTrail, At
  <2>2. Trail(r, e) = K
    BY <1>3, <2>1 DEF Trail
  <2>3. Shows(r, Tenant(a)!Entries(K))
    BY <2>1, <2>2, EntriesInView
  <2>4. Tenant(a)!Ends(r, "auditLogs", Tenant(a)!Entries(K)) /\ UNCHANGED Tenant(a)!rows
    BY <1>1, <1>6, <2>1, <2>3, ShowsInView
  <2> QED BY <2>4 DEF Tenant!Reads
<1> QED BY <1>2, <1>4, <1>5, <1>6

(* The refinement *)

(* At the start every account has its members and nothing else.            *)
LEMMA TenantInit ==
  ASSUME Init, NEW a \in Accounts
  PROVE  Tenant(a)!Init
<1>1. RolesOf(a) \in [MembersOf(a) -> Tenant(a)!Roles]
  BY DEF Init, RolesOf, MembersOf, Roles, Tenant!Roles
<1>2. active \cap MembersOf(a) = MembersOf(a)
  BY DEF Init, MembersOf
<1>3. IncidentsOf(a) = [i \in Requests |-> None]
  BY DEF Init, IncidentsOf
<1>4. LogOf(a) = [k \in {} |-> None]
  BY DEF Init, LogOf
<1>5. RequestsOf(a) = [r \in Requests |-> Tenant(a)!NoRequest]
  BY DEF Init, RequestsOf, LetIn, Steps, Tenant!NoRequest
<1>6. AnswersOf(a) = [r \in Requests |-> Tenant(a)!NoAnswer] /\ InvitesOf(a) = {}
  BY DEF Init, AnswersOf, Answered, Answers, Refusals, InvitesOf, Tenant!NoAnswer
<1>7. ShownOf(a) = [r \in Requests |-> {}]
  BY DEF Init, ShownOf
<1> QED BY <1>1, <1>2, <1>3, <1>4, <1>5, <1>6, <1>7 DEF Tenant!Init

(* A deactivation is the account's own, or not seen.                       *)
LEMMA DeactivateInView ==
  ASSUME NEW u \in Users, Deactivate(u), NEW a \in Accounts
  PROVE  \/ u \in MembersOf(a) /\ Tenant(a)!Leave(u)
         \/ UNCHANGED Tenant(a)!vars
<1>1. /\ u \in active /\ active' = active \ {u}
      /\ UNCHANGED <<role, incident, log, invites, pc, call, seen>>
  BY DEF Deactivate
<1>2. /\ UNCHANGED <<RolesOf(a), IncidentsOf(a), LogOf(a), InvitesOf(a)>>
      /\ UNCHANGED <<RequestsOf(a), AnswersOf(a), ShownOf(a)>>
  BY <1>1 DEF RolesOf, IncidentsOf, InAccount, LogOf, InvitesOf, RequestsOf, AnswersOf, ShownOf,
              LetIn, Answered, Mine, Caller
<1>3. (active \cap MembersOf(a))' = active' \cap MembersOf(a)
  BY DEF MembersOf
<1>4. CASE u \in MembersOf(a)
  BY <1>1, <1>2, <1>3, <1>4 DEF Tenant!Leave
<1>5. CASE u \notin MembersOf(a)
  BY <1>1, <1>2, <1>3, <1>5 DEF Tenant!vars
<1> QED BY <1>4, <1>5

(* Every step of a request is a step of its caller's account, and of no    *)
(* other: one case per action.                                             *)
LEMMA RequestInView ==
  ASSUME FoundInv, NEW r \in Requests, RequestStep(r), NEW a \in Accounts
  PROVE  Tenant(a)!Next \/ UNCHANGED Tenant(a)!vars
<1> DEFINE Names == Users \cup Requests \cup {Nobody}
           Refused == \E code \in {"badRequest", "notFound", "conflict"}, x \in Names :
                        Tenant(a)!Refuse(r, code, x)
<1>1. IInv
  BY DEF FoundInv
<1>2. Refused => Tenant(a)!Next
  BY DEF Tenant!Next
<1>3. CASE \/ \E u \in Users, x \in Roles : Arrives(r, u, x)
           \/ \E op \in Calls : Authenticates(r, op)
  <2>1. CASE \E u \in Users, x \in Roles : Arrives(r, u, x)
    BY <1>1, <2>1, ArrivesAside
  <2>2. ASSUME NEW op \in Calls, Authenticates(r, op)
        PROVE  Tenant(a)!Next \/ UNCHANGED Tenant(a)!vars
    <3>1. op \in Ops /\ op \in Tenant(a)!Ops
      BY CallsAreOps DEF Ops, Tenant!Ops
    <3>2. \/ \E u \in MembersOf(a) : Tenant(a)!LetIn(r, u, op) \/ Tenant(a)!Deny(r, u, op)
          \/ UNCHANGED Tenant(a)!vars
      BY <1>1, <2>2, <3>1, AuthenticatesLetsIn, AuthenticatesDenies
    <3> QED BY <3>1, <3>2 DEF Tenant!Next
  <2> QED BY <1>3, <2>1, <2>2
<1>4. CASE \E i \in Requests, w \in Users \cup {None, Nobody} : ChecksAssignee(r, i, w)
  <2>1. PICK i \in Requests, w \in Users \cup {None, Nobody} : ChecksAssignee(r, i, w)
    BY <1>4
  <2>2. CASE Fails(r, "badRequest", w)
    BY <1>1, <1>2, <2>1, <2>2, AssigneeRefused
  <2>3. CASE ~Fails(r, "badRequest", w)
    <3>1. /\ pc[r] \in Steps \ {"arrived"} /\ UNCHANGED <<database, seen>>
          /\ pc'[r] \in Steps \ {"arrived"}
          /\ call'[r].by = call[r].by /\ call'[r].op = call[r].op /\ call'[r].role = call[r].role
      <4>1. PICK c : c = [call[r] EXCEPT !.item = i, !.arg = w]
        OBVIOUS
      <4>2. /\ pc[r] = "assignee" /\ pc' = [pc EXCEPT ![r] = "write"]
            /\ call' = [call EXCEPT ![r] = c] /\ UNCHANGED <<database, seen>>
        BY <2>1, <2>3, <4>1 DEF ChecksAssignee, Go
      <4>3. call[r] \in CallRecord
        BY <1>1 DEF IInv, TypeOK
      <4>4. c.by = call[r].by /\ c.op = call[r].op /\ c.role = call[r].role
        BY <4>1, <4>3 DEF CallRecord
      <4>5. call'[r] = c /\ pc'[r] = "write"
        BY <1>1, <4>2 DEF IInv, TypeOK
      <4> QED BY <4>2, <4>4, <4>5 DEF Steps
    <3> QED BY <1>1, <3>1, MovesAside
  <2> QED BY <2>2, <2>3
<1>5. CASE \E w \in Users \cup {Nobody}, x \in Roles : SetRoleLoads(r, w, x)
  <2>1. PICK w \in Users \cup {Nobody}, x \in Roles : SetRoleLoads(r, w, x)
    BY <1>5
  <2>2. CASE Fails(r, "notFound", w)
    BY <1>1, <1>2, <2>1, <2>2, UserRefused
  <2>3. CASE ~Fails(r, "notFound", w)
    <3>1. /\ pc[r] \in Steps \ {"arrived"} /\ UNCHANGED <<database, seen>>
          /\ pc'[r] \in Steps \ {"arrived"}
          /\ call'[r].by = call[r].by /\ call'[r].op = call[r].op /\ call'[r].role = call[r].role
      <4>1. PICK c : c = [call[r] EXCEPT !.item = w, !.arg = x, !.loaded = LoadedRole(r, w)]
        OBVIOUS
      <4>2. /\ pc[r] = "load" /\ pc' = [pc EXCEPT ![r] = "commit"]
            /\ call' = [call EXCEPT ![r] = c] /\ UNCHANGED <<database, seen>>
        BY <2>1, <2>3, <4>1 DEF SetRoleLoads, At, Go
      <4>3. call[r] \in CallRecord
        BY <1>1 DEF IInv, TypeOK
      <4>4. c.by = call[r].by /\ c.op = call[r].op /\ c.role = call[r].role
        BY <4>1, <4>3 DEF CallRecord
      <4>5. call'[r] = c /\ pc'[r] = "commit"
        BY <1>1, <4>2 DEF IInv, TypeOK
      <4> QED BY <4>2, <4>4, <4>5 DEF Steps
    <3> QED BY <1>1, <3>1, MovesAside
  <2> QED BY <2>2, <2>3
<1>6. CASE \E i \in Requests : FindsIncident(r, i)
  <2>1. PICK i \in Requests : FindsIncident(r, i)
    BY <1>6
  <2>2. CASE Fails(r, "notFound", i)
    BY <1>1, <1>2, <2>1, <2>2, LookupRefused
  <2>3. CASE ~Fails(r, "notFound", i)
    <3>1. /\ pc[r] \in Steps \ {"arrived"} /\ UNCHANGED <<database, seen>>
          /\ pc'[r] \in Steps \ {"arrived"}
          /\ call'[r].by = call[r].by /\ call'[r].op = call[r].op /\ call'[r].role = call[r].role
      BY <1>1, <2>1, <2>3 DEF FindsIncident, At, Go, Steps, IInv, TypeOK, CallRecord
    <3> QED BY <1>1, <3>1, MovesAside
  <2> QED BY <2>2, <2>3
<1>7. CASE CreateCommits(r)
  BY <1>1, <1>7, CreateInView DEF Tenant!Next
<1>8. CASE UpdateCommits(r)
  <2>1. \/ \E i \in Requests, w \in MembersOf(a) \cup {None} : Tenant(a)!Update(r, i, w)
        \/ UNCHANGED Tenant(a)!vars
    BY <1>1, <1>8, UpdateInView
  <2> QED BY <2>1 DEF Tenant!Next
<1>9. CASE UpdateMatchesNone(r)
  <2>1. /\ pc[r] \in Steps \ {"arrived"} /\ UNCHANGED <<database, call, seen>>
        /\ pc'[r] \in Steps \ {"arrived"}
    BY <1>1, <1>9 DEF UpdateMatchesNone, At, Go, Steps, IInv, TypeOK
  <2> QED BY <1>1, <2>1, MovesAside
<1>10. CASE ExplainsNone(r)
  BY <1>1, <1>2, <1>10, ExplainedInView
<1>11. CASE SetRoleCommits(r)
  <2>1. Roles = Tenant(a)!Roles
    BY DEF Roles, Tenant!Roles
  <2> QED BY <1>1, <1>11, <2>1, SetRoleInView DEF Tenant!Next
<1>12. CASE \E e \in Users \cup {Nobody} : ChecksEmail(r, e)
  <2>1. PICK e \in Users \cup {Nobody} : ChecksEmail(r, e)
    BY <1>12
  <2>2. CASE e \in Users
    BY <1>1, <1>2, <2>1, <2>2, EmailRefused
  <2>3. CASE e \notin Users
    <3>1. /\ pc[r] \in Steps \ {"arrived"} /\ UNCHANGED <<database, call, seen>>
          /\ pc'[r] \in Steps \ {"arrived"}
      BY <1>1, <2>1, <2>3 DEF ChecksEmail, At, Go, Steps, IInv, TypeOK
    <3> QED BY <1>1, <3>1, MovesAside
  <2> QED BY <2>2, <2>3
<1>13. CASE InviteCommits(r)
  BY <1>1, <1>13, InviteInView DEF Tenant!Next
<1>14. CASE \/ ListsIncidents(r) \/ ListsUsers(r) \/ ListsInvites(r)
            \/ \E i \in Requests : GetsIncident(r, i)
  <2>1. CASE \E i \in Requests : GetsIncident(r, i) /\ Fails(r, "notFound", i)
    BY <1>1, <1>2, <2>1, LookupRefused
  <2>2. CASE ~(\E i \in Requests : GetsIncident(r, i) /\ Fails(r, "notFound", i))
    <3>1. Tenant(a)!Reads(r) \/ UNCHANGED Tenant(a)!vars
      BY <1>1, <1>14, <2>2, RowReadersInView
    <3> QED BY <3>1 DEF Tenant!Next
  <2> QED BY <2>1, <2>2
<1>15. CASE \/ ReadsTimeline(r) \/ ListsAuditLogs(r)
            \/ \E e \in Users \cup Requests : ReadsTrail(r, e)
  BY <1>15, LogReadersInView DEF Tenant!Next
<1>16. CASE Crash(r)
  BY <1>1, <1>16, LostDrops DEF Crash, Tenant!Next
<1> QED BY <1>3, <1>4, <1>5, <1>6, <1>7, <1>8, <1>9, <1>10, <1>11, <1>12, <1>13, <1>14, <1>15,
           <1>16 DEF RequestStep

(* Every step is a step of each account, or nothing it can see.            *)
LEMMA TenantStep ==
  ASSUME FoundInv, [Next]_vars, NEW a \in Accounts
  PROVE  [Tenant(a)!Next]_(Tenant(a)!vars)
<1>1. CASE UNCHANGED vars \/ Quiescent
  BY <1>1 DEF vars, Quiescent, Tenant!vars, RolesOf, IncidentsOf, InAccount, LogOf,
              InvitesOf, RequestsOf, AnswersOf, ShownOf, LetIn, Answered, Mine, Caller, MembersOf
<1>2. ASSUME NEW u \in Users, Deactivate(u) PROVE [Tenant(a)!Next]_(Tenant(a)!vars)
  BY <1>2, DeactivateInView DEF Tenant!Next
<1>3. ASSUME NEW r \in Requests, RequestStep(r) PROVE [Tenant(a)!Next]_(Tenant(a)!vars)
  BY <1>3, RequestInView
<1> QED BY <1>1, <1>2, <1>3 DEF Next

(* Seen from one account, whichever it is, the program is one for this     *)
(* account alone.                                                          *)
THEOREM ImplementsTenancy == Spec => \A a \in Accounts : Tenant(a)!Spec
<1>1. ASSUME NEW a \in Accounts PROVE Spec => Tenant(a)!Spec
  <2>1. Init => Tenant(a)!Init
    BY TenantInit
  <2>2. FoundInv /\ [Next]_vars => [Tenant(a)!Next]_(Tenant(a)!vars)
    BY TenantStep
  <2> QED BY <2>1, <2>2, FoundInvariance, PTL DEF Spec, Tenant!Spec
<1> QED BY <1>1

(* The same as the run checks it: each account evolves as Tenancy says,    *)
(* whatever the others do.                                                 *)
THEOREM AccountsIsolated == Spec => Isolation
<1>1. Init => \A a \in Accounts : Tenant(a)!Init
  BY TenantInit
<1>2. FoundInv /\ [Next]_vars => [\A a \in Accounts : [Tenant(a)!Next]_(Tenant(a)!vars)]_vars
  BY TenantStep
<1> QED BY <1>1, <1>2, FoundInvariance, PTL DEF Spec, Isolation
=============================================================================
