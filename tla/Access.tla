------------------------------- MODULE Access -------------------------------
(***************************************************************************)
(* Who may do and see what: get_current_user and RequireRole composed with *)
(* the handlers behind them, for users of several accounts. A request      *)
(* reads its caller's row in one statement and acts in later ones, while   *)
(* roles change and users are deactivated. Optimistic locking is left to   *)
(* Incidents, the denylist to Sessions, how users join to Accounts.        *)
(*                                                                         *)
(* An incident is named after the request that created it. An answer is    *)
(* kept as the kinds of rows it holds and the accounts they belong to, a   *)
(* refusal as its kind and the id, or the address, that it is about.       *)
(***************************************************************************)
EXTENDS Integers, Sequences, FiniteSets

CONSTANTS Users, Accounts, Requests,
          AccountOf,   \* AccountOf[u]: users.account_id, which never changes
          Founders,    \* users that registered: admins from the start
          Leavers,     \* users that may be deactivated
          Calls,       \* the operations that are called
          Nobody,      \* an id, or an address, that no row has
          None         \* no row, no value

Roles == {"admin", "responder", "viewer"}
Ops == {"createIncident", "updateIncident", "setRole", "createInvite", "invites",
        "auditLogs", "incidents", "incidentLog", "users"}

ASSUME UsersHaveAccounts == AccountOf \in [Users -> Accounts]
ASSUME FoundersAreUsers == Founders \subseteq Users /\ Leavers \subseteq Users
ASSUME CallsAreOps == Calls \subseteq Ops
ASSUME NamesAreDistinct == /\ Users \cap Requests = {} /\ None # Nobody
                           /\ {None, Nobody} \cap (Users \cup Requests) = {}

VARIABLES role,     \* role[u]: users.role
          active,   \* the users with is_active
          claims,   \* claims[u]: the role claims u may hold in a token: u can
                    \*            have logged in under every role it had
          incident, \* incident[i]: the incidents row named i, or None
          log,      \* the audit_logs rows, oldest first
          invites,  \* the invites rows, told apart by account and inviter
          pc,       \* pc[r]: where request r stands, or its answer
          call,     \* call[r]: who calls what, and what it has read
          held,     \* held[r]: every role its caller had, while active,
                    \*          since the request arrived
          seen      \* seen[r]: what its answer shows

database == <<role, active, claims, incident, log, invites>>
vars == <<role, active, claims, incident, log, invites, pc, call, held, seen>>

IncidentRow == [account : Accounts, reporter : Users, assignee : Users \cup {None}]
ASSUME NoneIsNoRow == None \notin IncidentRow \cup Roles
LogEntry == [account : Accounts, actor : Users, entity : Users \cup Requests,
             incident : Requests \cup {None}, role : Roles \cup {None}]
Seen == [account : Accounts,
         kind : {"incident", "incidentEntry", "roleEntry", "invite", "name", "profile"}]
InviteRow == [account : Accounts, invitedBy : Users]

Steps == {"arrived", "assignee", "write", "reason", "load", "commit",
          "check", "invite", "find", "read"}
Refusals == {"denied", "badRequest", "notFound", "conflict"}   \* 401/403, 400, 404, 409
Answers == {"ok"} \cup Refusals
Ends == Answers \cup {"lost"}   \* lost: an error or a crash, whatever is answered

NoCall == [by |-> None, claim |-> None, op |-> None, role |-> None,
           item |-> None, arg |-> None, loaded |-> None]

\* Founders are admins, whoever joined by an invite has the role it named.
Init == /\ role \in {f \in [Users -> Roles] : \A u \in Founders : f[u] = "admin"}
        /\ active = Users
        /\ claims = [u \in Users |-> {role[u]}]
        /\ incident = [i \in Requests |-> None]
        /\ log = << >>
        /\ invites = {}
        /\ pc = [r \in Requests |-> "idle"]
        /\ call = [r \in Requests |-> NoCall]
        /\ held = [r \in Requests |-> {}]
        /\ seen = [r \in Requests |-> {}]

---------------------------------------------------------------------------
(* Helpers *)

Caller(r) == call[r].by
Account(r) == AccountOf[Caller(r)]
At(r, op, step) == call[r].op = op /\ pc[r] = step
Go(r, step) == pc' = [pc EXCEPT ![r] = step]

\* Request r ends as code says, because of x, and has changed no row.
Fails(r, code, x) ==
  /\ Go(r, code)
  /\ call' = [call EXCEPT ![r] = [NoCall EXCEPT !.by = Caller(r), !.item = x]]
  /\ held' = [held EXCEPT ![r] = {}]
  /\ UNCHANGED <<database, seen>>

\* Request r ends with a success: only who called what still matters.
Succeeds(r) == /\ Go(r, "ok")
               /\ call' = [call EXCEPT ![r] = [NoCall EXCEPT !.by = Caller(r), !.op = call[r].op]]

\* Request r answers with the rows of the given kinds and accounts.
Shows(r, S) == /\ Succeeds(r)
               /\ seen' = [seen EXCEPT ![r] = S]
               /\ UNCHANGED <<database, held>>

\* record_audit_log, committed with the caller's other changes.
Logs(r, entity, i, x) ==
  log' = Append(log, [account |-> Account(r), actor |-> Caller(r),
                      entity |-> entity, incident |-> i, role |-> x])

InAccount(i, a) == incident[i] # None /\ incident[i].account = a

---------------------------------------------------------------------------
\* is_active is checked everywhere and cleared by nothing in the code: an
\* operator does it in the database.
Deactivate(u) ==
  /\ u \in active \cap Leavers
  /\ active' = active \ {u}
  /\ UNCHANGED <<role, claims, incident, log, invites, pc, call, held, seen>>

\* A request arrives with an access token of u.
Arrives(r, u, x) ==
  /\ pc[r] = "idle" /\ x \in claims[u]
  /\ Go(r, "arrived")
  /\ call' = [call EXCEPT ![r] = [NoCall EXCEPT !.by = u, !.claim = x]]
  /\ held' = [held EXCEPT ![r] = IF u \in active THEN {role[u]} ELSE {}]
  /\ UNCHANGED <<database, seen>>

---------------------------------------------------------------------------
(* get_current_user and RequireRole *)

Allowed == [op \in Ops |-> CASE op \in {"setRole", "createInvite", "invites"} -> {"admin"}
                             [] op \in {"createIncident", "updateIncident", "auditLogs"}
                                  -> {"admin", "responder"}
                             [] OTHER -> Roles]

FirstStep == [op \in Ops |-> CASE op \in {"createIncident", "updateIncident"} -> "assignee"
                               [] op = "setRole" -> "load"
                               [] op = "createInvite" -> "check"
                               [] op = "incidentLog" -> "find"
                               [] OTHER -> "read"]

TokenRole(r) == call[r].claim      \* mutant: the role claim is trusted

\* The row is read anew for every request; the claim is not looked at.
RoleOf(r) == role[Caller(r)]

Authenticates(r, op) ==
  /\ pc[r] = "arrived"
  /\ IF Caller(r) \in active /\ RoleOf(r) \in Allowed[op]
     THEN /\ Go(r, FirstStep[op])
          /\ call' = [call EXCEPT ![r] = [@ EXCEPT !.op = op, !.role = RoleOf(r)]]
          /\ UNCHANGED <<database, held, seen>>
     ELSE Fails(r, "denied", None)

---------------------------------------------------------------------------
(* POST /incidents/ and PATCH /incidents/{i} with an assignee w, or null   *)

AnyAssignee(r, w) == TRUE   \* mutant: any user will do

\* ensure_assignee_exists
AssigneeFits(r, w) == w = None \/ (w \in Users /\ AccountOf[w] = Account(r))

ChecksAssignee(r, i, w) ==
  /\ pc[r] = "assignee"
  /\ call[r].op = "createIncident" => i = r
  /\ IF AssigneeFits(r, w)
     THEN /\ Go(r, "write")
          /\ call' = [call EXCEPT ![r] = [@ EXCEPT !.item = i, !.arg = w]]
          /\ UNCHANGED <<database, held, seen>>
     ELSE Fails(r, "badRequest", w)

CreateCommits(r) ==
  /\ At(r, "createIncident", "write")
  /\ incident' = [incident EXCEPT ![r] = [account |-> Account(r), reporter |-> Caller(r),
                                          assignee |-> call[r].arg]]
  /\ Logs(r, r, r, None)
  /\ Succeeds(r)
  /\ UNCHANGED <<role, active, claims, invites, held, seen>>

\* The UPDATE names the account and the version the client expects: any
\* number, so that the version test may pass or fail for every row.
UpdateCommits(r) ==
  LET i == call[r].item IN
  /\ At(r, "updateIncident", "write")
  /\ InAccount(i, Account(r))
  /\ incident' = [incident EXCEPT ![i] = [@ EXCEPT !.assignee = call[r].arg]]
  /\ Logs(r, i, i, None)
  /\ Succeeds(r)
  /\ UNCHANGED <<role, active, claims, invites, held, seen>>
UpdateMatchesNone(r) == /\ At(r, "updateIncident", "write")
                        /\ Go(r, "reason")
                        /\ UNCHANGED <<database, call, held, seen>>

ExplainsAnyRow(r) ==   \* mutant: the row is looked up by its id alone
  /\ At(r, "updateIncident", "reason")
  /\ Fails(r, IF incident[call[r].item] # None THEN "conflict" ELSE "notFound", call[r].item)

\* Only a row of the account can be in conflict, any other is not there.
ExplainsNone(r) ==
  LET i == call[r].item IN
  /\ At(r, "updateIncident", "reason")
  /\ Fails(r, IF InAccount(i, Account(r)) THEN "conflict" ELSE "notFound", i)

---------------------------------------------------------------------------
(* PATCH /auth/users/{w}/role *)

SessionRole(r, w) == call[r].role   \* mutant: every row is taken for the session's own

\* The session already holds the caller's own row, as authentication read it.
LoadedRole(r, w) == IF w = Caller(r) THEN call[r].role ELSE role[w]

SetRoleLoads(r, w, x) ==
  /\ At(r, "setRole", "load")
  /\ IF w \in Users /\ AccountOf[w] = Account(r)
     THEN /\ Go(r, "commit")
          /\ call' = [call EXCEPT ![r] =
                        [@ EXCEPT !.item = w, !.arg = x, !.loaded = LoadedRole(r, w)]]
          /\ UNCHANGED <<database, held, seen>>
     ELSE Fails(r, "notFound", w)

\* The UPDATE is emitted only if the role differs from the one loaded.
SetRoleCommits(r) ==
  LET w == call[r].item
      new == IF call[r].loaded = call[r].arg THEN role[w] ELSE call[r].arg
  IN
  /\ At(r, "setRole", "commit")
  /\ role' = [role EXCEPT ![w] = new]
  /\ claims' = [claims EXCEPT ![w] = @ \cup {new}]
  /\ held' = [q \in Requests |->
                IF pc[q] \in Steps /\ Caller(q) = w /\ w \in active
                THEN held[q] \cup {new} ELSE held[q]]
  /\ Logs(r, w, None, call[r].arg)
  /\ Succeeds(r)
  /\ UNCHANGED <<active, incident, invites, seen>>

---------------------------------------------------------------------------
(* POST /auth/invites for the address of user e, or of nobody. An address  *)
(* is taken whatever account its user belongs to.                          *)

ChecksEmail(r, e) ==
  /\ At(r, "createInvite", "check")
  /\ IF e \in Users
     THEN Fails(r, "badRequest", e)
     ELSE /\ Go(r, "invite")
          /\ UNCHANGED <<database, call, held, seen>>

InviteCommits(r) ==
  /\ At(r, "createInvite", "invite")
  /\ invites' = invites \cup {[account |-> Account(r), invitedBy |-> Caller(r)]}
  /\ Succeeds(r)
  /\ UNCHANGED <<role, active, claims, incident, log, held, seen>>

---------------------------------------------------------------------------
(* The readers. Filters and pages only leave rows out of what they show.   *)

EntryKind(k) == IF log[k].role = None THEN "incidentEntry" ELSE "roleEntry"
Entries(K) == {[account |-> log[k].account, kind |-> EntryKind(k)] : k \in K}

\* GET /incidents/ and GET /incidents/{i}
ListsIncidents(r) ==
  /\ At(r, "incidents", "read")
  /\ Shows(r, {[account |-> incident[i].account, kind |-> "incident"] :
                 i \in {j \in Requests : InAccount(j, Account(r))}})
GetsIncident(r, i) ==
  /\ At(r, "incidents", "read")
  /\ IF InAccount(i, Account(r))
     THEN Shows(r, {[account |-> incident[i].account, kind |-> "incident"]})
     ELSE Fails(r, "notFound", i)

\* GET /incidents/{i}/audit-log
FindsIncident(r, i) ==
  /\ At(r, "incidentLog", "find")
  /\ IF InAccount(i, Account(r))
     THEN /\ Go(r, "read")
          /\ call' = [call EXCEPT ![r].item = i]
          /\ UNCHANGED <<database, held, seen>>
     ELSE Fails(r, "notFound", i)

TimelineOfAccount(r) == {k \in DOMAIN log : log[k].account = Account(r)}   \* mutant

Timeline(r) == {k \in DOMAIN log : /\ log[k].incident = call[r].item
                                   /\ log[k].account = Account(r)}
ReadsTimeline(r) == At(r, "incidentLog", "read") /\ Shows(r, Entries(Timeline(r)))

TrailAnywhere(r, e) == {k \in DOMAIN log : log[k].entity = e}   \* mutant: no account

\* GET /audit-logs/ and GET /audit-logs/entity/{e}
Trail(r, e) == {k \in DOMAIN log : log[k].entity = e /\ log[k].account = Account(r)}
ListsAuditLogs(r) ==
  /\ At(r, "auditLogs", "read")
  /\ Shows(r, Entries({k \in DOMAIN log : log[k].account = Account(r)}))
ReadsTrail(r, e) == At(r, "auditLogs", "read") /\ Shows(r, Entries(Trail(r, e)))

\* GET /auth/invites
ListsInvites(r) ==
  /\ At(r, "invites", "read")
  /\ Shows(r, {[account |-> j.account, kind |-> "invite"] :
                 j \in {n \in invites : n.account = Account(r)}})

ListsRawUsers(r) ==   \* mutant: the rows as they are, password hashes and all
  /\ At(r, "users", "read")
  /\ Shows(r, {[account |-> AccountOf[w], kind |-> "row"] :
                 w \in {v \in Users : AccountOf[v] = Account(r)}})

\* GET /auth/users: names for everybody, emails and roles for admins.
ListsUsers(r) ==
  /\ At(r, "users", "read")
  /\ Shows(r, {[account |-> AccountOf[w],
                kind |-> IF call[r].role = "admin" THEN "profile" ELSE "name"] :
                 w \in {v \in Users : AccountOf[v] = Account(r)}})

---------------------------------------------------------------------------
\* A crash, a lost connection: what is not committed is rolled back.
Crash(r) == pc[r] \in Steps /\ Fails(r, "lost", None)

RequestStep(r) ==
  \/ \E u \in Users, x \in Roles : Arrives(r, u, x)
  \/ \E op \in Calls : Authenticates(r, op)
  \/ \E i \in Requests, w \in Users \cup {None, Nobody} : ChecksAssignee(r, i, w)
  \/ CreateCommits(r) \/ UpdateCommits(r)
  \/ UpdateMatchesNone(r) \/ ExplainsNone(r)
  \/ \E w \in Users \cup {Nobody}, x \in Roles : SetRoleLoads(r, w, x)
  \/ SetRoleCommits(r)
  \/ \E e \in Users \cup {Nobody} : ChecksEmail(r, e)
  \/ InviteCommits(r) \/ ListsInvites(r)
  \/ ListsIncidents(r)
  \/ \E i \in Requests : GetsIncident(r, i) \/ FindsIncident(r, i)
  \/ ReadsTimeline(r) \/ ListsAuditLogs(r)
  \/ \E e \in Users \cup Requests : ReadsTrail(r, e)
  \/ ListsUsers(r)
  \/ Crash(r)

\* Nothing is in flight; nobody has to log in or call.
Quiescent == /\ \A r \in Requests : pc[r] \notin Steps
             /\ UNCHANGED vars

Next == \/ \E u \in Users : Deactivate(u)
        \/ \E r \in Requests : RequestStep(r)
        \/ Quiescent

Spec == Init /\ [][Next]_vars

---------------------------------------------------------------------------
(* Properties *)

(* Every variable keeps to its type (models/user.py, models/incident.py,   *)
(* models/audit.py).                                                       *)
CallRecord == [by : Users \cup {None}, claim : Roles \cup {None}, op : Ops \cup {None},
               role : Roles \cup {None},
               item : Users \cup Requests \cup {None, Nobody},
               arg : Users \cup Roles \cup {None}, loaded : Roles \cup {None}]
TypeOK == /\ role \in [Users -> Roles]
          /\ active \subseteq Users
          /\ claims \in [Users -> SUBSET Roles]
          /\ incident \in [Requests -> IncidentRow \cup {None}]
          /\ log \in Seq(LogEntry)
          /\ invites \subseteq InviteRow
          /\ pc \in [Requests -> {"idle"} \cup Steps \cup Ends]
          /\ call \in [Requests -> CallRecord]
          /\ held \in [Requests -> SUBSET Roles]
          /\ seen \in [Requests -> SUBSET Seen]

(* No answer shows a row of another account: each reader filters, some in  *)
(* a later statement than the one that found what they filter by           *)
(* (incidents.py:221-222, audit.py:43 and 67, auth.py:267).                *)
AnswersStayInAccount ==
  \A r \in Requests : \A s \in seen[r] : s.account = Account(r)

(* No row ties two accounts together: reporter and assignee of an incident *)
(* and actor and entity of an audit entry are of the row's own account,    *)
(* and whoever sent an invite is of the account it leads to.               *)
(* The columns are plain foreign keys, so only the handlers see to it; an  *)
(* admin "must not be able to touch a user in another account"             *)
(* (test_auth.py:338).                                                     *)
EntityAccount(e) == IF e \in Users THEN AccountOf[e] ELSE incident[e].account
IncidentInAccount(i) ==
  incident[i] # None =>
    /\ AccountOf[incident[i].reporter] = incident[i].account
    /\ incident[i].assignee # None => AccountOf[incident[i].assignee] = incident[i].account
EntryInAccount(e) ==
  /\ AccountOf[e.actor] = e.account
  /\ e.entity \in Users \/ incident[e.entity] # None
  /\ EntityAccount(e.entity) = e.account
RowsStayInAccount ==
  /\ \A i \in Requests : IncidentInAccount(i)
  /\ \A k \in DOMAIN log : EntryInAccount(log[k])
  /\ \A n \in invites : AccountOf[n.invitedBy] = n.account

(* Authority is never older than the request: whoever got a success was    *)
(* active, with a role the endpoint allows, at some moment since the       *)
(* request arrived, whatever role the token names. A demotion or a         *)
(* deactivation in flight may come too late, one before never does         *)
(* (deps.py:34 and 50).                                                    *)
AuthorityIsFresh ==
  \A r \in Requests : pc[r] = "ok" => held[r] \cap Allowed[call[r].op] # {}

(* What an answer tells of roles, its caller was entitled to see: role     *)
(* history is not for a VIEWER (audit.py:61-63), emails and roles of       *)
(* colleagues, members or invited, are for admins only (schemas/auth.py:   *)
(* 42-44, auth.py:134).                                                    *)
RolesAreHidden ==
  \A r \in Requests : \A s \in seen[r] :
    /\ s.kind = "roleEntry" => held[r] \cap {"admin", "responder"} # {}
    /\ s.kind \in {"profile", "invite"} => "admin" \in held[r]

(* What of "full audit logging" (README.md:3) does hold: the log names     *)
(* every role a user ever had but the first, none the user never had, and  *)
(* each change by someone who has been an admin. The UPDATE compares with  *)
(* what the session loaded and the log entry does not (auth.py:297-309),   *)
(* so a change that is lost to another still logs a role of the past only. *)
LoggedRoles(u) ==
  {log[k].role : k \in {j \in DOMAIN log : log[j].entity = u /\ log[j].role # None}}
RoleHistoryLogged ==
  /\ \A u \in Users : \E x \in Roles : claims[u] = {x} \cup LoggedRoles(u)
  /\ \A k \in DOMAIN log : log[k].role # None => "admin" \in claims[log[k].actor]

(* "full audit logging" (README.md:3): the last logged role change of a    *)
(* user is the role the user has.                                          *)
LogShowsRole ==
  \A k \in DOMAIN log :
    log[k].role # None /\ (\A j \in DOMAIN log : j > k => log[j].entity # log[k].entity)
      => role[log[k].entity] = log[k].role

(* What account a can see: its rows, and what its requests may do and were *)
(* answered.                                                               *)
MembersOf(a) == {u \in Users : AccountOf[u] = a}
Mine(r, a) == Caller(r) \in MembersOf(a)
RolesOf(a) == [u \in MembersOf(a) |-> role[u]]
IncidentsOf(a) == [i \in Requests |-> IF InAccount(i, a) THEN incident[i] ELSE None]
LogOf(a) == [k \in {j \in DOMAIN log : log[j].account = a} |-> log[k]]
InvitesOf(a) == {n \in invites : n.account = a}
LetIn(r, a) == pc[r] \in Steps \ {"arrived"} /\ Mine(r, a)
Answered(r, a) == pc[r] \in Answers /\ Mine(r, a)
RequestsOf(a) ==
  [r \in Requests |-> IF LetIn(r, a)
                      THEN [by |-> Caller(r), op |-> call[r].op, role |-> call[r].role]
                      ELSE [by |-> None, op |-> None, role |-> None]]
AnswersOf(a) == [r \in Requests |-> IF Answered(r, a) THEN [code |-> pc[r], item |-> call[r].item]
                                    ELSE [code |-> None, item |-> None]]
ShownOf(a) == [r \in Requests |-> IF Mine(r, a) THEN seen[r] ELSE {}]
Tenant(a) == INSTANCE Tenancy WITH
  Self <- a, Members <- MembersOf(a), Elsewhere <- Users \ MembersOf(a),
  Names <- Users \cup Requests \cup {Nobody},
  role <- RolesOf(a), active <- active \cap MembersOf(a), incident <- IncidentsOf(a),
  log <- LogOf(a), invites <- InvitesOf(a), request <- RequestsOf(a),
  answer <- AnswersOf(a), shown <- ShownOf(a)

(* Each account has what is modelled here for itself, as Tenancy says it:  *)
(* no step of another account changes what it sees, no row of another is   *)
(* shown, and no answer tells a foreign incident or user from one that     *)
(* does not exist: an update of either answers 404 and never 409           *)
(* (services/incidents.py:64-76, test_incidents.py:273-289), and so do the *)
(* other lookups. One answer does tell of others, and Tenancy names it: an *)
(* invite to an address that is taken elsewhere is a 400 (auth.py:97-102). *)
Isolation == /\ \A a \in Accounts : Tenant(a)!Init
             /\ [][\A a \in Accounts : [Tenant(a)!Next]_(Tenant(a)!vars)]_vars
=============================================================================
