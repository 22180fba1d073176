----------------------------- MODULE AccessProofs -----------------------------
(***************************************************************************)
(* Proofs about Access: for any number of users, accounts and requests, no *)
(* row and no answer crosses accounts, and no authority is older than the  *)
(* request that used it.                                                   *)
(***************************************************************************)
EXTENDS Access, TLAPS

Items == Users \cup Requests \cup {None, Nobody}

(* The inductive invariant: where a request stands tells who calls, under  *)
(* which role it was let in, and what it has checked.                      *)
RequestOK(r) ==
  /\ incident[r] # None \/ seen[r] # {} => pc[r] = "ok"
  /\ pc[r] \in Steps \cup {"ok"} => Caller(r) \in Users
  /\ pc[r] \in Steps \ {"arrived"} =>
       call[r].op \in Ops /\ call[r].role \in held[r] \cap Allowed[call[r].op]
  /\ pc[r] = "assignee" => call[r].op \in {"createIncident", "updateIncident"}
  /\ pc[r] = "write" => call[r].item \in Requests /\ AssigneeFits(r, call[r].arg)
  /\ pc[r] = "reason" => call[r].item \in Requests
  /\ At(r, "createIncident", "write") => call[r].item = r
  /\ pc[r] = "commit" => /\ call[r].item \in Users /\ AccountOf[call[r].item] = Account(r)
                         /\ call[r].arg \in Roles
  /\ At(r, "incidentLog", "read") => call[r].item \in Requests
HeldNow(r) == pc[r] \in Steps /\ Caller(r) \in active => RoleOf(r) \in held[r]
RoleEntriesApart == \A k \in DOMAIN log : log[k].role # None => log[k].incident = None

IInv == /\ TypeOK /\ RoleEntriesApart
        /\ RowsStayInAccount /\ AnswersStayInAccount
        /\ AuthorityIsFresh /\ RolesAreHidden
        /\ \A r \in Requests : RequestOK(r) /\ HeldNow(r)

---------------------------------------------------------------------------
(* The share of one request in the properties of answers.                  *)
AnswerOK(r) ==
  /\ \A s \in seen[r] :
       /\ s.account = Account(r)
       /\ s.kind = "roleEntry" => held[r] \cap {"admin", "responder"} # {}
       /\ s.kind \in {"profile", "invite"} => "admin" \in held[r]
  /\ pc[r] = "ok" => held[r] \cap Allowed[call[r].op] # {}

(* The properties of answers speak of one request at a time.               *)
LEMMA AnswersSplit ==
  (AnswersStayInAccount /\ AuthorityIsFresh /\ RolesAreHidden)
    <=> \A r \in Requests : AnswerOK(r)
BY DEF AnswersStayInAccount, AuthorityIsFresh, RolesAreHidden, AnswerOK

(* The same of the next state.                                             *)
LEMMA AnswersSplitNext ==
  (AnswersStayInAccount /\ AuthorityIsFresh /\ RolesAreHidden)'
    <=> \A r \in Requests : AnswerOK(r)'
BY DEF AnswersStayInAccount, AuthorityIsFresh, RolesAreHidden, AnswerOK

(* No request has begun and no row is there but the users.                 *)
LEMMA InitInv == Init => IInv
<1> SUFFICES ASSUME Init PROVE IInv
  OBVIOUS
<1>1. TypeOK
  BY NamesAreDistinct DEF Init, TypeOK, CallRecord, NoCall
<1>2. RowsStayInAccount /\ RoleEntriesApart
  BY DEF Init, RowsStayInAccount, RoleEntriesApart, IncidentInAccount
<1>3. \A r \in Requests : AnswerOK(r) /\ RequestOK(r) /\ HeldNow(r)
  BY DEF Init, AnswerOK, RequestOK, HeldNow, Steps, At
<1> QED BY <1>1, <1>2, <1>3, AnswersSplit DEF IInv

(* A step of request r owes the invariant its own part and that of the     *)
(* rows; of the other requests it may only add to the roles held.          *)
LEMMA StepKeeps ==
  ASSUME IInv, TypeOK', NEW r \in Requests,
         \A q \in Requests \ {r} : /\ pc'[q] = pc[q] /\ call'[q] = call[q]
                                   /\ seen'[q] = seen[q] /\ held[q] \subseteq held'[q]
                                   /\ incident'[q] # None => incident[q] # None,
         RequestOK(r)', AnswerOK(r)', RowsStayInAccount', RoleEntriesApart',
         \A q \in Requests : HeldNow(q)'
  PROVE  IInv'
<1>1. ASSUME NEW q \in Requests \ {r} PROVE RequestOK(q)'
  <2>1. RequestOK(q)
    BY DEF IInv
  <2> QED BY <2>1 DEF RequestOK, At, Caller, Account, AssigneeFits
<1>2. ASSUME NEW q \in Requests \ {r} PROVE AnswerOK(q)'
  <2>1. AnswerOK(q)
    BY AnswersSplit DEF IInv
  <2> QED BY <2>1 DEF AnswerOK, Account, Caller
<1> QED BY <1>1, <1>2, AnswersSplitNext DEF IInv

(* Steps that change no row leave the properties of rows as they are.      *)
LEMMA RowsKept ==
  ASSUME IInv, UNCHANGED <<incident, log, invites>>
  PROVE  RowsStayInAccount' /\ RoleEntriesApart'
BY DEF IInv, RowsStayInAccount, RoleEntriesApart, IncidentInAccount, EntryInAccount, EntityAccount

(* A request under way has neither created nor shown anything.             *)
LEMMA UnderWay ==
  ASSUME IInv, NEW r \in Requests, pc[r] # "ok"
  PROVE  incident[r] = None /\ seen[r] = {}
BY DEF IInv, RequestOK

(* A request that fails leaves nothing behind.                             *)
LEMMA FailsKeeps ==
  ASSUME IInv, NEW r \in Requests, pc[r] # "ok",
         NEW code \in Refusals \cup {"lost"}, NEW x \in Items, Fails(r, code, x)
  PROVE  IInv'
<1>1. TypeOK'
  <2> DEFINE c == [NoCall EXCEPT !.by = Caller(r), !.item = x]
  <2>1. c \in CallRecord
    BY DEF NoCall, Items, Caller, IInv, TypeOK, CallRecord
  <2>2. /\ pc' = [pc EXCEPT ![r] = code] /\ call' = [call EXCEPT ![r] = c]
        /\ held' = [held EXCEPT ![r] = {}] /\ UNCHANGED <<database, seen>>
    BY DEF Fails, Go
  <2> HIDE DEF c
  <2> QED BY <2>1, <2>2 DEF IInv, TypeOK, Answers, Ends, database
<1>2. incident'[r] = None /\ seen'[r] = {} /\ pc'[r] = code
  BY UnderWay DEF Fails, Go, database, IInv, TypeOK
<1>3. RequestOK(r)' /\ AnswerOK(r)' /\ HeldNow(r)'
  BY <1>2 DEF RequestOK, AnswerOK, HeldNow, Steps, Refusals, At
<1>4. \A q \in Requests \ {r} : /\ pc'[q] = pc[q] /\ call'[q] = call[q]
                                /\ seen'[q] = seen[q] /\ held'[q] = held[q]
                                /\ incident'[q] = incident[q]
  BY DEF Fails, Go, database, IInv, TypeOK
<1>5. \A q \in Requests : HeldNow(q)'
  BY <1>3, <1>4 DEF Fails, database, IInv, HeldNow, RoleOf, Caller
<1> QED BY <1>1, <1>3, <1>4, <1>5, RowsKept, StepKeeps DEF Fails, database

(* A request that moves on reads, but changes and shows nothing.           *)
LEMMA MoveKeeps ==
  ASSUME IInv, NEW r \in Requests, NEW s \in Steps, NEW c \in CallRecord, pc[r] # "ok",
         pc' = [pc EXCEPT ![r] = s], call' = [call EXCEPT ![r] = c],
         UNCHANGED <<database, held, seen>>,
         RequestOK(r)', HeldNow(r)'
  PROVE  IInv'
<1>1. TypeOK'
  BY DEF IInv, TypeOK, database
<1>2. AnswerOK(r)'
  BY UnderWay DEF AnswerOK, IInv, TypeOK, Steps
<1>3. \A q \in Requests \ {r} : pc'[q] = pc[q] /\ call'[q] = call[q]
  BY DEF IInv, TypeOK
<1>4. \A q \in Requests : HeldNow(q)'
  BY <1>3 DEF database, IInv, HeldNow, RoleOf, Caller
<1> QED BY <1>1, <1>2, <1>3, <1>4, RowsKept, StepKeeps DEF database

(* Arrival and authentication *)

(* The caller's role of this moment is held, if the caller is active.      *)
LEMMA ArrivesKeeps ==
  ASSUME IInv, NEW r \in Requests, NEW u \in Users, NEW x \in Roles, Arrives(r, u, x)
  PROVE  IInv'
<1>1. TypeOK'
  BY DEF Arrives, Go, NoCall, IInv, TypeOK, CallRecord, Steps, database
<1>2. pc'[r] = "arrived" /\ call'[r].by = u /\ incident'[r] = None /\ seen'[r] = {}
                      /\ (u \in active => role[u] \in held'[r])
  BY UnderWay DEF Arrives, Go, NoCall, database, IInv, TypeOK
<1>3. RequestOK(r)' /\ AnswerOK(r)' /\ HeldNow(r)'
  BY <1>2 DEF Arrives, database, RequestOK, AnswerOK, HeldNow, RoleOf, Steps, At, Caller
<1>4. \A q \in Requests \ {r} : /\ pc'[q] = pc[q] /\ call'[q] = call[q]
                                /\ seen'[q] = seen[q] /\ held'[q] = held[q]
                                /\ incident'[q] = incident[q]
  BY DEF Arrives, Go, database, IInv, TypeOK
<1>5. \A q \in Requests : HeldNow(q)'
  BY <1>3, <1>4 DEF Arrives, database, IInv, HeldNow, RoleOf, Caller
<1> QED BY <1>1, <1>3, <1>4, <1>5, RowsKept, StepKeeps DEF Arrives, database

(* A request is let in under a role it holds.                              *)
LEMMA AuthenticatesKeeps ==
  ASSUME IInv, NEW r \in Requests, NEW op \in Ops, Authenticates(r, op)
  PROVE  IInv'
<1>1. CASE Fails(r, "denied", None)
  BY <1>1, FailsKeeps DEF Authenticates, Refusals, Items
<1>2. CASE ~Fails(r, "denied", None)
  <2> DEFINE c == [call[r] EXCEPT !.op = op, !.role = RoleOf(r)]
  <2>1. /\ pc[r] = "arrived" /\ Caller(r) \in active /\ RoleOf(r) \in Allowed[op]
        /\ pc' = [pc EXCEPT ![r] = FirstStep[op]] /\ call' = [call EXCEPT ![r] = c]
        /\ UNCHANGED <<database, held, seen>>
    BY <1>2 DEF Authenticates, Go
  <2>2. Caller(r) \in Users /\ RoleOf(r) \in Roles /\ RoleOf(r) \in held[r]
    BY <2>1 DEF IInv, TypeOK, RequestOK, HeldNow, RoleOf, Steps
  <2>3. FirstStep[op] \in Steps \ {"arrived", "write", "reason", "commit"} 
        /\ (op = "incidentLog" => FirstStep[op] # "read")
        /\ (FirstStep[op] = "assignee" => op \in {"createIncident", "updateIncident"})
    BY DEF FirstStep, Ops, Steps
  <2>4. c \in CallRecord /\ c.by = Caller(r) /\ c.op = op /\ c.role = RoleOf(r)
    BY <2>2 DEF IInv, TypeOK, CallRecord, Caller
  <2>5. pc'[r] = FirstStep[op] /\ call'[r] = c /\ incident'[r] = None /\ seen'[r] = {}
    BY <2>1, UnderWay DEF IInv, TypeOK, database
  <2>6. RequestOK(r)'
    BY <2>1, <2>2, <2>3, <2>4, <2>5 DEF RequestOK, At, Caller, Account
  <2>7. HeldNow(r)'
    BY <2>1, <2>2, <2>4, <2>5 DEF HeldNow, RoleOf, Caller, database
  <2> HIDE DEF c
  <2> QED BY <2>1, <2>3, <2>4, <2>6, <2>7, MoveKeeps
<1> QED BY <1>1, <1>2

(* Statements before the last *)

(* What the later statements of a request keep of the earlier ones.        *)
LEMMA ReadOnKeeps ==
  ASSUME IInv, NEW r \in Requests, NEW s \in Steps \ {"assignee"}, NEW c \in CallRecord,
         pc[r] \in Steps \ {"arrived"},
         pc' = [pc EXCEPT ![r] = s], call' = [call EXCEPT ![r] = c],
         UNCHANGED <<database, held, seen>>,
         c.by = Caller(r), c.op = call[r].op, c.role = call[r].role,
         s = "write" => c.item \in Requests /\ (c.arg = None \/
                          (c.arg \in Users /\ AccountOf[c.arg] = Account(r))),
         s = "write" /\ c.op = "createIncident" => c.item = r,
         s = "reason" => c.item \in Requests,
         s = "commit" => /\ c.item \in Users /\ AccountOf[c.item] = Account(r)
                         /\ c.arg \in Roles,
         s = "read" /\ c.op = "incidentLog" => c.item \in Requests
  PROVE  IInv'
<1>1. pc'[r] = s /\ call'[r] = c /\ incident'[r] = None /\ seen'[r] = {} /\ pc[r] # "ok"
  BY UnderWay DEF IInv, TypeOK, database, Steps
<1>2. RequestOK(r) /\ HeldNow(r)
  BY DEF IInv
<1>3. RequestOK(r)'
  BY <1>1, <1>2 DEF RequestOK, At, Caller, Account, AssigneeFits
<1>4. HeldNow(r)'
  BY <1>1, <1>2 DEF HeldNow, RoleOf, Caller, database
<1> QED BY <1>1, <1>3, <1>4, MoveKeeps

(* ensure_assignee_exists                                                  *)
LEMMA ChecksAssigneeKeeps ==
  ASSUME IInv, NEW r \in Requests, NEW i \in Requests, NEW w \in Users \cup {None, Nobody},
         ChecksAssignee(r, i, w)
  PROVE  IInv'
<1>1. CASE Fails(r, "badRequest", w)
  BY <1>1, FailsKeeps DEF ChecksAssignee, Refusals, Items
<1>2. CASE ~Fails(r, "badRequest", w)
  <2> DEFINE c == [call[r] EXCEPT !.item = i, !.arg = w]
  <2>1. /\ pc[r] = "assignee" /\ (call[r].op = "createIncident" => i = r) /\ AssigneeFits(r, w)
        /\ pc' = [pc EXCEPT ![r] = "write"] /\ call' = [call EXCEPT ![r] = c]
        /\ UNCHANGED <<database, held, seen>>
    BY <1>2 DEF ChecksAssignee, Go
  <2>2. /\ c \in CallRecord /\ c.by = Caller(r) /\ c.op = call[r].op
        /\ c.role = call[r].role /\ c.item = i /\ c.arg = w
    <3>1. call[r] \in CallRecord
      BY DEF IInv, TypeOK
    <3>2. w \in Users \cup Roles \cup {None}
      BY <2>1 DEF AssigneeFits
    <3>3. c \in CallRecord
      BY <3>1, <3>2 DEF CallRecord
    <3> QED BY <3>1, <3>3 DEF CallRecord, Caller
  <2> HIDE DEF c
  <2> QED BY <2>1, <2>2, ReadOnKeeps DEF Steps, AssigneeFits
<1> QED BY <1>1, <1>2

(* The UPDATE that matches no row changes none, and the session goes on.   *)
LEMMA MatchesNoneKeeps ==
  ASSUME IInv, NEW r \in Requests, UpdateMatchesNone(r)
  PROVE  IInv'
<1>1. /\ pc[r] = "write" /\ pc' = [pc EXCEPT ![r] = "reason"]
      /\ call' = [call EXCEPT ![r] = call[r]] /\ UNCHANGED <<database, held, seen>>
  BY DEF UpdateMatchesNone, At, Go, IInv, TypeOK
<1>2. call[r] \in CallRecord /\ call[r].item \in Requests
  BY <1>1 DEF IInv, TypeOK, RequestOK
<1> QED BY <1>1, <1>2, ReadOnKeeps DEF Steps, Caller

(* A refused UPDATE is explained by what the account has.                  *)
LEMMA ExplainsKeeps ==
  ASSUME IInv, NEW r \in Requests, ExplainsNone(r)
  PROVE  IInv'
<1>1. PICK i \in Requests : i = call[r].item
  BY DEF ExplainsNone, At, IInv, RequestOK
<1>2. \E code \in Refusals : Fails(r, code, i)
  BY <1>1 DEF ExplainsNone, Refusals
<1> QED BY <1>1, <1>2, FailsKeeps DEF ExplainsNone, At, Items

(* create_invite looks the address up.                                     *)
LEMMA ChecksEmailKeeps ==
  ASSUME IInv, NEW r \in Requests, NEW e \in Users \cup {Nobody}, ChecksEmail(r, e)
  PROVE  IInv'
<1>1. CASE e \in Users
  BY <1>1, FailsKeeps DEF ChecksEmail, At, Refusals, Items
<1>2. CASE e \notin Users
  <2>1. /\ pc[r] = "check" /\ pc' = [pc EXCEPT ![r] = "invite"]
        /\ call' = [call EXCEPT ![r] = call[r]] /\ UNCHANGED <<database, held, seen>>
    BY <1>2 DEF ChecksEmail, At, Go, IInv, TypeOK
  <2>2. call[r] \in CallRecord
    BY DEF IInv, TypeOK
  <2> QED BY <2>1, <2>2, ReadOnKeeps DEF Steps, Caller
<1> QED BY <1>1, <1>2

(* update_user_role finds the user in the caller's account.                *)
LEMMA SetRoleLoadsKeeps ==
  ASSUME IInv, NEW r \in Requests, NEW w \in Users \cup {Nobody}, NEW x \in Roles,
         SetRoleLoads(r, w, x)
  PROVE  IInv'
<1>1. CASE Fails(r, "notFound", w)
  BY <1>1, FailsKeeps DEF SetRoleLoads, At, Refusals, Items
<1>2. CASE ~Fails(r, "notFound", w)
  <2> DEFINE y == LoadedRole(r, w)
  <2> DEFINE c == [call[r] EXCEPT !.item = w, !.arg = x, !.loaded = y]
  <2>1. /\ pc[r] = "load" /\ w \in Users /\ AccountOf[w] = Account(r)
        /\ pc' = [pc EXCEPT ![r] = "commit"] /\ call' = [call EXCEPT ![r] = c]
        /\ UNCHANGED <<database, held, seen>>
    BY <1>2 DEF SetRoleLoads, Go, At
  <2>2. y \in Roles \cup {None}
    BY <2>1 DEF LoadedRole, IInv, TypeOK, CallRecord
  <2>3. /\ c \in CallRecord /\ c.by = Caller(r) /\ c.op = call[r].op
        /\ c.role = call[r].role /\ c.item = w /\ c.arg = x
    BY <2>1, <2>2 DEF IInv, TypeOK, CallRecord, Caller
  <2> HIDE DEF c
  <2> QED BY <2>1, <2>3, ReadOnKeeps DEF Steps
<1> QED BY <1>1, <1>2

(* The timeline's incident is found first, its entries are read later.     *)
LEMMA FindsIncidentKeeps ==
  ASSUME IInv, NEW r \in Requests, NEW i \in Requests, FindsIncident(r, i)
  PROVE  IInv'
<1>1. CASE Fails(r, "notFound", i)
  BY <1>1, FailsKeeps DEF FindsIncident, At, Refusals, Items
<1>2. CASE ~Fails(r, "notFound", i)
  <2> DEFINE c == [call[r] EXCEPT !.item = i]
  <2>1. /\ pc[r] = "find" /\ pc' = [pc EXCEPT ![r] = "read"] /\ call' = [call EXCEPT ![r] = c]
        /\ UNCHANGED <<database, held, seen>>
    BY <1>2 DEF FindsIncident, Go, At
  <2>2. /\ c \in CallRecord /\ c.by = Caller(r) /\ c.op = call[r].op
        /\ c.role = call[r].role /\ c.item = i
    BY DEF IInv, TypeOK, CallRecord, Caller
  <2> HIDE DEF c
  <2> QED BY <2>1, <2>2, ReadOnKeeps DEF Steps
<1> QED BY <1>1, <1>2

(* Answers *)

(* Whoever answered was let in, and only who called what is remembered.    *)
LEMMA SucceedsKeeps ==
  ASSUME IInv, NEW r \in Requests, pc[r] \in Steps \ {"arrived"}, Succeeds(r)
  PROVE  /\ pc' \in [Requests -> {"idle"} \cup Steps \cup Ends]
         /\ call' \in [Requests -> CallRecord]
         /\ pc'[r] = "ok" /\ Caller(r)' = Caller(r) /\ Account(r)' = Account(r)
         /\ call'[r].op = call[r].op /\ Caller(r) \in Users /\ call[r].op \in Ops
         /\ call[r].role \in held[r] \cap Allowed[call[r].op]
         /\ \A q \in Requests \ {r} : pc'[q] = pc[q] /\ call'[q] = call[q]
<1>1. Caller(r) \in Users /\ call[r].op \in Ops
      /\ call[r].role \in held[r] \cap Allowed[call[r].op]
  BY DEF IInv, RequestOK
<1>2. [NoCall EXCEPT !.by = Caller(r), !.op = call[r].op] \in CallRecord
  BY <1>1 DEF NoCall, CallRecord
<1> QED BY <1>1, <1>2 DEF Succeeds, Go, NoCall, Caller, Account, IInv, TypeOK, Answers, Ends

(* An answer may show rows of the caller's account, of kinds that the role *)
(* the caller was let in under may see.                                    *)
LEMMA ShowsKeeps ==
  ASSUME IInv, NEW r \in Requests, NEW S \in SUBSET Seen, pc[r] = "read", Shows(r, S),
         \A s \in S : /\ s.account = Account(r)
                      /\ s.kind = "roleEntry" => held[r] \cap {"admin", "responder"} # {}
                      /\ s.kind \in {"profile", "invite"} => "admin" \in held[r]
  PROVE  IInv'
<1>1. Succeeds(r) /\ seen' = [seen EXCEPT ![r] = S] /\ UNCHANGED <<database, held>>
  BY DEF Shows
<1>2. TypeOK'
  BY <1>1, SucceedsKeeps DEF Steps, IInv, TypeOK, database
<1>3. seen'[r] = S /\ \A q \in Requests \ {r} : seen'[q] = seen[q]
  BY <1>1 DEF IInv, TypeOK
<1>4. RequestOK(r)' /\ AnswerOK(r)' /\ HeldNow(r)'
  BY <1>1, <1>3, SucceedsKeeps DEF RequestOK, AnswerOK, HeldNow, Steps, At
<1>5. \A q \in Requests : HeldNow(q)'
  BY <1>1, <1>4, SucceedsKeeps DEF Steps, database, IInv, HeldNow, RoleOf, Caller
<1> QED BY <1>1, <1>2, <1>3, <1>4, <1>5, SucceedsKeeps, RowsKept, StepKeeps DEF Steps, database

(* Entries of the caller's account show nothing else; role entries are     *)
(* among them only if the log has them at the places read.                 *)
LEMMA EntriesKeep ==
  ASSUME IInv, NEW r \in Requests, NEW K \in SUBSET DOMAIN log,
         \A k \in K : log[k].account = Account(r),
         NEW s \in Entries(K)
  PROVE  /\ s \in Seen /\ s.account = Account(r) /\ s.kind \notin {"profile", "invite"}
         /\ s.kind = "roleEntry" => \E k \in K : log[k].role # None
<1>1. PICK k \in K : s = [account |-> log[k].account, kind |-> EntryKind(k)]
  BY DEF Entries
<1>2. log[k] \in LogEntry
  BY <1>1 DEF IInv, TypeOK
<1> QED BY <1>1, <1>2 DEF EntryKind, Seen, LogEntry

(* The readers of incidents and users.                                     *)
LEMMA RowReadersKeep ==
  ASSUME IInv, NEW r \in Requests,
         \/ ListsIncidents(r) \/ ListsUsers(r) \/ ListsInvites(r)
         \/ \E i \in Requests : GetsIncident(r, i)
  PROVE  IInv'
<1>1. pc[r] = "read" /\ pc[r] # "ok"
  BY DEF ListsIncidents, ListsUsers, ListsInvites, GetsIncident, At
<1>2. Account(r) \in Accounts /\ call[r].role \in held[r]
  BY <1>1, UsersHaveAccounts DEF IInv, RequestOK, Steps, Account
<1>3. CASE ListsIncidents(r)
  <2> DEFINE S == {[account |-> incident[i].account, kind |-> "incident"] :
                     i \in {j \in Requests : InAccount(j, Account(r))}}
  <2>1. S \in SUBSET Seen /\ \A s \in S : s.account = Account(r) /\ s.kind = "incident"
    BY <1>2 DEF InAccount, Seen
  <2> QED BY <1>1, <1>3, <2>1, ShowsKeeps DEF ListsIncidents
<1>4. ASSUME NEW i \in Requests, GetsIncident(r, i) PROVE IInv'
  <2> DEFINE S == {[account |-> incident[i].account, kind |-> "incident"]}
  <2>1. CASE InAccount(i, Account(r))
    <3>1. S \in SUBSET Seen /\ \A s \in S : s.account = Account(r) /\ s.kind = "incident"
      BY <1>2, <2>1 DEF InAccount, Seen
    <3> QED BY <1>1, <1>4, <2>1, <3>1, ShowsKeeps DEF GetsIncident
  <2>2. CASE ~InAccount(i, Account(r))
    BY <1>1, <1>4, <2>2, FailsKeeps DEF GetsIncident, Refusals, Items
  <2> QED BY <2>1, <2>2
<1>5. CASE ListsUsers(r)
  <2> DEFINE kind == IF call[r].role = "admin" THEN "profile" ELSE "name"
             S == {[account |-> AccountOf[w], kind |-> kind] :
                     w \in {v \in Users : AccountOf[v] = Account(r)}}
  <2>1. S \in SUBSET Seen /\ \A s \in S : s.account = Account(r) /\ s.kind = kind
    BY <1>2 DEF Seen
  <2>2. Shows(r, S)
    BY <1>5 DEF ListsUsers
  <2>3. kind \notin {"roleEntry", "invite"} /\ (kind = "profile" => "admin" \in held[r])
    BY <1>2
  <2> HIDE DEF S, kind
  <2> QED BY <1>1, <2>1, <2>2, <2>3, ShowsKeeps
<1>6. CASE ListsInvites(r)
  <2> DEFINE S == {[account |-> j.account, kind |-> "invite"] :
                     j \in {n \in invites : n.account = Account(r)}}
  <2>1. S \in SUBSET Seen /\ \A s \in S : s.account = Account(r) /\ s.kind = "invite"
    BY <1>2 DEF Seen
  <2>2. Shows(r, S) /\ "admin" \in held[r]
    BY <1>1, <1>2, <1>6 DEF ListsInvites, At, IInv, RequestOK, Steps, Allowed, Ops
  <2> HIDE DEF S
  <2> QED BY <1>1, <2>1, <2>2, ShowsKeeps
<1> QED BY <1>3, <1>4, <1>5, <1>6

(* The readers of the audit log: an incident's timeline has no role        *)
(* entries, and the other two readers are not for viewers.                 *)
LEMMA LogReadersKeep ==
  ASSUME IInv, NEW r \in Requests,
         \/ ReadsTimeline(r) \/ ListsAuditLogs(r)
         \/ \E e \in Users \cup Requests : ReadsTrail(r, e)
  PROVE  IInv'
<1>1. pc[r] = "read"
  BY DEF ReadsTimeline, ListsAuditLogs, ReadsTrail, At
<1>2. CASE ReadsTimeline(r)
  <2>1. \A k \in Timeline(r) : log[k].role = None
    BY <1>2, NamesAreDistinct
       DEF ReadsTimeline, Timeline, IInv, RoleEntriesApart, RequestOK
  <2>2. Timeline(r) \in SUBSET DOMAIN log /\ \A k \in Timeline(r) : log[k].account = Account(r)
    BY DEF Timeline
  <2>3. Entries(Timeline(r)) \in SUBSET Seen
    BY <2>2, EntriesKeep
  <2> QED BY <1>1, <1>2, <2>1, <2>2, <2>3, EntriesKeep, ShowsKeeps DEF ReadsTimeline
<1>3. ASSUME NEW K \in SUBSET DOMAIN log, \A k \in K : log[k].account = Account(r),
             At(r, "auditLogs", "read"), Shows(r, Entries(K))
      PROVE  IInv'
  <2>1. held[r] \cap {"admin", "responder"} # {}
    BY <1>1, <1>3 DEF IInv, RequestOK, Steps, At, Allowed, Ops
  <2>2. Entries(K) \in SUBSET Seen
    BY <1>3, EntriesKeep
  <2> QED BY <1>1, <1>3, <2>1, <2>2, EntriesKeep, ShowsKeeps
<1>4. CASE ListsAuditLogs(r)
  BY <1>3, <1>4 DEF ListsAuditLogs
<1>5. ASSUME NEW e \in Users \cup Requests, ReadsTrail(r, e) PROVE IInv'
  <2>1. Trail(r, e) \in SUBSET DOMAIN log /\ \A k \in Trail(r, e) : log[k].account = Account(r)
    BY DEF Trail
  <2> QED BY <1>3, <1>5, <2>1 DEF ReadsTrail
<1> QED BY <1>2, <1>4, <1>5

(* Commits *)

(* A new entry joins a log whose older entries stay right.                 *)
LEMMA LogGrows ==
  ASSUME IInv, NEW e \in LogEntry, log' = Append(log, e), invites' = invites,
         EntryInAccount(e)',
         \A f \in LogEntry : EntryInAccount(f) => EntryInAccount(f)',
         \A i \in Requests : IncidentInAccount(i)',
         e.role # None => e.incident = None
  PROVE  log' \in Seq(LogEntry) /\ RowsStayInAccount' /\ RoleEntriesApart'
<1>1. log \in Seq(LogEntry)
  BY DEF IInv, TypeOK
<1>2. log' \in Seq(LogEntry)
  BY <1>1
<1>3. ASSUME NEW k \in DOMAIN log' PROVE log'[k] = e \/ (k \in DOMAIN log /\ log'[k] = log[k])
  BY <1>1, <1>3
<1>4. \A k \in DOMAIN log : EntryInAccount(log[k]) /\ log[k] \in LogEntry
  BY <1>1 DEF IInv, RowsStayInAccount
<1>5. \A k \in DOMAIN log' : \E f \in LogEntry : log'[k] = f /\ EntryInAccount(f)'
  BY <1>3, <1>4
<1>6. RowsStayInAccount'
  BY <1>5 DEF IInv, RowsStayInAccount, EntryInAccount, EntityAccount
<1>7. RoleEntriesApart'
  BY <1>3 DEF IInv, RoleEntriesApart
<1> QED BY <1>2, <1>6, <1>7

(* create_incident: no entry of the log speaks of the new row yet.         *)
LEMMA CreateKeeps ==
  ASSUME IInv, NEW r \in Requests, CreateCommits(r)
  PROVE  IInv'
<1>1. At(r, "createIncident", "write") /\ pc[r] \in Steps \ {"arrived"} /\ Succeeds(r)
  BY DEF CreateCommits, At, Steps
<1>2. incident[r] = None /\ seen[r] = {} /\ AssigneeFits(r, call[r].arg)
  BY <1>1, UnderWay DEF At, IInv, RequestOK
<1>3. Account(r) = AccountOf[Caller(r)] /\ Account(r) \in Accounts
  BY <1>1, SucceedsKeeps, UsersHaveAccounts DEF Account
<1>4. PICK n \in IncidentRow : /\ n.account = Account(r) /\ n.reporter = Caller(r)
                               /\ n.assignee = call[r].arg
                               /\ incident' = [incident EXCEPT ![r] = n]
  BY <1>1, <1>2, <1>3, SucceedsKeeps DEF CreateCommits, AssigneeFits, IncidentRow
<1>5. PICK e \in LogEntry : /\ e.account = Account(r) /\ e.actor = Caller(r) /\ e.entity = r
                            /\ e.incident = r /\ e.role = None /\ log' = Append(log, e)
  BY <1>1, <1>3, SucceedsKeeps DEF CreateCommits, Logs, LogEntry
<1>6. n # None
  BY <1>4, NoneIsNoRow
<1>7. incident'[r] = n /\ \A q \in Requests \ {r} : incident'[q] = incident[q]
  BY <1>4 DEF IInv, TypeOK
<1>8. /\ \A i \in Requests : IncidentInAccount(i)'
      /\ EntryInAccount(e)'
      /\ \A f \in LogEntry : EntryInAccount(f) => EntryInAccount(f)'
  <2>1. \A i \in Requests \ {r} : IncidentInAccount(i)'
    BY <1>7 DEF IInv, RowsStayInAccount, IncidentInAccount
  <2>2. IncidentInAccount(r)'
    BY <1>2, <1>3, <1>4, <1>7 DEF IncidentInAccount, AssigneeFits
  <2>3. EntryInAccount(e)'
    BY <1>3, <1>4, <1>5, <1>6, <1>7, NamesAreDistinct DEF EntryInAccount, EntityAccount
  <2>4. ASSUME NEW f \in LogEntry, EntryInAccount(f) PROVE EntryInAccount(f)'
    <3>1. f.entity \in Users \cup Requests /\ f.entity # r
      BY <1>2, <2>4, NamesAreDistinct DEF LogEntry, EntryInAccount
    <3> QED BY <1>7, <2>4, <3>1 DEF EntryInAccount, EntityAccount
  <2> QED BY <2>1, <2>2, <2>3, <2>4
<1>9. log' \in Seq(LogEntry) /\ RowsStayInAccount' /\ RoleEntriesApart'
  BY <1>5, <1>8, LogGrows DEF CreateCommits
<1>10. TypeOK'
  BY <1>1, <1>4, <1>9, SucceedsKeeps DEF CreateCommits, IInv, TypeOK
<1>11. RequestOK(r)' /\ AnswerOK(r)' /\ HeldNow(r)'
  BY <1>1, <1>2, SucceedsKeeps
     DEF CreateCommits, RequestOK, AnswerOK, HeldNow, Steps, At
<1>12. \A q \in Requests : HeldNow(q)'
  BY <1>1, <1>11, SucceedsKeeps DEF CreateCommits, IInv, HeldNow, RoleOf, Caller
<1> QED BY <1>1, <1>7, <1>9, <1>10, <1>11, <1>12, SucceedsKeeps, StepKeeps DEF CreateCommits

(* update_incident: the UPDATE names the account, the assignee was checked.*)
LEMMA UpdateKeeps ==
  ASSUME IInv, NEW r \in Requests, UpdateCommits(r)
  PROVE  IInv'
<1>1. At(r, "updateIncident", "write") /\ pc[r] \in Steps \ {"arrived"} /\ Succeeds(r)
  BY DEF UpdateCommits, At, Steps
<1>2. incident[r] = None /\ seen[r] = {}
      /\ AssigneeFits(r, call[r].arg) /\ call[r].item \in Requests
  BY <1>1, UnderWay DEF At, IInv, RequestOK
<1>3. PICK i \in Requests : i = call[r].item
  BY <1>2
<1>4. Account(r) = AccountOf[Caller(r)] /\ Account(r) \in Accounts
  BY <1>1, SucceedsKeeps, UsersHaveAccounts DEF Account
<1>5. /\ incident[i] \in IncidentRow /\ incident[i].account = Account(r)
      /\ AccountOf[incident[i].reporter] = Account(r)
  BY <1>3 DEF UpdateCommits, InAccount, IInv, TypeOK, RowsStayInAccount, IncidentInAccount
<1>6. PICK n \in IncidentRow : /\ n.account = incident[i].account
                               /\ n.reporter = incident[i].reporter
                               /\ n.assignee = call[r].arg
                               /\ incident' = [incident EXCEPT ![i] = n]
  BY <1>2, <1>3, <1>5 DEF UpdateCommits, AssigneeFits, IncidentRow
<1>7. PICK e \in LogEntry : /\ e.account = Account(r) /\ e.actor = Caller(r) /\ e.entity = i
                            /\ e.incident = i /\ e.role = None /\ log' = Append(log, e)
  BY <1>1, <1>3, <1>4, SucceedsKeeps DEF UpdateCommits, Logs, LogEntry
<1>8. incident'[i] = n /\ n # None /\ \A q \in Requests \ {i} : incident'[q] = incident[q]
  BY <1>6, NoneIsNoRow DEF IInv, TypeOK
<1>9. /\ \A j \in Requests : IncidentInAccount(j)'
      /\ EntryInAccount(e)'
      /\ \A f \in LogEntry : EntryInAccount(f) => EntryInAccount(f)'
  <2>1. \A j \in Requests \ {i} : IncidentInAccount(j)'
    BY <1>8 DEF IInv, RowsStayInAccount, IncidentInAccount
  <2>2. IncidentInAccount(i)'
    BY <1>2, <1>5, <1>6, <1>8 DEF IncidentInAccount, AssigneeFits
  <2>3. EntryInAccount(e)'
    BY <1>4, <1>5, <1>6, <1>7, <1>8, NamesAreDistinct DEF EntryInAccount, EntityAccount
  <2>4. ASSUME NEW f \in LogEntry, EntryInAccount(f) PROVE EntryInAccount(f)'
    <3>1. f.entity \in Users \cup Requests
      BY DEF LogEntry
    <3> QED BY <1>6, <1>8, <2>4, <3>1 DEF EntryInAccount, EntityAccount
  <2> QED BY <2>1, <2>2, <2>3, <2>4
<1>10. log' \in Seq(LogEntry) /\ RowsStayInAccount' /\ RoleEntriesApart'
  BY <1>7, <1>9, LogGrows DEF UpdateCommits
<1>11. TypeOK'
  <2>1. incident' \in [Requests -> IncidentRow \cup {None}]
    BY <1>6 DEF IInv, TypeOK
  <2>2. pc' \in [Requests -> {"idle"} \cup Steps \cup Ends] /\ call' \in [Requests -> CallRecord]
    BY <1>1, SucceedsKeeps
  <2>3. UNCHANGED <<role, active, claims, invites, held, seen>>
    BY DEF UpdateCommits
  <2> QED BY <1>10, <2>1, <2>2, <2>3 DEF IInv, TypeOK
<1>12. RequestOK(r)' /\ AnswerOK(r)' /\ HeldNow(r)'
  BY <1>1, <1>2, SucceedsKeeps
     DEF UpdateCommits, RequestOK, AnswerOK, HeldNow, Steps, At
<1>13. \A q \in Requests : HeldNow(q)'
  BY <1>1, <1>12, SucceedsKeeps DEF UpdateCommits, IInv, HeldNow, RoleOf, Caller
<1>14. \A q \in Requests \ {r} : incident'[q] # None => incident[q] # None
  BY <1>5, <1>8, NoneIsNoRow
<1> QED BY <1>1, <1>10, <1>11, <1>12, <1>13, <1>14, SucceedsKeeps, StepKeeps DEF UpdateCommits

(* update_user_role: whoever waits with the user's token holds the new     *)
(* role from now on.                                                       *)
LEMMA SetRoleKeeps ==
  ASSUME IInv, NEW r \in Requests, SetRoleCommits(r)
  PROVE  IInv'
<1>1. At(r, "setRole", "commit") /\ pc[r] \in Steps \ {"arrived"} /\ Succeeds(r)
  BY DEF SetRoleCommits, At, Steps
<1>2. /\ incident[r] = None /\ seen[r] = {}
      /\ call[r].item \in Users /\ AccountOf[call[r].item] = Account(r) /\ call[r].arg \in Roles
  BY <1>1, UnderWay DEF At, IInv, RequestOK
<1>3. PICK w \in Users : w = call[r].item
  BY <1>2
<1>4. PICK x \in Roles : x = IF call[r].loaded = call[r].arg THEN role[w] ELSE call[r].arg
  BY <1>2, <1>3 DEF IInv, TypeOK
<1>5. /\ role' = [role EXCEPT ![w] = x]
      /\ claims' = [claims EXCEPT ![w] = @ \cup {x}]
      /\ held' = [q \in Requests |-> IF pc[q] \in Steps /\ Caller(q) = w /\ w \in active
                                     THEN held[q] \cup {x} ELSE held[q]]
      /\ UNCHANGED <<active, incident, invites, seen>>
  BY <1>3, <1>4 DEF SetRoleCommits
<1>6. Account(r) = AccountOf[Caller(r)] /\ Account(r) \in Accounts
  BY <1>1, SucceedsKeeps, UsersHaveAccounts DEF Account
<1>7. PICK e \in LogEntry : /\ e.account = Account(r) /\ e.actor = Caller(r) /\ e.entity = w
                            /\ e.incident = None /\ log' = Append(log, e)
  BY <1>1, <1>2, <1>3, <1>6, SucceedsKeeps DEF SetRoleCommits, Logs, LogEntry
<1>8. log' \in Seq(LogEntry) /\ RowsStayInAccount' /\ RoleEntriesApart'
  <2>1. EntryInAccount(e)'
    BY <1>2, <1>3, <1>6, <1>7 DEF EntryInAccount, EntityAccount
  <2>2. \A f \in LogEntry : EntryInAccount(f) => EntryInAccount(f)'
    BY <1>5 DEF EntryInAccount, EntityAccount
  <2>3. \A i \in Requests : IncidentInAccount(i)'
    BY <1>5 DEF IInv, RowsStayInAccount, IncidentInAccount
  <2> QED BY <1>5, <1>7, <2>1, <2>2, <2>3, LogGrows
<1>9. TypeOK'
  BY <1>1, <1>5, <1>8, SucceedsKeeps DEF IInv, TypeOK
<1>10. \A q \in Requests : held[q] \subseteq held'[q]
  BY <1>5
<1>11. RequestOK(r)' /\ AnswerOK(r)'
  BY <1>1, <1>2, <1>5, <1>10, SucceedsKeeps DEF RequestOK, AnswerOK, Steps, At
<1>12. ASSUME NEW q \in Requests PROVE HeldNow(q)'
  <2>1. HeldNow(q) /\ (pc[q] \in Steps => Caller(q) \in Users)
    BY DEF IInv, RequestOK
  <2>2. CASE q = r
    BY <1>1, <2>2, SucceedsKeeps DEF HeldNow, Steps
  <2>3. CASE q # r
    <3>1. pc'[q] = pc[q] /\ Caller(q)' = Caller(q)
      BY <1>1, <2>3, SucceedsKeeps DEF Caller
    <3>2. CASE Caller(q) = w
      BY <1>5, <2>1, <3>1, <3>2 DEF HeldNow, RoleOf, IInv, TypeOK
    <3>3. CASE Caller(q) # w
      BY <1>5, <2>1, <3>1, <3>3 DEF HeldNow, RoleOf, IInv, TypeOK
    <3> QED BY <3>2, <3>3
  <2> QED BY <2>2, <2>3
<1> QED BY <1>1, <1>5, <1>8, <1>9, <1>10, <1>11, <1>12, SucceedsKeeps, StepKeeps

(* create_invite: the row names the inviter and the inviter's account.     *)
LEMMA InviteKeeps ==
  ASSUME IInv, NEW r \in Requests, InviteCommits(r)
  PROVE  IInv'
<1>1. /\ At(r, "createInvite", "invite") /\ pc[r] \in Steps \ {"arrived"} /\ Succeeds(r)
      /\ UNCHANGED <<role, active, claims, incident, log, held, seen>>
  BY DEF InviteCommits, At, Steps
<1>2. incident[r] = None /\ seen[r] = {}
  BY <1>1, UnderWay DEF At
<1>3. PICK n \in InviteRow : /\ AccountOf[n.invitedBy] = n.account
                             /\ invites' = invites \cup {n}
  BY <1>1, SucceedsKeeps, UsersHaveAccounts DEF InviteCommits, InviteRow, Account
<1>4. RowsStayInAccount' /\ RoleEntriesApart'
  BY <1>1, <1>3 DEF IInv, RowsStayInAccount, RoleEntriesApart, IncidentInAccount,
                    EntryInAccount, EntityAccount
<1>5. TypeOK'
  BY <1>1, <1>3, SucceedsKeeps DEF IInv, TypeOK
<1>6. RequestOK(r)' /\ AnswerOK(r)' /\ HeldNow(r)'
  BY <1>1, <1>2, SucceedsKeeps DEF RequestOK, AnswerOK, HeldNow, Steps, At
<1>7. \A q \in Requests : HeldNow(q)'
  BY <1>1, <1>6, SucceedsKeeps DEF IInv, HeldNow, RoleOf, Caller
<1> QED BY <1>1, <1>4, <1>5, <1>6, <1>7, SucceedsKeeps, StepKeeps

(* A deactivation takes from nobody what was held.                         *)
LEMMA DeactivateKeeps ==
  ASSUME IInv, NEW u \in Users, Deactivate(u)
  PROVE  IInv'
<1>1. TypeOK'
  BY DEF Deactivate, IInv, TypeOK
<1>2. ASSUME NEW r \in Requests PROVE RequestOK(r)' /\ AnswerOK(r)' /\ HeldNow(r)'
  <2>1. RequestOK(r) /\ AnswerOK(r) /\ HeldNow(r)
    BY AnswersSplit DEF IInv
  <2> QED BY <2>1 DEF Deactivate, RequestOK, AnswerOK, HeldNow, RoleOf, AssigneeFits, At,
                      Account, Caller
<1> QED BY <1>1, <1>2, RowsKept, AnswersSplitNext DEF Deactivate, IInv

(* Every step of a request keeps the invariant: one case per action.       *)
LEMMA RequestKeeps ==
  ASSUME IInv, NEW r \in Requests, RequestStep(r)
  PROVE  IInv'
<1>1. CASE \E u \in Users, x \in Roles : Arrives(r, u, x)
  BY <1>1, ArrivesKeeps
<1>2. CASE \E op \in Calls : Authenticates(r, op)
  BY <1>2, CallsAreOps, AuthenticatesKeeps
<1>3. CASE \E i \in Requests, w \in Users \cup {None, Nobody} : ChecksAssignee(r, i, w)
  BY <1>3, ChecksAssigneeKeeps
<1>4. CASE CreateCommits(r)
  BY <1>4, CreateKeeps
<1>5. CASE UpdateCommits(r)
  BY <1>5, UpdateKeeps
<1>6. CASE Crash(r)
  BY <1>6, FailsKeeps DEF Crash, Steps, Items
<1>7. CASE \E w \in Users \cup {Nobody}, x \in Roles : SetRoleLoads(r, w, x)
  BY <1>7, SetRoleLoadsKeeps
<1>8. CASE SetRoleCommits(r)
  BY <1>8, SetRoleKeeps
<1>9. CASE \/ ListsIncidents(r) \/ ListsUsers(r) \/ ListsInvites(r)
           \/ \E i \in Requests : GetsIncident(r, i)
  BY <1>9, RowReadersKeep
<1>10. CASE \E i \in Requests : FindsIncident(r, i)
  BY <1>10, FindsIncidentKeeps
<1>11. CASE \/ ReadsTimeline(r) \/ ListsAuditLogs(r)
            \/ \E e \in Users \cup Requests : ReadsTrail(r, e)
  BY <1>11, LogReadersKeep
<1>12. CASE UpdateMatchesNone(r) \/ ExplainsNone(r)
  BY <1>12, MatchesNoneKeeps, ExplainsKeeps
<1>13. CASE InviteCommits(r) \/ \E e \in Users \cup {Nobody} : ChecksEmail(r, e)
  BY <1>13, InviteKeeps, ChecksEmailKeeps
<1> QED BY <1>1, <1>2, <1>3, <1>4, <1>5, <1>6, <1>7, <1>8, <1>9, <1>10, <1>11, <1>12, <1>13
        DEF RequestStep

(* Steps that change nothing, and the deactivations.                       *)
LEMMA NextInv == IInv /\ [Next]_vars => IInv'
<1> SUFFICES ASSUME IInv, [Next]_vars PROVE IInv'
  OBVIOUS
<1>1. CASE UNCHANGED vars
  <2>1. TypeOK'
    BY <1>1 DEF vars, IInv, TypeOK
  <2>2. ASSUME NEW r \in Requests PROVE RequestOK(r)' /\ AnswerOK(r)' /\ HeldNow(r)'
    <3>1. RequestOK(r) /\ AnswerOK(r) /\ HeldNow(r)
      BY AnswersSplit DEF IInv
    <3> QED BY <1>1, <3>1 DEF vars, RequestOK, AnswerOK, HeldNow, RoleOf, AssigneeFits, At,
                              Account, Caller
  <2> QED BY <1>1, <2>1, <2>2, RowsKept, AnswersSplitNext DEF vars, IInv
<1>2. CASE \E u \in Users : Deactivate(u)
  BY <1>2, DeactivateKeeps
<1>3. CASE \E r \in Requests : RequestStep(r)
  BY <1>3, RequestKeeps
<1>4. CASE Quiescent
  BY <1>1, <1>4 DEF Quiescent
<1> QED BY <1>1, <1>2, <1>3, <1>4 DEF Next

(* The invariant holds in every reachable state, for any number of users,  *)
(* accounts and requests.                                                  *)
THEOREM Invariance == Spec => []IInv
BY InitInv, NextInv, PTL DEF Spec

(* Every variable keeps to its type.                                       *)
THEOREM TypeCorrect == Spec => []TypeOK
<1>1. IInv => TypeOK
  BY DEF IInv
<1> QED BY <1>1, Invariance, PTL

(* No answer shows a row of another account.                               *)
THEOREM AnswersSeparate == Spec => []AnswersStayInAccount
<1>1. IInv => AnswersStayInAccount
  BY DEF IInv
<1> QED BY <1>1, Invariance, PTL

(* No incident and no audit entry ties two accounts together.              *)
THEOREM RowsSeparate == Spec => []RowsStayInAccount
<1>1. IInv => RowsStayInAccount
  BY DEF IInv
<1> QED BY <1>1, Invariance, PTL

(* Whoever got a success was entitled to it at some moment since the       *)
(* request arrived, whatever role the token claims.                        *)
THEOREM AuthorityFresh == Spec => []AuthorityIsFresh
<1>1. IInv => AuthorityIsFresh
  BY DEF IInv
<1> QED BY <1>1, Invariance, PTL

(* Role history and profiles are shown only to who may see them.           *)
THEOREM RolesHidden == Spec => []RolesAreHidden
<1>1. IInv => RolesAreHidden
  BY DEF IInv
<1> QED BY <1>1, Invariance, PTL

(* The history of roles *)

\* Every role a request has read is one its user had.
RolesKnown ==
  /\ \A u \in Users : role[u] \in claims[u]
  /\ \A r \in Requests : pc[r] \in Steps \ {"arrived"} => call[r].role \in claims[Caller(r)]
  /\ \A r \in Requests : pc[r] = "commit" => call[r].loaded \in claims[call[r].item]
HistoryInv == RolesKnown /\ RoleHistoryLogged

(* A step that changes no role adds to the history only what the request   *)
(* read, and to the log nothing about roles.                               *)
LEMMA ReadingKeepsHistory ==
  ASSUME IInv, HistoryInv, NEW r \in Requests, UNCHANGED <<role, claims>>,
         \A q \in Requests \ {r} : pc'[q] = pc[q] /\ call'[q] = call[q],
         pc'[r] \in Steps \ {"arrived"} => call'[r].role \in claims[call'[r].by],
         pc'[r] = "commit" => call'[r].loaded \in claims[call'[r].item],
         \/ log' = log
         \/ \E e \in LogEntry : e.role = None /\ log' = Append(log, e)
  PROVE  HistoryInv'
<1>1. RolesKnown'
  BY DEF HistoryInv, RolesKnown, Caller
<1>2. /\ \A k \in DOMAIN log : k \in DOMAIN log' /\ log'[k] = log[k]
      /\ \A k \in DOMAIN log' : log'[k].role # None => k \in DOMAIN log
  <2>1. CASE log' = log
    BY <2>1
  <2>2. ASSUME NEW e \in LogEntry, e.role = None, log' = Append(log, e)
        PROVE  /\ \A k \in DOMAIN log : k \in DOMAIN log' /\ log'[k] = log[k]
               /\ \A k \in DOMAIN log' : log'[k].role # None => k \in DOMAIN log
    <3>1. log \in Seq(LogEntry)
      BY DEF IInv, TypeOK
    <3>2. /\ DOMAIN log' = DOMAIN log \cup {Len(log) + 1}
          /\ \A k \in DOMAIN log : log'[k] = log[k]
          /\ log'[Len(log) + 1] = e
      BY <2>2, <3>1
    <3> QED BY <2>2, <3>2
  <2> QED BY <2>1, <2>2
<1>3. ASSUME NEW u \in Users PROVE LoggedRoles(u)' = LoggedRoles(u)
  BY <1>2 DEF LoggedRoles
<1>4. RoleHistoryLogged'
  BY <1>2, <1>3 DEF HistoryInv, RoleHistoryLogged
<1> QED BY <1>1, <1>4 DEF HistoryInv

(* A request that ends leaves nothing to be committed.                     *)
LEMMA EndingKeepsHistory ==
  ASSUME IInv, HistoryInv, NEW r \in Requests,
         \/ \E code \in Refusals \cup {"lost"}, x \in Items : Fails(r, code, x)
         \/ \E S : Shows(r, S)
  PROVE  HistoryInv'
<1>1. /\ UNCHANGED <<role, claims, log>> /\ pc'[r] \notin Steps
      /\ \A q \in Requests \ {r} : pc'[q] = pc[q] /\ call'[q] = call[q]
  BY DEF Fails, Shows, Succeeds, Go, database, IInv, TypeOK, Steps, Refusals
<1> QED BY <1>1, ReadingKeepsHistory DEF Steps

(* A request that moves on has read roles from the rows, or has them from  *)
(* a row its session had read before.                                      *)
LEMMA MoveKeepsHistory ==
  ASSUME IInv, HistoryInv, NEW r \in Requests, NEW s, NEW c, UNCHANGED database,
         pc' = [pc EXCEPT ![r] = s], call' = [call EXCEPT ![r] = c],
         s \in Steps \ {"arrived"} => c.role \in claims[c.by],
         s = "commit" => c.loaded \in claims[c.item]
  PROVE  HistoryInv'
<1>1. pc'[r] = s /\ call'[r] = c /\ \A q \in Requests \ {r} : pc'[q] = pc[q] /\ call'[q] = call[q]
  BY DEF IInv, TypeOK
<1> QED BY <1>1, ReadingKeepsHistory DEF database

(* A request arrives, is let in under its caller's role of the moment.     *)
LEMMA EnteringKeepsHistory ==
  ASSUME IInv, HistoryInv, NEW r \in Requests
  PROVE  (\/ \E u \in Users, x \in Roles : Arrives(r, u, x)
          \/ \E op \in Calls : Authenticates(r, op))
         => HistoryInv'
<1>1. CASE \E u \in Users, x \in Roles : Arrives(r, u, x)
  <2>1. /\ pc'[r] = "arrived" /\ UNCHANGED database
        /\ \A q \in Requests \ {r} : pc'[q] = pc[q] /\ call'[q] = call[q]
    BY <1>1 DEF Arrives, Go, IInv, TypeOK
  <2> QED BY <2>1, ReadingKeepsHistory DEF database
<1>2. ASSUME NEW op \in Ops, Authenticates(r, op), ~Fails(r, "denied", None)
      PROVE  HistoryInv'
  <2> DEFINE c == [call[r] EXCEPT !.op = op, !.role = RoleOf(r)]
  <2>1. /\ pc[r] = "arrived" /\ pc' = [pc EXCEPT ![r] = FirstStep[op]]
        /\ call' = [call EXCEPT ![r] = c] /\ UNCHANGED database
    BY <1>2 DEF Authenticates, Go
  <2>2. c.by = Caller(r) /\ c.role = role[Caller(r)]
    BY DEF IInv, TypeOK, CallRecord, RoleOf, Caller
  <2> HIDE DEF c
  <2>4. Caller(r) \in Users
    BY <2>1 DEF IInv, RequestOK, Steps
  <2>3. FirstStep[op] # "commit"
    BY DEF FirstStep, Ops
  <2> QED BY <2>1, <2>2, <2>3, <2>4, MoveKeepsHistory DEF HistoryInv, RolesKnown
<1> QED BY <1>1, <1>2, CallsAreOps, EndingKeepsHistory DEF Refusals, Items

(* Later statements keep the role it was let in under.                     *)
LEMMA MovingKeepsHistory ==
  ASSUME IInv, HistoryInv, NEW r \in Requests
  PROVE  (\/ \E i \in Requests, w \in Users \cup {None, Nobody} : ChecksAssignee(r, i, w)
          \/ \E w \in Users \cup {Nobody}, x \in Roles : SetRoleLoads(r, w, x)
          \/ UpdateMatchesNone(r) \/ \E e \in Users \cup {Nobody} : ChecksEmail(r, e)
          \/ \E i \in Requests : FindsIncident(r, i))
         => HistoryInv'
<1>1. ASSUME NEW s, NEW c, UNCHANGED database, pc[r] \in Steps \ {"arrived"},
             pc' = [pc EXCEPT ![r] = s], call' = [call EXCEPT ![r] = c], c.by = Caller(r), c.role = call[r].role,
             s = "commit" => c.loaded \in claims[c.item]
      PROVE  HistoryInv'
  BY <1>1, MoveKeepsHistory DEF HistoryInv, RolesKnown
<1>2. ASSUME NEW i \in Requests, NEW w \in Users \cup {None, Nobody}, ChecksAssignee(r, i, w),
             ~Fails(r, "badRequest", w)
      PROVE  HistoryInv'
  <2> DEFINE c == [call[r] EXCEPT !.item = i, !.arg = w]
  <2>1. /\ pc[r] = "assignee" /\ pc' = [pc EXCEPT ![r] = "write"]
        /\ call' = [call EXCEPT ![r] = c] /\ UNCHANGED database
    BY <1>2 DEF ChecksAssignee, Go
  <2>2. c.by = Caller(r) /\ c.role = call[r].role
    BY DEF IInv, TypeOK, CallRecord, Caller
  <2> HIDE DEF c
  <2> QED BY <1>1, <2>1, <2>2 DEF Steps
<1>3. ASSUME NEW i \in Requests, FindsIncident(r, i), ~Fails(r, "notFound", i)
      PROVE  HistoryInv'
  <2> DEFINE c == [call[r] EXCEPT !.item = i]
  <2>1. /\ pc[r] = "find" /\ pc' = [pc EXCEPT ![r] = "read"]
        /\ call' = [call EXCEPT ![r] = c] /\ UNCHANGED database
    BY <1>3 DEF FindsIncident, At, Go
  <2>2. c.by = Caller(r) /\ c.role = call[r].role
    BY DEF IInv, TypeOK, CallRecord, Caller
  <2> HIDE DEF c
  <2> QED BY <1>1, <2>1, <2>2 DEF Steps
<1>4. ASSUME NEW w \in Users \cup {Nobody}, NEW x \in Roles, SetRoleLoads(r, w, x),
             ~Fails(r, "notFound", w)
      PROVE  HistoryInv'
  <2> DEFINE c == [call[r] EXCEPT !.item = w, !.arg = x, !.loaded = LoadedRole(r, w)]
  <2>1. /\ pc[r] = "load" /\ w \in Users /\ pc' = [pc EXCEPT ![r] = "commit"]
        /\ call' = [call EXCEPT ![r] = c] /\ UNCHANGED database
    BY <1>4 DEF SetRoleLoads, At, Go
  <2>2. c.by = Caller(r) /\ c.role = call[r].role /\ c.item = w /\ c.loaded = LoadedRole(r, w)
    BY DEF IInv, TypeOK, CallRecord, Caller
  <2> HIDE DEF c
  <2>3. call[r].role \in claims[Caller(r)]
    BY <2>1 DEF HistoryInv, RolesKnown, Steps
  <2>4. LoadedRole(r, w) \in claims[w]
    BY <2>1, <2>3 DEF LoadedRole, HistoryInv, RolesKnown
  <2> QED BY <1>1, <2>1, <2>2, <2>4 DEF Steps
<1>5. ASSUME UpdateMatchesNone(r) \/ \E e \in Users \cup {Nobody} : ChecksEmail(r, e) /\ e \notin Users
      PROVE  HistoryInv'
  <2>1. PICK s : /\ pc[r] \in {"write", "check"} /\ s # "commit" /\ pc' = [pc EXCEPT ![r] = s]
                 /\ call' = [call EXCEPT ![r] = call[r]] /\ UNCHANGED database
    BY <1>5 DEF UpdateMatchesNone, ChecksEmail, At, Go, IInv, TypeOK
  <2> QED BY <1>1, <2>1 DEF Steps, Caller
<1>6. ASSUME NEW e \in Users, ChecksEmail(r, e) PROVE HistoryInv'
  BY <1>6, EndingKeepsHistory DEF ChecksEmail, Refusals, Items
<1> QED BY <1>2, <1>3, <1>4, <1>5, <1>6, EndingKeepsHistory DEF Refusals, Items

(* update_user_role: what it writes is logged, and what it logs without    *)
(* writing is the role it had loaded.                                      *)
LEMMA SetRoleKeepsHistory ==
  ASSUME IInv, HistoryInv, NEW r \in Requests, SetRoleCommits(r)
  PROVE  HistoryInv'
<1>1. At(r, "setRole", "commit") /\ pc[r] \in Steps \ {"arrived"} /\ Succeeds(r)
  BY DEF SetRoleCommits, At, Steps
<1>2. PICK w \in Users, x \in Roles : w = call[r].item /\ x = call[r].arg
  BY <1>1 DEF At, IInv, RequestOK
<1>3. PICK new : /\ new = IF call[r].loaded = x THEN role[w] ELSE x
                 /\ role' = [role EXCEPT ![w] = new]
                 /\ claims' = [claims EXCEPT ![w] = @ \cup {new}]
  BY <1>2 DEF SetRoleCommits
<1>4. PICK e : /\ e.actor = Caller(r) /\ e.entity = w /\ e.role = x /\ log' = Append(log, e)
  BY <1>2 DEF SetRoleCommits, Logs
<1>5. x \in claims[w] \cup {new} /\ role[w] \in claims[w] /\ x # None
  <2>1. call[r].loaded \in claims[w]
    BY <1>1, <1>2 DEF At, HistoryInv, RolesKnown
  <2> QED BY <1>3, <2>1, NoneIsNoRow DEF HistoryInv, RolesKnown
<1>6. \A u \in Users : claims'[u] = IF u = w THEN claims[w] \cup {new} ELSE claims[u]
  BY <1>3 DEF IInv, TypeOK
<1>7. \A u \in Users : role'[u] = IF u = w THEN new ELSE role[u]
  BY <1>3 DEF IInv, TypeOK
<1>8. "admin" \in claims[Caller(r)] /\ Caller(r) \in Users
  BY <1>1 DEF At, HistoryInv, RolesKnown, IInv, RequestOK, Allowed, Ops
<1>9. /\ \A k \in DOMAIN log : k \in DOMAIN log' /\ log'[k] = log[k]
      /\ \E k \in DOMAIN log' : log'[k] = e
      /\ \A k \in DOMAIN log' : k \in DOMAIN log \/ log'[k] = e
  BY <1>4 DEF IInv, TypeOK
<1>10. RolesKnown'
  BY <1>1, <1>6, <1>7, SucceedsKeeps DEF HistoryInv, RolesKnown, Steps, Caller, IInv, RequestOK
<1>11. ASSUME NEW u \in Users PROVE \E y \in Roles : claims'[u] = {y} \cup LoggedRoles(u)'
  <2>1. PICK y \in Roles : claims[u] = {y} \cup LoggedRoles(u)
    BY DEF HistoryInv, RoleHistoryLogged
  <2>2. LoggedRoles(u)' = IF u = w THEN LoggedRoles(u) \cup {x} ELSE LoggedRoles(u)
    BY <1>4, <1>5, <1>9 DEF LoggedRoles
  <2>3. claims'[u] = {y} \cup LoggedRoles(u)'
    BY <1>3, <1>5, <1>6, <2>1, <2>2
  <2> QED BY <2>3
<1>12. ASSUME NEW k \in DOMAIN log', log'[k].role # None
       PROVE  "admin" \in claims'[log'[k].actor]
  <2>1. CASE k \in DOMAIN log
    <3>1. log[k] \in LogEntry
      BY <2>1 DEF IInv, TypeOK
    <3>2. log[k].actor \in Users
      BY <3>1 DEF LogEntry
    <3> QED BY <1>6, <1>9, <1>12, <2>1, <3>2 DEF HistoryInv, RoleHistoryLogged
  <2>2. CASE log'[k] = e
    BY <1>4, <1>6, <1>8, <2>2
  <2> QED BY <1>9, <2>1, <2>2
<1> QED BY <1>10, <1>11, <1>12 DEF HistoryInv, RoleHistoryLogged

(* Incidents are logged without a role, and a deactivation logs nothing.   *)
LEMMA HistoryKept == IInv /\ HistoryInv /\ [Next]_vars => HistoryInv'
<1> SUFFICES ASSUME IInv, HistoryInv, [Next]_vars PROVE HistoryInv'
  OBVIOUS
<1>1. CASE UNCHANGED <<role, claims, log, pc, call>>
  BY <1>1 DEF HistoryInv, RolesKnown, Caller, RoleHistoryLogged, LoggedRoles
<1>2. ASSUME NEW r \in Requests, CreateCommits(r) \/ UpdateCommits(r) \/ InviteCommits(r)
      PROVE  HistoryInv'
  <2>1. pc[r] \in Steps \ {"arrived"} /\ Succeeds(r) /\ UNCHANGED <<role, claims>>
    BY <1>2 DEF CreateCommits, UpdateCommits, InviteCommits, At, Steps
  <2>2. pc'[r] \notin Steps /\ \A q \in Requests \ {r} : pc'[q] = pc[q] /\ call'[q] = call[q]
    BY <2>1, SucceedsKeeps DEF Steps
  <2>3. Account(r) \in Accounts
    BY <2>1, SucceedsKeeps, UsersHaveAccounts DEF Account
  <2>4. log' = log \/ \E e \in LogEntry : e.role = None /\ log' = Append(log, e)
    <3>1. CASE CreateCommits(r) \/ UpdateCommits(r)
      <4>1. PICK i \in Requests : Logs(r, i, i, None)
        BY <2>1, <3>1 DEF CreateCommits, UpdateCommits, At, IInv, RequestOK
      <4> QED BY <2>1, <2>3, <4>1, SucceedsKeeps DEF Logs, LogEntry
    <3>2. CASE InviteCommits(r)
      BY <3>2 DEF InviteCommits
    <3> QED BY <1>2, <3>1, <3>2
  <2> QED BY <2>1, <2>2, <2>4, ReadingKeepsHistory DEF Steps
<1>3. ASSUME NEW r \in Requests, RequestStep(r) PROVE HistoryInv'
  <2>1. CASE \/ ListsIncidents(r) \/ ListsUsers(r) \/ ListsInvites(r)
             \/ ReadsTimeline(r) \/ ListsAuditLogs(r)
             \/ \E e \in Users \cup Requests : ReadsTrail(r, e)
    <3>1. \E S : Shows(r, S)
      BY <2>1 DEF ListsIncidents, ListsUsers, ListsInvites, ReadsTimeline, ListsAuditLogs, ReadsTrail
    <3> QED BY <3>1, EndingKeepsHistory
  <2>2. CASE Crash(r) \/ ExplainsNone(r) \/ \E i \in Requests : GetsIncident(r, i)
    <3>1. At(r, "updateIncident", "reason") => call[r].item \in Items
      BY DEF At, IInv, RequestOK, Items
    <3>2. \/ \E code \in Refusals \cup {"lost"}, x \in Items : Fails(r, code, x)
          \/ \E S : Shows(r, S)
      BY <2>2, <3>1 DEF Crash, ExplainsNone, GetsIncident, Refusals, Items
    <3> QED BY <3>2, EndingKeepsHistory
  <2> QED BY <1>2, <1>3, <2>1, <2>2, EnteringKeepsHistory, MovingKeepsHistory,
              SetRoleKeepsHistory DEF RequestStep
<1>4. CASE (\E u \in Users : Deactivate(u)) \/ Quiescent \/ UNCHANGED vars
  BY <1>1, <1>4 DEF Deactivate, Quiescent, vars
<1> QED BY <1>3, <1>4 DEF Next

(* The audit log names every role a user ever had but the first, and no    *)
(* other (auth.py:297-309), although it may not name the one the user has. *)
THEOREM RoleHistory == Spec => []RoleHistoryLogged
<1>1. Init => HistoryInv
  <2> SUFFICES ASSUME Init PROVE HistoryInv
    OBVIOUS
  <2>1. RolesKnown
    BY DEF Init, RolesKnown, Steps
  <2>2. ASSUME NEW u \in Users PROVE \E x \in Roles : claims[u] = {x} \cup LoggedRoles(u)
    <3>1. role[u] \in Roles /\ claims[u] = {role[u]} /\ LoggedRoles(u) = {}
      BY DEF Init, LoggedRoles
    <3> QED BY <3>1
  <2> QED BY <2>1, <2>2 DEF Init, HistoryInv, RoleHistoryLogged
<1>2. HistoryInv => RoleHistoryLogged
  BY DEF HistoryInv
<1> QED BY <1>1, <1>2, HistoryKept, Invariance, PTL DEF Spec
=============================================================================
