------------------------------- MODULE Tenancy -------------------------------
(***************************************************************************)
(* What one account may rely on, told as if it had the program for itself: *)
(* its members' requests are let in by the role their row has then, take   *)
(* effect in one step or not at all, and are answered from its own rows,   *)
(* all of them and no others; what it does not have does not exist.        *)
(*                                                                         *)
(* There are no other accounts here but for one thing: an address can be   *)
(* taken Elsewhere, because users.email is unique in the whole program.    *)
(***************************************************************************)
CONSTANTS Self,       \* the account
          Members, Requests,
          Elsewhere,  \* who has an account elsewhere
          Names,      \* what one may ask for, one's own or not
          None

VARIABLES role,      \* role[u]: the role of member u
          active,    \* the members that may still call
          incident,  \* incident[i]: its incident i, or None
          log,       \* log[k]: the audit entry named k
          invites,   \* the invites it has sent
          request,   \* request[r]: who was let in to do what, under which role
          answer,    \* answer[r]: how r was answered, and about what
          shown      \* shown[r]: the rows that answer showed

rows == <<role, active, incident, log, invites>>
vars == <<role, active, incident, log, invites, request, answer, shown>>

Roles == {"admin", "responder", "viewer"}
Ops == {"createIncident", "updateIncident", "setRole", "createInvite", "invites",
        "auditLogs", "incidents", "incidentLog", "users"}

May(x, op) == CASE op \in {"setRole", "createInvite", "invites"} -> x = "admin"
                [] op \in {"createIncident", "updateIncident", "auditLogs"} -> x # "viewer"
                [] OTHER -> TRUE

NoRequest == [by |-> None, op |-> None, role |-> None]
NoAnswer == [code |-> None, item |-> None]
Existing == {i \in Requests : incident[i] # None}

Init == /\ role \in [Members -> Roles]
        /\ active = Members
        /\ incident = [i \in Requests |-> None]
        /\ log = [k \in {} |-> None]
        /\ invites = {}
        /\ request = [r \in Requests |-> NoRequest]
        /\ answer = [r \in Requests |-> NoAnswer]
        /\ shown = [r \in Requests |-> {}]

---------------------------------------------------------------------------
New(r) == request[r].by = None /\ answer[r] = NoAnswer
Pending(r, op) == request[r].by # None /\ request[r].op = op
Close(r) == request' = [request EXCEPT ![r] = NoRequest]
Say(r, code, x) == answer' = [answer EXCEPT ![r] = [code |-> code, item |-> x]]

\* Authority is that of the moment in which r is let in, and of no other.
LetIn(r, u, op) ==
  /\ New(r) /\ u \in active /\ May(role[u], op)
  /\ request' = [request EXCEPT ![r] = [by |-> u, op |-> op, role |-> role[u]]]
  /\ UNCHANGED <<rows, answer, shown>>
Deny(r, u, op) ==
  /\ New(r) /\ ~(u \in active /\ May(role[u], op))
  /\ Say(r, "denied", None)
  /\ UNCHANGED <<rows, request, shown>>

\* What the account does not have is not found, only what it has can be in
\* conflict, and it can give work to none but its members.
Refusable(r, code, x) ==
  \/ /\ code = "notFound" /\ x \notin Existing
     /\ Pending(r, "updateIncident") \/ Pending(r, "incidents") \/ Pending(r, "incidentLog")
  \/ code = "notFound" /\ x \notin Members /\ Pending(r, "setRole")
  \/ code = "conflict" /\ x \in Existing /\ Pending(r, "updateIncident")
  \/ /\ code = "badRequest" /\ x \notin Members \cup {None}
     /\ Pending(r, "createIncident") \/ Pending(r, "updateIncident")
  \/ code = "badRequest" /\ x \in Members \cup Elsewhere /\ Pending(r, "createInvite")
Refuse(r, code, x) ==
  /\ Refusable(r, code, x)
  /\ Close(r) /\ Say(r, code, x)
  /\ UNCHANGED <<rows, shown>>

\* An error, a crash: nothing has happened, and r is as good as new.
Drop(r) == /\ request[r].by # None
           /\ Close(r)
           /\ UNCHANGED <<rows, answer, shown>>

Leave(u) == /\ u \in active
            /\ active' = active \ {u}
            /\ UNCHANGED <<role, incident, log, invites, request, answer, shown>>

Ends(r, op, S) == /\ Pending(r, op)
                  /\ Close(r) /\ Say(r, "ok", None)
                  /\ shown' = [shown EXCEPT ![r] = S]

---------------------------------------------------------------------------
\* An entry is added under a new name, in the step it tells of.
Logs(r, entity, i, x) ==
  \E k \in DOMAIN log' \ DOMAIN log :
    log' = [j \in DOMAIN log \cup {k} |->
              IF j = k THEN [account |-> Self, actor |-> request[r].by,
                             entity |-> entity, incident |-> i, role |-> x]
                       ELSE log[j]]

Create(r, w) ==
  /\ Ends(r, "createIncident", {})
  /\ incident[r] = None
  /\ incident' = [incident EXCEPT ![r] = [account |-> Self, reporter |-> request[r].by,
                                          assignee |-> w]]
  /\ Logs(r, r, r, None)
  /\ UNCHANGED <<role, active, invites>>

Update(r, i, w) ==
  /\ Ends(r, "updateIncident", {})
  /\ incident[i] # None
  /\ incident' = [incident EXCEPT ![i].assignee = w]
  /\ Logs(r, i, i, None)
  /\ UNCHANGED <<role, active, invites>>

\* The entry names the role that was asked for. The member gets it, unless
\* the request had found it there and another one has changed it since.
SetRole(r, w, x) ==
  /\ Ends(r, "setRole", {})
  /\ role' \in {[role EXCEPT ![w] = x], role}
  /\ Logs(r, w, None, x)
  /\ UNCHANGED <<active, incident, invites>>

Invite(r) ==
  /\ Ends(r, "createInvite", {})
  /\ invites' = invites \cup {[account |-> Self, invitedBy |-> request[r].by]}
  /\ UNCHANGED <<role, active, incident, log>>

---------------------------------------------------------------------------
Rows(kind, S) == {[account |-> Self, kind |-> kind] : x \in S}
Entries(K) == Rows("incidentEntry", {k \in K : log[k].role = None})
                \cup Rows("roleEntry", {k \in K : log[k].role # None})

\* A read shows everything the account has of what was asked for.
Reads(r) ==
  /\ \/ Ends(r, "incidents", Rows("incident", Existing))
     \/ \E i \in Existing : \/ Ends(r, "incidents", Rows("incident", {i}))
                            \/ Ends(r, "incidentLog",
                                    Entries({k \in DOMAIN log : log[k].incident = i}))
     \/ Ends(r, "auditLogs", Entries(DOMAIN log))
     \/ \E e \in Names :
          Ends(r, "auditLogs", Entries({k \in DOMAIN log : log[k].entity = e}))
     \/ Ends(r, "invites", Rows("invite", invites))
     \/ Ends(r, "users", Rows(IF request[r].role = "admin" THEN "profile" ELSE "name", Members))
  /\ UNCHANGED rows

Next == \/ \E u \in Members : Leave(u)
        \/ \E r \in Requests :
             \/ \E u \in Members, op \in Ops : LetIn(r, u, op) \/ Deny(r, u, op)
             \/ \E code \in {"badRequest", "notFound", "conflict"}, x \in Names :
                  Refuse(r, code, x)
             \/ Drop(r) \/ Reads(r) \/ Invite(r)
             \/ \E w \in Members \cup {None} :
                  Create(r, w) \/ \E i \in Requests : Update(r, i, w)
             \/ \E w \in Members, x \in Roles : SetRole(r, w, x)

Spec == Init /\ [][Next]_vars
=============================================================================
