------------------------------ MODULE Membership ------------------------------
(***************************************************************************)
(* What register, create_invite and accept_invite promise whoever races    *)
(* for an email or an invite: each takes effect in one step or not at all, *)
(* a refusal is deserved when it is given, and an accept takes effect only *)
(* on an invite nobody has accepted and an email nobody has, though it     *)
(* looked at neither when it committed. What may change between the check  *)
(* and the effect: the invite may expire, and the email of one that is     *)
(* being created may be taken.                                             *)
(***************************************************************************)
CONSTANTS Requests, Founders, Emails, Roles, Admin, None

VARIABLES member,    \* member[n]: the user named n, or None
          accounts,  \* the accounts founded so far
          invite,    \* invite[i]: the invite named i, or None
          outcome,   \* outcome[r]: none, asked, pending, done, ok,
                     \* refused, error or lost
          request    \* request[r]: what r asks for

rows == <<member, accounts, invite>>
vars == <<member, accounts, invite, outcome, request>>

Names == Requests \cup Founders
Members == {n \in Names : member[n] # None}
Taken(e) == \E n \in Members : member[n].email = e

Init == /\ member = [n \in Names |->
                       IF n \in Founders
                       THEN [email |-> n, account |-> n, role |-> Admin, via |-> None]
                       ELSE None]
        /\ accounts = Founders
        /\ invite = [i \in Requests |-> None]
        /\ outcome = [r \in Requests |-> "none"]
        /\ request = [r \in Requests |-> [op |-> "none"]]

Ends(r, how) == outcome' = [outcome EXCEPT ![r] = how] /\ UNCHANGED request

Open(i) == invite[i] # None /\ ~invite[i].accepted /\ ~invite[i].expired

Ask(r, c, how) == /\ outcome[r] = "none"
                  /\ outcome' = [outcome EXCEPT ![r] = how]
                  /\ request' = [request EXCEPT ![r] = c]
                  /\ UNCHANGED rows

AskToRegister(r, e) ==
  Ask(r, [op |-> "register", email |-> e], IF Taken(e) THEN "refused" ELSE "pending")

AskToAccept(r, i) ==
  Ask(r, [op |-> "accept", invite |-> i], IF Open(i) THEN "pending" ELSE "refused")

\* Only an admin may, and only for the account that is the admin's own.
AskToInvite(r, u, e, x) ==
  Ask(r, [op |-> "invite", email |-> e, role |-> x, account |-> member[u].account],
      IF member[u].role = Admin THEN "asked" ELSE "refused")

Register(r) ==
  LET c == request[r] IN
  /\ outcome[r] = "pending" /\ c.op = "register" /\ ~Taken(c.email)
  /\ member' = [member EXCEPT ![r] = [email |-> c.email, account |-> r,
                                      role |-> Admin, via |-> None]]
  /\ accounts' = accounts \cup {r}
  /\ Ends(r, "done")
  /\ UNCHANGED invite

Vet(r) == /\ outcome[r] = "asked" /\ ~Taken(request[r].email)
          /\ Ends(r, "pending")
          /\ UNCHANGED rows

\* The email was free when r was vetted.
Invite(r) ==
  LET c == request[r] IN
  /\ outcome[r] = "pending" /\ c.op = "invite" /\ invite[r] = None
  /\ invite' = [invite EXCEPT ![r] = [email |-> c.email, account |-> c.account, role |-> c.role,
                                      accepted |-> FALSE, expired |-> FALSE]]
  /\ Ends(r, "done")
  /\ UNCHANGED <<member, accounts>>

\* The invite had not expired when r was asked.
Accept(r) ==
  LET i == request[r].invite IN
  /\ outcome[r] = "pending" /\ request[r].op = "accept"
  /\ invite[i] # None /\ ~invite[i].accepted /\ ~Taken(invite[i].email)
  /\ member' = [member EXCEPT ![r] = [email |-> invite[i].email, account |-> invite[i].account,
                                      role |-> invite[i].role, via |-> i]]
  /\ invite' = [invite EXCEPT ![i].accepted = TRUE]
  /\ Ends(r, "done")
  /\ UNCHANGED accounts

\* The email is taken, by someone else or by whoever accepted the invite.
Refuse(r) ==
  LET c == request[r] IN
  /\ \/ outcome[r] = "asked" /\ Taken(c.email)
     \/ outcome[r] = "pending" /\ c.op = "register" /\ Taken(c.email)
     \/ outcome[r] = "pending" /\ c.op = "accept" /\ Taken(invite[c.invite].email)
  /\ Ends(r, "refused")
  /\ UNCHANGED rows

Confirm(r) == outcome[r] = "done" /\ Ends(r, "ok") /\ UNCHANGED rows

\* The mail service fails before the invite is there.
MailFails(r) == /\ outcome[r] = "pending" /\ request[r].op = "invite"
                /\ Ends(r, "error")
                /\ UNCHANGED rows
Lose(r) == outcome[r] \in {"asked", "pending", "done"} /\ Ends(r, "lost") /\ UNCHANGED rows

Expire(i) == /\ invite[i] # None /\ ~invite[i].expired
             /\ invite' = [invite EXCEPT ![i].expired = TRUE]
             /\ UNCHANGED <<member, accounts, outcome, request>>

Next == \E r \in Requests :
          \/ \E e \in Emails : AskToRegister(r, e)
          \/ \E i \in Requests : AskToAccept(r, i)
          \/ \E u \in Members, e \in Emails, x \in Roles : AskToInvite(r, u, e, x)
          \/ Vet(r) \/ Register(r) \/ Invite(r) \/ Accept(r)
          \/ Refuse(r) \/ Confirm(r) \/ MailFails(r) \/ Lose(r)
          \/ Expire(r)

Spec == Init /\ [][Next]_vars
=============================================================================
