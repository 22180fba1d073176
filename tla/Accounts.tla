------------------------------ MODULE Accounts ------------------------------
(***************************************************************************)
(* How accounts, users and invites come to be: register, create_invite and *)
(* accept_invite, interleaved at their database statements. Each request   *)
(* is one transaction at READ COMMITTED; users have unique emails. A user, *)
(* an account and an invite are named after the request that created them; *)
(* Founders registered earlier, each with an account and an email of its   *)
(* own. Roles never change here: module Access has update_user_role.       *)
(***************************************************************************)
EXTENDS Integers, FiniteSets

CONSTANTS Requests, Founders, Emails,
          Roles, Admin,  \* UserRole, and its member ADMIN
          None           \* no row

ASSUME NamesAreDistinct == /\ Requests \cap Founders = {} /\ Emails \cap Founders = {}
                           /\ None \notin Requests \cup Founders \cup Emails \cup Roles
ASSUME AdminIsRole == Admin \in Roles

VARIABLES user,     \* user[n]: the users row named n, or None
          accounts, \* the accounts rows
          invite,   \* invite[i]: the invites row named i, or None
          pc,       \* pc[r]: where request r stands, or its answer
          call      \* call[r]: its arguments and what it has read

vars == <<user, accounts, invite, pc, call>>

Names == Requests \cup Founders
Users == {n \in Names : user[n] # None}
UserRow == [email : Emails \cup Founders, account : Names, role : Roles,
            via : Requests \cup {None}]
InviteRow == [email : Emails, account : Names, role : Roles,
              accepted : BOOLEAN, expired : BOOLEAN]

CallRecord == [op : {"none"}] \cup [op : {"register"}, email : Emails]
              \cup [op : {"invite"}, email : Emails, role : Roles, account : Names]
              \cup [op : {"accept"}, invite : Requests, row : InviteRow \cup {None}]
ASSUME NoneIsNoRow == None \notin UserRow \cup InviteRow

Steps == {"insert", "check", "send", "commit", "committed"}
Answers == {"ok", "refused", "error", "lost"}

Init == /\ user = [n \in Names |->
                     IF n \in Founders
                     THEN [email |-> n, account |-> n, role |-> Admin, via |-> None]
                     ELSE None]
        /\ accounts = Founders
        /\ invite = [i \in Requests |-> None]
        /\ pc = [r \in Requests |-> "idle"]
        /\ call = [r \in Requests |-> [op |-> "none"]]

---------------------------------------------------------------------------
(* Helpers *)

EmailTaken(e) == \E n \in Users : user[n].email = e

\* Request r moves on, remembering c, and changes no row.
Begin(r, step, c) ==
  /\ pc[r] = "idle"
  /\ pc' = [pc EXCEPT ![r] = step]
  /\ call' = [call EXCEPT ![r] = c]
  /\ UNCHANGED <<user, accounts, invite>>
At(r, op, step) == call[r].op = op /\ pc[r] = step
Go(r, step) == pc' = [pc EXCEPT ![r] = step] /\ UNCHANGED call
NoRow == UNCHANGED <<user, accounts, invite>>

\* RequireRole([ADMIN]): u is read once, when the request is authenticated.
IfAdmin(u, step) == IF user[u].role = Admin THEN step ELSE "refused"

---------------------------------------------------------------------------
(* POST /auth/register *)
RegisterChecksEmail(r, e) ==
  Begin(r, IF EmailTaken(e) THEN "refused" ELSE "insert", [op |-> "register", email |-> e])

RegisterForgetsAccount(r) ==   \* mutant: the founder gets no account_id
  /\ At(r, "register", "insert")
  /\ user' = [user EXCEPT ![r] = [email |-> call[r].email, account |-> None,
                                  role |-> Admin, via |-> None]]
  /\ accounts' = accounts \cup {r}
  /\ Go(r, "committed")
  /\ UNCHANGED invite

RegisterKeepsAccount(r) ==   \* mutant: the account is committed on its own
  /\ At(r, "register", "insert")
  /\ accounts' = accounts \cup {r}
  /\ IF EmailTaken(call[r].email)
     THEN Go(r, "refused") /\ UNCHANGED user
     ELSE /\ user' = [user EXCEPT ![r] = [email |-> call[r].email, account |-> r,
                                          role |-> Admin, via |-> None]]
          /\ Go(r, "committed")
  /\ UNCHANGED invite

\* Account and founder are inserted and committed together, or not at all.
RegisterCommits(r) ==
  /\ At(r, "register", "insert")
  /\ IF EmailTaken(call[r].email)
     THEN Go(r, "refused") /\ NoRow
     ELSE /\ user' = [user EXCEPT ![r] = [email |-> call[r].email, account |-> r,
                                          role |-> Admin, via |-> None]]
          /\ accounts' = accounts \cup {r}
          /\ Go(r, "committed")
          /\ UNCHANGED invite

---------------------------------------------------------------------------
(* POST /auth/invites *)
InviteBegins(r, u, e, x) ==
  Begin(r, IfAdmin(u, "check"),
        [op |-> "invite", email |-> e, role |-> x, account |-> user[u].account])

InviteChecksOwnUsers(r) ==   \* mutant: looks for the email in the account only
  /\ At(r, "invite", "check")
  /\ Go(r, IF \E n \in Users : user[n].email = call[r].email /\ user[n].account = call[r].account
           THEN "refused" ELSE "send")
  /\ NoRow

InviteChecksEmail(r) ==   \* and flushes the new row, which nobody else sees
  /\ At(r, "invite", "check")
  /\ Go(r, IF EmailTaken(call[r].email) THEN "refused" ELSE "send")
  /\ NoRow

EmailFailureAnswered(r) ==   \* mutant: the failure is reported after a success
  /\ At(r, "invite", "send")
  /\ Go(r, "ok") /\ NoRow

\* send_invite_email: skipped or delivered, or the mail service raises. The
\* exception leaves the handler before the commit.
EmailReturns(r) == At(r, "invite", "send") /\ Go(r, "commit") /\ NoRow
EmailFails(r) == At(r, "invite", "send") /\ Go(r, "error") /\ NoRow

InviteCommits(r) ==
  /\ At(r, "invite", "commit")
  /\ invite' = [invite EXCEPT ![r] =
                  [email |-> call[r].email, account |-> call[r].account,
                   role |-> call[r].role, accepted |-> FALSE, expired |-> FALSE]]
  /\ Go(r, "committed")
  /\ UNCHANGED <<user, accounts>>

\* INVITE_TTL_DAYS pass.
Expire(i) ==
  /\ invite[i] # None /\ ~invite[i].expired
  /\ invite' = [invite EXCEPT ![i].expired = TRUE]
  /\ UNCHANGED <<user, accounts, pc, call>>

---------------------------------------------------------------------------
(* POST /auth/invites/{token}/accept *)
AcceptReadsInvite(r, i) ==
  Begin(r, IF invite[i] = None \/ invite[i].accepted \/ invite[i].expired
           THEN "refused" ELSE "insert",
        [op |-> "accept", invite |-> i, row |-> invite[i]])

Joiner(r) == [email |-> call[r].row.email, account |-> call[r].row.account,
              role |-> call[r].row.role, via |-> call[r].invite]

AcceptTakesAnyEmail(r) ==   \* mutant: users.email is not unique
  /\ At(r, "accept", "insert")
  /\ user' = [user EXCEPT ![r] = Joiner(r)]
  /\ invite' = [invite EXCEPT ![call[r].invite].accepted = TRUE]
  /\ Go(r, "committed")
  /\ UNCHANGED accounts

\* The invite is not checked again: a second accept fails on the email.
AcceptCommits(r) ==
  /\ At(r, "accept", "insert")
  /\ IF EmailTaken(call[r].row.email)
     THEN Go(r, "refused") /\ NoRow
     ELSE /\ user' = [user EXCEPT ![r] = Joiner(r)]
          /\ invite' = [invite EXCEPT ![call[r].invite].accepted = TRUE]
          /\ Go(r, "committed")
          /\ UNCHANGED accounts

---------------------------------------------------------------------------
Answer(r) == pc[r] = "committed" /\ Go(r, "ok") /\ NoRow

\* A crash, a lost connection: what is not committed is rolled back.
Fail(r) == pc[r] \in Steps /\ Go(r, "lost") /\ NoRow

RequestStep(r) ==
  \/ \E e \in Emails : RegisterChecksEmail(r, e)
  \/ \E u \in Users, e \in Emails, x \in Roles : InviteBegins(r, u, e, x)
  \/ \E i \in Requests : AcceptReadsInvite(r, i)
  \/ RegisterCommits(r)
  \/ InviteChecksEmail(r) \/ EmailReturns(r) \/ EmailFails(r)
  \/ InviteCommits(r) \/ AcceptCommits(r)
  \/ Answer(r) \/ Fail(r)

Quiescent == /\ \A r \in Requests : pc[r] \in Answers
             /\ UNCHANGED vars

Next == (\E r \in Requests : RequestStep(r) \/ Expire(r)) \/ Quiescent

Spec == Init /\ [][Next]_vars

---------------------------------------------------------------------------
(* Properties *)

(* Every variable keeps to its type (models/user.py, models/invite.py).    *)
TypeOK == /\ user \in [Names -> UserRow \cup {None}]
          /\ accounts \subseteq Names
          /\ invite \in [Requests -> InviteRow \cup {None}]
          /\ pc \in [Requests -> {"idle"} \cup Steps \cup Answers]
          /\ call \in [Requests -> CallRecord]

(* An invite lets in at most one user, although accept_invite checks it    *)
(* long before its commit and two invites may name one email: it is marked *)
(* accepted exactly if one user joined by it, with its email, account and  *)
(* role.                                                                   *)
JoinedBy(i) == {n \in Users : user[n].via = i}
OneUserPerInvite ==
  \A i \in Requests : invite[i] # None =>
    /\ Cardinality(JoinedBy(i)) = (IF invite[i].accepted THEN 1 ELSE 0)
    /\ \A n \in JoinedBy(i) : /\ user[n].email = invite[i].email
                              /\ user[n].account = invite[i].account
                              /\ user[n].role = invite[i].role

(* Every account has its founder, even if two registrations race for one   *)
(* email (register rolls the account back), and every user has an account. *)
NoOrphans ==
  /\ \A a \in accounts : a \in Users /\ user[a].account = a
  /\ \A n \in Users : user[n].account \in accounts

(* The answer is kept: a success has left its rows behind, a refusal and   *)
(* an error nothing. In particular a returned invite link leads to an      *)
(* invite, which no later request takes away.                              *)
LeftNothing(r) == user[r] = None /\ invite[r] = None /\ r \notin accounts
AnswersKept ==
  \A r \in Requests :
    /\ pc[r] \in {"refused", "error"} => LeftNothing(r)
    /\ pc[r] = "ok" => IF call[r].op = "invite" THEN invite[r] # None ELSE user[r] # None

(* schemas/invite.py:15: the raw link is there for the admin to hand over  *)
(* "if email delivery isn't configured or fails": no create_invite ends in *)
(* an error because the mail service failed.                               *)
EmailFailureKeepsInvite == \A r \in Requests : call[r].op = "invite" => pc[r] # "error"

(* The statements of registrations, invites and accepts, interleaved, keep *)
(* what Membership says: each takes effect at once, on rows that allow it  *)
(* then, although checks and effect are steps apart; no request is refused *)
(* for a reason that is not there (auth.py:48-187).                        *)
Outcome == [idle |-> "none", insert |-> "pending", check |-> "asked", send |-> "pending",
            commit |-> "pending", committed |-> "done", ok |-> "ok", refused |-> "refused",
            error |-> "error", lost |-> "lost"]
Asked(c) == IF c.op = "accept" THEN [op |-> "accept", invite |-> c.invite] ELSE c
Promise == INSTANCE Membership
             WITH member <- user,
                  outcome <- [r \in Requests |-> Outcome[pc[r]]],
                  request <- [r \in Requests |-> Asked(call[r])]
PromiseSpec == Promise!Spec
=============================================================================
