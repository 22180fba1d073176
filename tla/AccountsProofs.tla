---------------------------- MODULE AccountsProofs ----------------------------
(***************************************************************************)
(* Proofs about Accounts: whatever registrations, invites and accepts race *)
(* for whatever emails, an invite lets in one user and no account or user  *)
(* is left without the other.                                              *)
(***************************************************************************)
EXTENDS Accounts, FiniteSetTheorems, TLAPS

(* The inductive invariant. Emails are unique, and an invite keeps what a  *)
(* request read in it, whether or not it is still open.                    *)
EmailsUnique == \A m, n \in Users : user[m].email = user[n].email => m = n

SameInvite(x, y) == x.email = y.email /\ x.account = y.account /\ x.role = y.role
InviteOK(i) ==
  /\ invite[i] = None => JoinedBy(i) = {}
  /\ invite[i] # None =>
       /\ invite[i].account \in accounts
       /\ invite[i].accepted <=> JoinedBy(i) # {}
       /\ \A n \in JoinedBy(i) : SameInvite(user[n], invite[i])

RequestOK(r) ==
  /\ ~LeftNothing(r) => pc[r] \in {"committed", "ok", "lost"}
  /\ pc[r] \in {"committed", "ok"} =>
       IF call[r].op = "invite" THEN invite[r] # None ELSE user[r] # None
  /\ call[r].op = "invite" /\ pc[r] \in {"check", "send", "commit"} =>
       call[r].account \in accounts
  /\ At(r, "accept", "insert") =>
       LET i == call[r].invite IN
       /\ invite[i] # None /\ call[r].row # None
       /\ SameInvite(call[r].row, invite[i])

IInv == /\ TypeOK /\ EmailsUnique /\ NoOrphans
        /\ \A i \in Requests : InviteOK(i) /\ RequestOK(i)

---------------------------------------------------------------------------
(* Only the founders are there, each with an account and email of its own. *)
LEMMA InitInv == Init => IInv
<1> SUFFICES ASSUME Init PROVE IInv
  OBVIOUS
<1>1. TypeOK
  BY AdminIsRole, NamesAreDistinct DEF Init, TypeOK, Names, UserRow, CallRecord
<1>2. \A n \in Users : n \in Founders /\ user[n].email = n /\ user[n].account = n
                       /\ user[n].via = None
  BY DEF Init, Users, Names
<1>3. EmailsUnique
  BY <1>2 DEF EmailsUnique
<1>4. NoOrphans
  <2>1. \A f \in Founders : f \in Users /\ user[f].account = f
    BY NoneIsNoRow, AdminIsRole DEF Init, Users, Names, UserRow
  <2> QED BY <1>2, <2>1 DEF Init, NoOrphans
<1>5. ASSUME NEW i \in Requests PROVE InviteOK(i) /\ RequestOK(i)
  <2>1. JoinedBy(i) = {}
    BY <1>2, NamesAreDistinct DEF JoinedBy
  <2>2. LeftNothing(i) /\ pc[i] = "idle" /\ call[i].op = "none" /\ invite[i] = None
    BY NamesAreDistinct DEF Init, LeftNothing, Names
  <2> QED BY <2>1, <2>2 DEF InviteOK, RequestOK, At
<1> QED BY <1>1, <1>3, <1>4, <1>5 DEF IInv

(* A step of request r may add to the rows, never to those named after     *)
(* another request, and owes the invariant its own part and that of rows.  *)
LEMMA StepKeeps ==
  ASSUME IInv, TypeOK', NEW r \in Requests,
         \A q \in Requests \ {r} : /\ pc'[q] = pc[q] /\ call'[q] = call[q]
                                   /\ user'[q] = user[q]
                                   /\ q \in accounts' <=> q \in accounts
                                   /\ invite'[q] = None <=> invite[q] = None,
         accounts \subseteq accounts',
         \A i \in Requests : invite[i] # None =>
           invite'[i] # None /\ SameInvite(invite[i], invite'[i]),
         RequestOK(r)', EmailsUnique', NoOrphans', \A i \in Requests : InviteOK(i)'
  PROVE  IInv'
<1>1. ASSUME NEW q \in Requests \ {r} PROVE RequestOK(q)'
  <2>1. RequestOK(q)
    BY DEF IInv
  <2>2. LeftNothing(q)' <=> LeftNothing(q)
    BY DEF LeftNothing
  <2>3. ASSUME At(q, "accept", "insert") PROVE call[q].invite \in Requests
    BY <2>3 DEF At, IInv, TypeOK, CallRecord
  <2>4. At(q, "accept", "insert")' <=> At(q, "accept", "insert")
    BY DEF At
  <2> QED BY <2>1, <2>2, <2>3, <2>4 DEF RequestOK, SameInvite
<1> QED BY <1>1 DEF IInv

(* Steps that change no row.                                               *)
LEMMA NoRowKeeps ==
  ASSUME IInv, NoRow, NEW r \in Requests, TypeOK', RequestOK(r)',
         \A q \in Requests \ {r} : pc'[q] = pc[q] /\ call'[q] = call[q]
  PROVE  IInv'
<1>1. EmailsUnique' /\ NoOrphans'
  BY DEF NoRow, IInv, EmailsUnique, NoOrphans, Users
<1>2. \A i \in Requests : InviteOK(i)'
  BY DEF NoRow, IInv, InviteOK, JoinedBy, Users
<1>3. /\ \A q \in Requests \ {r} : /\ user'[q] = user[q]
                                   /\ q \in accounts' <=> q \in accounts
                                   /\ invite'[q] = None <=> invite[q] = None
      /\ accounts \subseteq accounts'
      /\ \A i \in Requests : invite[i] # None =>
           invite'[i] # None /\ SameInvite(invite[i], invite'[i])
  BY DEF NoRow, SameInvite
<1> QED BY <1>1, <1>2, <1>3, StepKeeps

(* A request that begins has been let in or refused, and has left nothing. *)
LEMMA BeginKeeps ==
  ASSUME IInv, NEW r \in Requests, NEW c \in CallRecord,
         NEW s \in {"insert", "check", "refused"}, Begin(r, s, c),
         c.op = "invite" => c.account \in accounts,
         s = "insert" /\ c.op = "accept" =>
           /\ invite[c.invite] # None /\ c.row # None
           /\ SameInvite(c.row, invite[c.invite])
  PROVE  IInv'
<1>1. TypeOK'
  BY DEF Begin, IInv, TypeOK, Steps, Answers
<1>2. pc'[r] = s /\ call'[r] = c
  BY DEF Begin, IInv, TypeOK
<1>3. LeftNothing(r)'
  BY DEF Begin, IInv, RequestOK, LeftNothing
<1>4. RequestOK(r)'
  BY <1>2, <1>3 DEF Begin, RequestOK, At
<1> QED BY <1>1, <1>4, NoRowKeeps DEF Begin, NoRow, IInv, TypeOK

(* A request that goes on without a row, or is over.                       *)
LEMMA GoKeeps ==
  ASSUME IInv, NEW r \in Requests, NEW s \in Steps \cup Answers, Go(r, s), NoRow,
         s \notin {"committed", "ok", "lost"} => LeftNothing(r),
         s \in {"committed", "ok"} => pc[r] = "committed",
         s \in {"check", "send", "commit"} => pc[r] \in {"check", "send", "commit"},
         s # "insert"
  PROVE  IInv'
<1>1. TypeOK'
  BY DEF Go, NoRow, IInv, TypeOK
<1>2. pc'[r] = s /\ call'[r] = call[r] /\ (LeftNothing(r)' <=> LeftNothing(r))
  BY DEF Go, NoRow, IInv, TypeOK, LeftNothing
<1>3. RequestOK(r)'
  BY <1>2 DEF NoRow, IInv, RequestOK, At
<1> QED BY <1>1, <1>3, NoRowKeeps DEF Go, IInv, TypeOK

(* Requests that read *)

(* The first statement of each request.                                    *)
LEMMA BeginningsKeep ==
  ASSUME IInv, NEW r \in Requests,
         \/ \E e \in Emails : RegisterChecksEmail(r, e)
         \/ \E u \in Users, e \in Emails, x \in Roles : InviteBegins(r, u, e, x)
         \/ \E i \in Requests : AcceptReadsInvite(r, i)
  PROVE  IInv'
<1>1. ASSUME NEW e \in Emails, RegisterChecksEmail(r, e) PROVE IInv'
  <2>1. PICK c \in CallRecord : c = [op |-> "register", email |-> e]
    BY DEF CallRecord
  <2>2. PICK s \in {"insert", "refused"} : s = IF EmailTaken(e) THEN "refused" ELSE "insert"
    OBVIOUS
  <2> QED BY <1>1, <2>1, <2>2, BeginKeeps DEF RegisterChecksEmail
<1>2. ASSUME NEW u \in Users, NEW e \in Emails, NEW x \in Roles, InviteBegins(r, u, e, x)
      PROVE  IInv'
  <2>1. user[u].account \in accounts /\ accounts \subseteq Names
    BY DEF IInv, TypeOK, NoOrphans
  <2>2. PICK c \in CallRecord :
          c = [op |-> "invite", email |-> e, role |-> x, account |-> user[u].account]
    BY <2>1 DEF CallRecord
  <2>3. PICK s \in {"check", "refused"} : s = IfAdmin(u, "check")
    BY DEF IfAdmin
  <2> QED BY <1>2, <2>1, <2>2, <2>3, BeginKeeps DEF InviteBegins
<1>3. ASSUME NEW i \in Requests, AcceptReadsInvite(r, i) PROVE IInv'
  <2>1. invite[i] \in InviteRow \cup {None}
    BY DEF IInv, TypeOK
  <2>2. PICK c \in CallRecord : c = [op |-> "accept", invite |-> i, row |-> invite[i]]
    BY <2>1 DEF CallRecord
  <2>3. PICK s \in {"insert", "refused"} :
          s = IF invite[i] = None \/ invite[i].accepted \/ invite[i].expired
              THEN "refused" ELSE "insert"
    OBVIOUS
  <2> QED BY <1>3, <2>2, <2>3, BeginKeeps DEF AcceptReadsInvite, SameInvite
<1> QED BY <1>1, <1>2, <1>3

(* The middle statements of create_invite, the answers and the crashes.    *)
LEMMA GoingOnKeeps ==
  ASSUME IInv, NEW r \in Requests,
         \/ InviteChecksEmail(r) \/ EmailReturns(r) \/ EmailFails(r)
         \/ Answer(r) \/ Fail(r)
  PROVE  IInv'
<1>1. pc[r] \notin {"committed", "ok", "lost"} => LeftNothing(r)
  BY DEF IInv, RequestOK
<1>2. CASE InviteChecksEmail(r)
  <2>1. PICK s \in {"refused", "send"} : Go(r, s) /\ NoRow
    BY <1>2 DEF InviteChecksEmail
  <2> QED BY <1>1, <1>2, <2>1, GoKeeps DEF InviteChecksEmail, At, Steps, Answers
<1>3. CASE EmailReturns(r)
  BY <1>1, <1>3, GoKeeps DEF EmailReturns, At, Steps, Answers
<1>4. CASE EmailFails(r)
  BY <1>1, <1>4, GoKeeps DEF EmailFails, At, Steps, Answers
<1>5. CASE Answer(r)
  BY <1>5, GoKeeps DEF Answer, Steps, Answers
<1>6. CASE Fail(r)
  BY <1>6, GoKeeps DEF Fail, Steps, Answers
<1> QED BY <1>2, <1>3, <1>4, <1>5, <1>6

(* Requests that write *)

(* A user joins the rows: no other user has the email.                     *)
LEMMA UserAdded ==
  ASSUME IInv, NEW r \in Requests, NEW n \in UserRow, user[r] = None,
         user' = [user EXCEPT ![r] = n], ~EmailTaken(n.email),
         accounts \subseteq accounts', accounts' \subseteq accounts \cup {r},
         r \in accounts' => n.account = r, n.account \in accounts'
  PROVE  /\ user' \in [Names -> UserRow \cup {None}] /\ user'[r] = n
         /\ Users' = Users \cup {r} /\ r \notin Users
         /\ \A m \in Users : user'[m] = user[m]
         /\ EmailsUnique' /\ NoOrphans'
<1>1. r \in Names /\ user \in [Names -> UserRow \cup {None}] /\ n # None
  BY NoneIsNoRow DEF Names, IInv, TypeOK
<1>2. Users' = Users \cup {r} /\ r \notin Users /\ user'[r] = n
      /\ \A m \in Users : user'[m] = user[m]
  BY <1>1 DEF Users
<1>3. EmailsUnique'
  BY <1>2 DEF IInv, EmailsUnique, EmailTaken
<1>4. NoOrphans'
  BY <1>2 DEF IInv, NoOrphans
<1> QED BY <1>1, <1>2, <1>3, <1>4

(* register                                                                *)
LEMMA RegisterKeeps ==
  ASSUME IInv, NEW r \in Requests, RegisterCommits(r)
  PROVE  IInv'
<1>1. pc[r] = "insert" /\ call[r].op = "register" /\ LeftNothing(r)
  BY DEF RegisterCommits, At, IInv, RequestOK
<1>2. CASE EmailTaken(call[r].email)
  BY <1>1, <1>2, GoKeeps DEF RegisterCommits, Steps, Answers
<1>3. CASE ~EmailTaken(call[r].email)
  <2>1. call[r].email \in Emails /\ r \in Names
    BY <1>1 DEF IInv, TypeOK, CallRecord, Names
  <2>2. PICK n \in UserRow : /\ n.email = call[r].email /\ n.account = r /\ n.via = None
                             /\ user' = [user EXCEPT ![r] = n]
    BY <1>3, <2>1, AdminIsRole DEF RegisterCommits, UserRow
  <2>3. accounts' = accounts \cup {r} /\ invite' = invite /\ Go(r, "committed")
    BY <1>3 DEF RegisterCommits
  <2>4. /\ user' \in [Names -> UserRow \cup {None}] /\ user'[r] = n /\ n # None
        /\ Users' = Users \cup {r} /\ r \notin Users
        /\ \A m \in Users : user'[m] = user[m]
        /\ EmailsUnique' /\ NoOrphans'
    BY <1>1, <1>3, <2>2, <2>3, UserAdded, NoneIsNoRow DEF LeftNothing
  <2>5. TypeOK'
    BY <2>1, <2>3, <2>4 DEF Go, IInv, TypeOK, Steps
  <2>6. \A i \in Requests : JoinedBy(i)' = JoinedBy(i)
    BY <2>2, <2>4, NamesAreDistinct DEF JoinedBy
  <2>7. \A i \in Requests : InviteOK(i)'
    BY <2>3, <2>4, <2>6 DEF IInv, InviteOK, JoinedBy
  <2>8. pc'[r] = "committed" /\ call'[r] = call[r]
        /\ \A q \in Requests \ {r} : pc'[q] = pc[q] /\ call'[q] = call[q] /\ user'[q] = user[q]
    BY <2>2, <2>3 DEF Go, IInv, TypeOK, Names
  <2>9. RequestOK(r)'
    BY <1>1, <2>4, <2>8 DEF RequestOK, At
  <2>10. \A i \in Requests : SameInvite(invite[i], invite'[i])
    BY <2>3 DEF SameInvite
  <2> QED BY <2>3, <2>4, <2>5, <2>7, <2>8, <2>9, <2>10, StepKeeps
<1> QED BY <1>2, <1>3

(* accept_invite: nobody has joined by the invite, or its email would be   *)
(* taken.                                                                  *)
LEMMA AcceptKeeps ==
  ASSUME IInv, NEW r \in Requests, AcceptCommits(r)
  PROVE  IInv'
<1>1. pc[r] = "insert" /\ call[r].op = "accept" /\ LeftNothing(r)
  BY DEF AcceptCommits, At, IInv, RequestOK
<1>2. CASE EmailTaken(call[r].row.email)
  BY <1>1, <1>2, GoKeeps DEF AcceptCommits, Steps, Answers
<1>3. CASE ~EmailTaken(call[r].row.email)
  <2>1. PICK i \in Requests : i = call[r].invite
    BY <1>1 DEF IInv, TypeOK, CallRecord
  <2>2. /\ invite[i] \in InviteRow /\ call[r].row \in InviteRow
        /\ SameInvite(call[r].row, invite[i])
    <3>1. invite[i] # None /\ call[r].row # None /\ SameInvite(call[r].row, invite[i])
      BY <1>1, <2>1 DEF IInv, RequestOK, At
    <3>2. call[r].row \in InviteRow \cup {None}
      BY <1>1 DEF IInv, TypeOK, CallRecord
    <3> QED BY <3>1, <3>2 DEF IInv, TypeOK
  <2>3. PICK n \in UserRow : /\ n.email = invite[i].email /\ n.account = invite[i].account
                             /\ n.role = invite[i].role /\ n.via = i
                             /\ user' = [user EXCEPT ![r] = n]
    BY <1>3, <2>1, <2>2 DEF AcceptCommits, Joiner, UserRow, InviteRow, SameInvite
  <2>4. PICK v \in InviteRow : /\ SameInvite(invite[i], v) /\ v.accepted
                               /\ invite' = [invite EXCEPT ![i] = v]
    BY <1>3, <2>1, <2>2 DEF AcceptCommits, SameInvite, InviteRow
  <2>5. accounts' = accounts /\ Go(r, "committed")
    BY <1>3 DEF AcceptCommits
  <2>6. /\ user' \in [Names -> UserRow \cup {None}] /\ user'[r] = n /\ n # None
        /\ Users' = Users \cup {r} /\ r \notin Users
        /\ \A m \in Users : user'[m] = user[m]
        /\ EmailsUnique' /\ NoOrphans'
    <3>1. invite[i].account \in accounts
      BY <2>2, NoneIsNoRow DEF IInv, InviteOK
    <3>2. ~EmailTaken(n.email)
      BY <1>3, <2>2, <2>3 DEF SameInvite
    <3> QED BY <1>1, <2>3, <2>5, <3>1, <3>2, UserAdded, NoneIsNoRow DEF LeftNothing
  <2>7. invite'[i] = v /\ v # None /\ \A j \in Requests \ {i} : invite'[j] = invite[j]
    BY <2>4, NoneIsNoRow DEF IInv, TypeOK
  <2>8. TypeOK'
    BY <2>4, <2>5, <2>6 DEF Go, IInv, TypeOK, Steps
  <2>9. /\ JoinedBy(i)' = JoinedBy(i) \cup {r}
        /\ \A j \in Requests \ {i} : JoinedBy(j)' = JoinedBy(j)
    BY <2>3, <2>6 DEF JoinedBy
  <2>10. ASSUME NEW j \in Requests PROVE InviteOK(j)'
    <3>1. InviteOK(j)
      BY DEF IInv
    <3>2. CASE j # i
      BY <2>5, <2>6, <2>7, <2>9, <3>1, <3>2 DEF InviteOK, JoinedBy
    <3>3. CASE j = i
      <4>1. \A m \in JoinedBy(i)' : SameInvite(user'[m], v)
        BY <2>2, <2>3, <2>4, <2>6, <2>9, <3>1, <3>3, NoneIsNoRow
           DEF InviteOK, SameInvite, JoinedBy
      <4>2. v.account \in accounts'
        BY <2>2, <2>4, <2>5, <3>1, <3>3, NoneIsNoRow DEF InviteOK, SameInvite
      <4> QED BY <2>4, <2>7, <2>9, <3>3, <4>1, <4>2 DEF InviteOK
    <3> QED BY <3>2, <3>3
  <2>11. pc'[r] = "committed" /\ call'[r] = call[r]
         /\ \A q \in Requests \ {r} : pc'[q] = pc[q] /\ call'[q] = call[q] /\ user'[q] = user[q]
    BY <2>3, <2>5 DEF Go, IInv, TypeOK, Names
  <2>12. RequestOK(r)'
    BY <1>1, <2>6, <2>11 DEF RequestOK, At
  <2>13. \A j \in Requests : /\ invite[j] # None => invite'[j] # None /\ SameInvite(invite[j], invite'[j])
                             /\ invite'[j] = None <=> invite[j] = None
    BY <2>2, <2>4, <2>7, NoneIsNoRow DEF SameInvite
  <2> QED BY <2>5, <2>6, <2>8, <2>10, <2>11, <2>12, <2>13, StepKeeps
<1> QED BY <1>2, <1>3

(* The commit of create_invite.                                            *)
LEMMA InviteKeeps ==
  ASSUME IInv, NEW r \in Requests, InviteCommits(r)
  PROVE  IInv'
<1>1. pc[r] = "commit" /\ call[r].op = "invite" /\ LeftNothing(r) /\ call[r].account \in accounts
  BY DEF InviteCommits, At, IInv, RequestOK
<1>2. PICK v \in InviteRow : /\ v.account = call[r].account /\ ~v.accepted
                             /\ invite' = [invite EXCEPT ![r] = v]
  <2>1. call[r].email \in Emails /\ call[r].role \in Roles /\ call[r].account \in Names
    BY <1>1 DEF IInv, TypeOK, CallRecord
  <2> QED BY <2>1 DEF InviteCommits, InviteRow
<1>3. Go(r, "committed") /\ user' = user /\ accounts' = accounts
  BY DEF InviteCommits
<1>4. invite'[r] = v /\ v # None /\ \A j \in Requests \ {r} : invite'[j] = invite[j]
  BY <1>2, NoneIsNoRow DEF IInv, TypeOK
<1>5. TypeOK'
  BY <1>2, <1>3 DEF Go, IInv, TypeOK, Steps
<1>6. EmailsUnique' /\ NoOrphans' /\ \A j \in Requests : JoinedBy(j)' = JoinedBy(j)
  BY <1>3 DEF IInv, EmailsUnique, NoOrphans, Users, JoinedBy
<1>7. JoinedBy(r) = {}
  BY <1>1 DEF LeftNothing, IInv, InviteOK
<1>8. ASSUME NEW j \in Requests PROVE InviteOK(j)'
  BY <1>1, <1>2, <1>3, <1>4, <1>6, <1>7 DEF IInv, InviteOK, JoinedBy
<1>9. pc'[r] = "committed" /\ call'[r] = call[r]
      /\ \A q \in Requests \ {r} : pc'[q] = pc[q] /\ call'[q] = call[q]
  BY <1>3 DEF Go, IInv, TypeOK
<1>10. RequestOK(r)'
  BY <1>1, <1>4, <1>9 DEF RequestOK, At
<1>11. \A j \in Requests : invite[j] # None =>
         invite'[j] # None /\ SameInvite(invite[j], invite'[j])
  BY <1>1, <1>4 DEF LeftNothing, SameInvite
<1> QED BY <1>3, <1>4, <1>5, <1>6, <1>8, <1>9, <1>10, <1>11, StepKeeps

(* INVITE_TTL_DAYS pass for one invite.                                    *)
LEMMA ExpireKeeps ==
  ASSUME IInv, NEW i \in Requests, Expire(i)
  PROVE  IInv'
<1>1. invite[i] \in InviteRow /\ UNCHANGED <<user, accounts, pc, call>>
  BY DEF Expire, IInv, TypeOK
<1>2. PICK v \in InviteRow : /\ SameInvite(invite[i], v) /\ v.accepted = invite[i].accepted
                             /\ invite' = [invite EXCEPT ![i] = v]
  BY <1>1 DEF Expire, InviteRow, SameInvite
<1>3. invite'[i] = v /\ v # None /\ invite[i] # None
      /\ \A j \in Requests \ {i} : invite'[j] = invite[j]
  BY <1>1, <1>2, NoneIsNoRow DEF IInv, TypeOK
<1>4. TypeOK'
  BY <1>1, <1>2 DEF IInv, TypeOK
<1>5. EmailsUnique' /\ NoOrphans' /\ \A j \in Requests : JoinedBy(j)' = JoinedBy(j)
  BY <1>1 DEF IInv, EmailsUnique, NoOrphans, Users, JoinedBy
<1>6. ASSUME NEW j \in Requests PROVE InviteOK(j)'
  <2>1. InviteOK(j)
    BY DEF IInv
  <2> QED BY <1>1, <1>2, <1>3, <1>5, <2>1 DEF InviteOK, SameInvite
<1>7. \A j \in Requests : /\ invite[j] # None => invite'[j] # None /\ SameInvite(invite[j], invite'[j])
                          /\ invite'[j] = None <=> invite[j] = None
  BY <1>2, <1>3 DEF SameInvite
<1>8. RequestOK(i)'
  <2>1. RequestOK(i) /\ (At(i, "accept", "insert") => call[i].invite \in Requests)
    BY DEF IInv, TypeOK, CallRecord, At
  <2> QED BY <1>1, <1>7, <2>1 DEF RequestOK, At, LeftNothing, SameInvite
<1> QED BY <1>1, <1>4, <1>5, <1>6, <1>7, <1>8, StepKeeps

(* Every step keeps the invariant: one case per action.                    *)
LEMMA NextInv == IInv /\ [Next]_vars => IInv'
<1> SUFFICES ASSUME IInv, [Next]_vars PROVE IInv'
  OBVIOUS
<1>1. ASSUME UNCHANGED vars PROVE IInv'
  <2>1. TypeOK' /\ EmailsUnique' /\ NoOrphans'
    BY <1>1 DEF vars, IInv, TypeOK, EmailsUnique, NoOrphans, Users
  <2>2. ASSUME NEW i \in Requests PROVE InviteOK(i)' /\ RequestOK(i)'
    BY <1>1 DEF vars, IInv, InviteOK, RequestOK, JoinedBy, Users, LeftNothing, At
  <2> QED BY <2>1, <2>2 DEF IInv
<1>2. ASSUME NEW r \in Requests, RequestStep(r) PROVE IInv'
  BY <1>2, BeginningsKeep, GoingOnKeeps, RegisterKeeps, InviteKeeps, AcceptKeeps DEF RequestStep
<1>3. ASSUME NEW i \in Requests, Expire(i) PROVE IInv'
  BY <1>3, ExpireKeeps
<1> QED BY <1>1, <1>2, <1>3 DEF Next, Quiescent

(* The invariant holds in every reachable state, for any number of         *)
(* requests, founders, emails and roles.                                   *)
THEOREM Invariance == Spec => []IInv
BY InitInv, NextInv, PTL DEF Spec

(* Every variable keeps to its type.                                       *)
THEOREM TypeCorrect == Spec => []TypeOK
<1>1. IInv => TypeOK
  BY DEF IInv
<1> QED BY <1>1, Invariance, PTL

(* No account without its founder, no user without an account.             *)
THEOREM AccountsComplete == Spec => []NoOrphans
<1>1. IInv => NoOrphans
  BY DEF IInv
<1> QED BY <1>1, Invariance, PTL

(* However many accepts race, an invite lets in one user, the invited one. *)
THEOREM InvitesSafe == Spec => []OneUserPerInvite
<1>1. ASSUME IInv, NEW i \in Requests, invite[i] # None
      PROVE  /\ Cardinality(JoinedBy(i)) = (IF invite[i].accepted THEN 1 ELSE 0)
             /\ \A n \in JoinedBy(i) : /\ user[n].email = invite[i].email
                                       /\ user[n].account = invite[i].account
                                       /\ user[n].role = invite[i].role
  <2>1. InviteOK(i) /\ EmailsUnique
    BY <1>1 DEF IInv
  <2>2. \A n \in JoinedBy(i) : SameInvite(user[n], invite[i])
    BY <1>1, <2>1 DEF InviteOK
  <2>3. CASE invite[i].accepted
    <3>1. PICK n \in JoinedBy(i) : TRUE
      BY <1>1, <2>1, <2>3 DEF InviteOK
    <3>2. \A m \in JoinedBy(i) : m = n
      BY <2>1, <2>2 DEF EmailsUnique, SameInvite, JoinedBy
    <3>3. JoinedBy(i) = {n}
      BY <3>1, <3>2
    <3> QED BY <2>2, <2>3, <3>3, FS_Singleton DEF SameInvite
  <2>4. CASE ~invite[i].accepted
    <3>1. JoinedBy(i) = {}
      BY <1>1, <2>1, <2>4 DEF InviteOK
    <3> QED BY <2>4, <3>1, FS_EmptySet
  <2> QED BY <2>3, <2>4
<1>2. IInv => OneUserPerInvite
  BY <1>1 DEF OneUserPerInvite
<1> QED BY <1>2, Invariance, PTL

(* A success has left its rows behind, a refusal and an error nothing.     *)
THEOREM AnswersTrue == Spec => []AnswersKept
<1>1. IInv => AnswersKept
  BY DEF IInv, RequestOK, AnswersKept
<1> QED BY <1>1, Invariance, PTL

---------------------------------------------------------------------------
(* The refinement of Membership *)

(* What the places of a request mean to its client, and that both          *)
(* specifications look for emails in the same users.                       *)
LEMMA PromiseTerms ==
  /\ Outcome["idle"] = "none" /\ Outcome["insert"] = "pending" /\ Outcome["check"] = "asked"
  /\ Outcome["send"] = "pending" /\ Outcome["commit"] = "pending"
  /\ Outcome["committed"] = "done" /\ Outcome["ok"] = "ok" /\ Outcome["refused"] = "refused"
  /\ Outcome["error"] = "error" /\ Outcome["lost"] = "lost"
  /\ Promise!Members = Users /\ \A e : Promise!Taken(e) <=> EmailTaken(e)
BY DEF Outcome, Promise!Members, Promise!Names, Promise!Taken, Users, Names, EmailTaken

(* A request that moves on moves its mapped place and nothing else.        *)
LEMMA PromiseGo ==
  ASSUME IInv, NEW r \in Requests, NEW s \in Steps \cup Answers, Go(r, s)
  PROVE  Promise!Ends(r, Outcome[s])
<1> DEFINE outcomes == [q \in Requests |-> Outcome[pc[q]]]
<1>1. outcomes' = [outcomes EXCEPT ![r] = Outcome[s]]
  BY DEF Go, IInv, TypeOK
<1>2. [q \in Requests |-> Asked(call[q])]' = [q \in Requests |-> Asked(call[q])]
  BY DEF Go, Asked
<1> QED BY <1>1, <1>2 DEF Promise!Ends

(* A request that begins tells what it asks for.                           *)
LEMMA PromiseBegin ==
  ASSUME IInv, NEW r \in Requests, NEW s \in {"insert", "check", "refused"},
         NEW c \in CallRecord, Begin(r, s, c)
  PROVE  Promise!Ask(r, Asked(c), Outcome[s])
<1> DEFINE outcomes == [q \in Requests |-> Outcome[pc[q]]]
<1> DEFINE asked == [q \in Requests |-> Asked(call[q])]
<1>1. outcomes[r] = "none" /\ outcomes' = [outcomes EXCEPT ![r] = Outcome[s]]
  BY PromiseTerms DEF Begin, IInv, TypeOK
<1>2. asked' = [asked EXCEPT ![r] = Asked(c)]
  BY DEF Begin, IInv, TypeOK, Asked
<1> QED BY <1>1, <1>2 DEF Begin, Promise!Ask, Promise!rows

(* The first statement of each request asks.                               *)
LEMMA PromiseAsks ==
  ASSUME IInv, NEW r \in Requests,
         \/ \E e \in Emails : RegisterChecksEmail(r, e)
         \/ \E u \in Users, e \in Emails, x \in Roles : InviteBegins(r, u, e, x)
         \/ \E i \in Requests : AcceptReadsInvite(r, i)
  PROVE  Promise!Next
<1>1. ASSUME NEW e \in Emails, RegisterChecksEmail(r, e) PROVE Promise!AskToRegister(r, e)
  <2>1. PICK c \in CallRecord : c = [op |-> "register", email |-> e]
    BY DEF CallRecord
  <2>2. PICK s \in {"insert", "refused"} : s = IF EmailTaken(e) THEN "refused" ELSE "insert"
    OBVIOUS
  <2>3. Promise!Ask(r, Asked(c), Outcome[s])
    BY <1>1, <2>1, <2>2, PromiseBegin DEF RegisterChecksEmail
  <2>4. Asked(c) = [op |-> "register", email |-> e]
    BY <2>1 DEF Asked
  <2>5. Outcome[s] = IF Promise!Taken(e) THEN "refused" ELSE "pending"
    BY <2>2, PromiseTerms
  <2> QED BY <2>3, <2>4, <2>5 DEF Promise!AskToRegister, Promise!Ask
<1>2. ASSUME NEW u \in Users, NEW e \in Emails, NEW x \in Roles, InviteBegins(r, u, e, x)
      PROVE  Promise!AskToInvite(r, u, e, x)
  <2>1. user[u].account \in Names
    BY DEF IInv, TypeOK, NoOrphans
  <2>2. PICK c \in CallRecord :
          c = [op |-> "invite", email |-> e, role |-> x, account |-> user[u].account]
    BY <2>1 DEF CallRecord
  <2>3. PICK s \in {"check", "refused"} : s = IfAdmin(u, "check")
    BY DEF IfAdmin
  <2>4. Promise!Ask(r, Asked(c), Outcome[s])
    BY <1>2, <2>2, <2>3, PromiseBegin DEF InviteBegins
  <2>5. Asked(c) = [op |-> "invite", email |-> e, role |-> x, account |-> user[u].account]
    BY <2>2 DEF Asked
  <2>6. Outcome[s] = IF user[u].role = Admin THEN "asked" ELSE "refused"
    BY <2>3, PromiseTerms DEF IfAdmin
  <2> QED BY <2>4, <2>5, <2>6 DEF Promise!AskToInvite, Promise!Ask
<1>3. ASSUME NEW i \in Requests, AcceptReadsInvite(r, i) PROVE Promise!AskToAccept(r, i)
  <2>1. invite[i] \in InviteRow \cup {None}
    BY DEF IInv, TypeOK
  <2>2. PICK c \in CallRecord : c = [op |-> "accept", invite |-> i, row |-> invite[i]]
    BY <2>1 DEF CallRecord
  <2>3. PICK s \in {"insert", "refused"} :
          s = IF invite[i] = None \/ invite[i].accepted \/ invite[i].expired
              THEN "refused" ELSE "insert"
    OBVIOUS
  <2>4. Promise!Ask(r, Asked(c), Outcome[s])
    BY <1>3, <2>2, <2>3, PromiseBegin DEF AcceptReadsInvite
  <2>5. Asked(c) = [op |-> "accept", invite |-> i]
    BY <2>2 DEF Asked
  <2>6. Outcome[s] = IF Promise!Open(i) THEN "pending" ELSE "refused"
    BY <2>3, PromiseTerms DEF Promise!Open
  <2> QED BY <2>4, <2>5, <2>6 DEF Promise!AskToAccept, Promise!Ask
<1> QED BY <1>1, <1>2, <1>3, PromiseTerms DEF Promise!Next

(* Steps that change no row: a check, an answer, a failure.                *)
LEMMA PromiseGoesOn ==
  ASSUME IInv, NEW r \in Requests,
         \/ InviteChecksEmail(r) \/ EmailReturns(r) \/ EmailFails(r)
         \/ Answer(r) \/ Fail(r)
  PROVE  [Promise!Next]_Promise!vars
<1> DEFINE outcomes == [q \in Requests |-> Outcome[pc[q]]]
<1> DEFINE asked == [q \in Requests |-> Asked(call[q])]
<1>1. /\ outcomes[r] = Outcome[pc[r]]
      /\ call[r].op # "accept" => asked[r] = call[r]
  BY DEF Asked
<1>2. ASSUME NEW s \in Steps \cup Answers, Go(r, s) PROVE Promise!Ends(r, Outcome[s])
  BY <1>2, PromiseGo
<1>3. NoRow => UNCHANGED Promise!rows
  BY DEF NoRow, Promise!rows
<1> HIDE DEF outcomes, asked
<1>4. CASE InviteChecksEmail(r)
  <2>1. /\ pc[r] = "check" /\ call[r].op = "invite" /\ NoRow
        /\ Go(r, IF EmailTaken(call[r].email) THEN "refused" ELSE "send")
    BY <1>4 DEF InviteChecksEmail, At
  <2>2. CASE EmailTaken(call[r].email)
    <3>1. Promise!Ends(r, "refused")
      BY <1>2, <2>1, <2>2, PromiseTerms DEF Answers
    <3>2. Promise!Refuse(r)
      BY <1>1, <1>3, <2>1, <2>2, <3>1, PromiseTerms DEF Promise!Refuse, outcomes, asked
    <3> QED BY <3>2 DEF Promise!Next
  <2>3. CASE ~EmailTaken(call[r].email)
    <3>1. Promise!Ends(r, "pending")
      BY <1>2, <2>1, <2>3, PromiseTerms DEF Steps
    <3>2. Promise!Vet(r)
      BY <1>1, <1>3, <2>1, <2>3, <3>1, PromiseTerms DEF Promise!Vet, outcomes, asked
    <3> QED BY <3>2 DEF Promise!Next
  <2> QED BY <2>2, <2>3
<1>5. CASE EmailReturns(r)
  <2>1. pc[r] = "send" /\ Go(r, "commit") /\ NoRow
    BY <1>5 DEF EmailReturns, At
  <2>2. outcomes' = outcomes
    BY <2>1, PromiseTerms DEF Go, IInv, TypeOK, outcomes
  <2>3. asked' = asked
    BY <2>1 DEF Go, asked, Asked
  <2> QED BY <2>1, <2>2, <2>3 DEF NoRow, Promise!vars, outcomes, asked
<1>6. CASE EmailFails(r)
  <2>1. pc[r] = "send" /\ call[r].op = "invite" /\ Go(r, "error") /\ NoRow
    BY <1>6 DEF EmailFails, At
  <2>2. Promise!Ends(r, "error")
    BY <1>2, <2>1, PromiseTerms DEF Answers
  <2>3. Promise!MailFails(r)
    BY <1>1, <1>3, <2>1, <2>2, PromiseTerms DEF Promise!MailFails, outcomes, asked
  <2> QED BY <2>3 DEF Promise!Next
<1>7. CASE Answer(r)
  <2>1. Promise!Ends(r, "ok")
    BY <1>2, <1>7, PromiseTerms DEF Answer, Answers
  <2>2. Promise!Confirm(r)
    BY <1>1, <1>3, <1>7, <2>1, PromiseTerms DEF Answer, Promise!Confirm, outcomes
  <2> QED BY <2>2 DEF Promise!Next
<1>8. CASE Fail(r)
  <2>1. Promise!Ends(r, "lost")
    BY <1>2, <1>8, PromiseTerms DEF Fail, Answers
  <2>2. Promise!Lose(r)
    BY <1>1, <1>3, <1>8, <2>1, PromiseTerms DEF Fail, Steps, Promise!Lose, outcomes
  <2> QED BY <2>2 DEF Promise!Next
<1> QED BY <1>4, <1>5, <1>6, <1>7, <1>8

(* The commit of a registration, or its IntegrityError.                    *)
LEMMA PromiseRegister ==
  ASSUME IInv, NEW r \in Requests, RegisterCommits(r)
  PROVE  Promise!Next
<1> DEFINE outcomes == [q \in Requests |-> Outcome[pc[q]]]
<1> DEFINE asked == [q \in Requests |-> Asked(call[q])]
<1>1. pc[r] = "insert" /\ call[r].op = "register"
  BY DEF RegisterCommits, At
<1>2. outcomes[r] = "pending" /\ asked[r] = call[r]
  BY <1>1, PromiseTerms DEF Asked
<1>3. ASSUME NEW s \in Steps \cup Answers, Go(r, s) PROVE Promise!Ends(r, Outcome[s])
  BY <1>3, PromiseGo
<1> HIDE DEF outcomes, asked
<1>4. CASE EmailTaken(call[r].email)
  <2>1. Promise!Ends(r, "refused") /\ NoRow
    BY <1>3, <1>4, PromiseTerms DEF RegisterCommits, Answers
  <2>2. Promise!Refuse(r)
    BY <1>1, <1>2, <1>4, <2>1, PromiseTerms
       DEF NoRow, Promise!Refuse, Promise!rows, outcomes, asked
  <2> QED BY <2>2 DEF Promise!Next
<1>5. CASE ~EmailTaken(call[r].email)
  <2>1. Promise!Ends(r, "done")
    BY <1>3, <1>5, PromiseTerms DEF RegisterCommits, Steps
  <2>2. Promise!Register(r)
    BY <1>1, <1>2, <1>5, <2>1, PromiseTerms DEF RegisterCommits, Promise!Register, outcomes, asked
  <2> QED BY <2>2 DEF Promise!Next
<1> QED BY <1>4, <1>5

(* The commit of create_invite.                                            *)
LEMMA PromiseInvite ==
  ASSUME IInv, NEW r \in Requests, InviteCommits(r)
  PROVE  Promise!Next
<1> DEFINE outcomes == [q \in Requests |-> Outcome[pc[q]]]
<1> DEFINE asked == [q \in Requests |-> Asked(call[q])]
<1>1. pc[r] = "commit" /\ call[r].op = "invite" /\ invite[r] = None
  BY DEF InviteCommits, At, IInv, RequestOK, LeftNothing
<1>2. outcomes[r] = "pending" /\ asked[r] = call[r]
  BY <1>1, PromiseTerms DEF Asked
<1>3. Promise!Ends(r, "done")
  BY PromiseGo, PromiseTerms DEF InviteCommits, Steps
<1> HIDE DEF outcomes, asked
<1>4. Promise!Invite(r)
  BY <1>1, <1>2, <1>3 DEF InviteCommits, Promise!Invite, outcomes, asked
<1> QED BY <1>4 DEF Promise!Next

(* accept_invite looks only for the email when it commits: an invite that  *)
(* was accepted meanwhile has its email taken by whoever joined.           *)
LEMMA PromiseAccept ==
  ASSUME IInv, NEW r \in Requests, AcceptCommits(r)
  PROVE  Promise!Next
<1> DEFINE outcomes == [q \in Requests |-> Outcome[pc[q]]]
<1> DEFINE asked == [q \in Requests |-> Asked(call[q])]
<1>1. pc[r] = "insert" /\ call[r].op = "accept"
  BY DEF AcceptCommits, At
<1>2. PICK i \in Requests : i = call[r].invite
  BY <1>1 DEF IInv, TypeOK, CallRecord
<1>3. invite[i] # None /\ SameInvite(call[r].row, invite[i])
  BY <1>1, <1>2 DEF IInv, RequestOK, At
<1>4. outcomes[r] = "pending" /\ asked[r].op = "accept" /\ asked[r].invite = i
  BY <1>1, <1>2, PromiseTerms DEF Asked
<1>5. ASSUME NEW s \in Steps \cup Answers, Go(r, s) PROVE Promise!Ends(r, Outcome[s])
  BY <1>5, PromiseGo
<1> HIDE DEF outcomes, asked
<1>6. CASE EmailTaken(call[r].row.email)
  <2>1. Promise!Ends(r, "refused") /\ NoRow
    BY <1>5, <1>6, PromiseTerms DEF AcceptCommits, Answers
  <2>2. Promise!Taken(invite[i].email)
    BY <1>3, <1>6, PromiseTerms DEF SameInvite
  <2>3. Promise!Refuse(r)
    BY <1>4, <2>1, <2>2 DEF NoRow, Promise!Refuse, Promise!rows, outcomes, asked
  <2> QED BY <2>3 DEF Promise!Next
<1>7. CASE ~EmailTaken(call[r].row.email)
  <2>1. Promise!Ends(r, "done")
    BY <1>5, <1>7, PromiseTerms DEF AcceptCommits, Steps
  <2>2. ~Promise!Taken(invite[i].email)
    BY <1>3, <1>7, PromiseTerms DEF SameInvite
  <2>3. ~invite[i].accepted
    <3>1. SUFFICES ASSUME invite[i].accepted PROVE FALSE
      OBVIOUS
    <3>2. PICK n \in JoinedBy(i) : SameInvite(user[n], invite[i])
      BY <1>3, <3>1 DEF IInv, InviteOK
    <3> QED BY <2>2, <3>2, PromiseTerms DEF EmailTaken, JoinedBy, SameInvite
  <2>4. /\ user' = [user EXCEPT ![r] = [email |-> invite[i].email, account |-> invite[i].account,
                                        role |-> invite[i].role, via |-> i]]
        /\ invite' = [invite EXCEPT ![i].accepted = TRUE] /\ accounts' = accounts
    BY <1>2, <1>3, <1>7 DEF AcceptCommits, Joiner, SameInvite
  <2>5. Promise!Accept(r)
    BY <1>3, <1>4, <2>1, <2>2, <2>3, <2>4 DEF Promise!Accept, outcomes, asked
  <2> QED BY <2>5 DEF Promise!Next
<1> QED BY <1>6, <1>7

(* However registrations, invites and accepts interleave, fail or race for *)
(* one email, what a client sees is a run of Membership (auth.py:48-187).  *)
THEOREM ImplementsPromise == Spec => PromiseSpec
<1>1. Init => Promise!Init
  BY PromiseTerms DEF Init, Promise!Init, Promise!Names, Names, Asked
<1>2. ASSUME IInv, [Next]_vars PROVE [Promise!Next]_Promise!vars
  <2>1. CASE UNCHANGED vars
    BY <2>1 DEF vars, Promise!vars, Asked
  <2>2. ASSUME NEW r \in Requests, RequestStep(r) PROVE [Promise!Next]_Promise!vars
    BY <1>2, <2>2, PromiseAsks, PromiseGoesOn, PromiseRegister, PromiseInvite, PromiseAccept
       DEF RequestStep
  <2>3. ASSUME NEW i \in Requests, Expire(i) PROVE Promise!Next
    <3>1. Promise!Expire(i)
      BY <2>3 DEF Expire, Promise!Expire, Asked
    <3> QED BY <3>1 DEF Promise!Next
  <2> QED BY <1>2, <2>1, <2>2, <2>3 DEF Next, Quiescent
<1> QED BY <1>1, <1>2, Invariance, PTL DEF Spec, PromiseSpec, Promise!Spec
=============================================================================
