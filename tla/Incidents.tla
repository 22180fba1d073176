------------------------------ MODULE Incidents ------------------------------
(***************************************************************************)
(* The requests that change an incident: PATCH, resolve, create and clear  *)
(* mitigation, interleaved at their database statements. Each request has  *)
(* a session of its own on PostgreSQL at READ COMMITTED: a SELECT sees the *)
(* committed rows, an UPDATE locks the row until commit or rollback, and   *)
(* get_db closes (rolls back) a session that did not commit.               *)
(*                                                                         *)
(* The rows of IncidentLedger are the committed ones. What a transaction   *)
(* has written but not committed is told by where its request stands:      *)
(*   - at "held" it has updated the incident row, and locks it;            *)
(*   - a create_mitigation at "update" or "held" has inserted its row.     *)
(***************************************************************************)
EXTENDS IncidentLedger

CONSTANT ClientVersions   \* values a client may send as IncidentUpdate.version

ASSUME VersionsAreIntegers == ClientVersions \subseteq Int

VARIABLES pc,            \* pc[r]: the next statement of request r, or its answer
          op,            \* op[r]: the endpoint called
          target,        \* target[r]: the incident named in the path
          seenVersion,   \* seenVersion[r]: the version its UPDATE will expect
          seenMitigation \* seenMitigation[r]: the row a clear will delete

local == <<op, target, seenVersion, seenMitigation>>
vars == <<status, version, mitigation, audit, pc, op, target, seenVersion, seenMitigation>>

Ops == {"none", "patch", "resolve", "mitigate", "clear"}
Answers == {"ok",       \* 2xx
            "refused",  \* 4xx raised by the handler
            "error",    \* 500 after the commit: db.refresh found no row
            "lost"}     \* crash, lost connection or uncaught error: no promise
Steps == {"readIncident", "readMitigation", "insert", "update", "held",
          "delete", "committed"}

Init == /\ RowsInit
        /\ pc = [r \in Requests |-> "idle"]
        /\ op = [r \in Requests |-> "none"]
        /\ target = [r \in Requests |-> None]
        /\ seenVersion = [r \in Requests |-> 0]
        /\ seenMitigation = [r \in Requests |-> None]

---------------------------------------------------------------------------
(* Helpers *)

Go(r, step) == pc' = [pc EXCEPT ![r] = step]

\* Request r arrives for incident i, and its first statement leads to step.
Begin(r, o, i, step) ==
  /\ pc[r] = "idle"
  /\ Go(r, step)
  /\ op' = [op EXCEPT ![r] = o]
  /\ target' = [target EXCEPT ![r] = i]

InsertAwaited(i) ==   \* mutant: those that only want to insert count as well
  \E q \in Requests :
    op[q] = "mitigate" /\ target[q] = i /\ pc[q] \in {"insert", "update", "held"}

\* Another open transaction has inserted a mitigation row for i.
InsertPending(i) ==
  \E q \in Requests : op[q] = "mitigate" /\ target[q] = i /\ pc[q] \in {"update", "held"}
RowLocked(i) == \E q \in Requests : target[q] = i /\ pc[q] = "held"

\* The commit of r's update: the status it set, its mitigation row, its entry.
CommitHeld(r, s, m, action, entity) ==
  LET i == target[r] IN
  /\ pc[r] = "held"
  /\ Write(i, s, version[i] + 1, m, action, r, entity)
  /\ Go(r, "committed")
  /\ UNCHANGED local

---------------------------------------------------------------------------
(* POST /incidents/. Nobody can name the row before it is committed, so    *)
(* the whole handler is one step.                                          *)
CreateIncident(i) ==
  /\ status[i] = "absent"
  /\ Write(i, "open", 1, None, "INCIDENT_CREATED", i, i)
  /\ UNCHANGED <<pc, local>>

---------------------------------------------------------------------------
(* apply_optimistic_update: UPDATE ... WHERE version = expected. Waits for *)
(* a transaction that holds the row, then looks at the row again.          *)
UpdateWinsBlind(r) ==   \* mutant: no version in the WHERE clause
  /\ pc[r] = "update" /\ status[target[r]] # "absent"
  /\ ~RowLocked(target[r])
  /\ Go(r, "held")
  /\ UNCHANGED <<rows, local>>

UpdateWins(r) ==
  LET i == target[r] IN
  /\ pc[r] = "update"
  /\ status[i] # "absent" /\ version[i] = seenVersion[r]
  /\ ~RowLocked(i)
  /\ Go(r, "held")
  /\ UNCHANGED <<rows, local>>

UpdateRetries(r) ==   \* mutant: tries again instead of answering 409
  /\ pc[r] = "update"
  /\ status[target[r]] = "absent" \/ version[target[r]] # seenVersion[r]
  /\ UNCHANGED vars

UpdateGivesUp(r) ==   \* mutant: a row that is locked is a conflict already
  /\ pc[r] = "update"
  /\ Go(r, "refused")
  /\ UNCHANGED <<rows, local>>

UpdateLoses(r) ==   \* 404 or 409, and get_db rolls everything back
  LET i == target[r] IN
  /\ pc[r] = "update"
  /\ status[i] = "absent" \/ version[i] # seenVersion[r]
  /\ Go(r, "refused")
  /\ UNCHANGED <<rows, local>>

---------------------------------------------------------------------------
(* PATCH /incidents/{id}. A body refused by its own checks touches no row. *)
PatchBegins(r, i, v) ==
  /\ Begin(r, "patch", i, "update")
  /\ seenVersion' = [seenVersion EXCEPT ![r] = v]
  /\ UNCHANGED <<rows, seenMitigation>>

PatchCommitsAnywhere(r) ==   \* mutant: the UPDATE forgets the incident's id
  /\ op[r] = "patch" /\ pc[r] = "held"
  /\ \E i \in Incidents :
       Write(i, status[i], version[i] + 1, mitigation[i], "INCIDENT_UPDATED", r, i)
  /\ Go(r, "committed")
  /\ UNCHANGED local

PatchCommits(r) ==
  LET i == target[r] IN
  /\ op[r] = "patch"
  /\ CommitHeld(r, status[i], mitigation[i], "INCIDENT_UPDATED", i)

---------------------------------------------------------------------------
(* POST /incidents/{id}/resolve *)
ResolveReadsIncident(r, i) ==
  /\ Begin(r, "resolve", i,
           IF status[i] \in {"absent", "resolved"} THEN "refused" ELSE "readMitigation")
  /\ seenVersion' = [seenVersion EXCEPT ![r] = version[i]]
  /\ UNCHANGED <<rows, seenMitigation>>

ResolveReadsMitigation(r) ==
  /\ op[r] = "resolve" /\ pc[r] = "readMitigation"
  /\ Go(r, IF mitigation[target[r]] # None THEN "refused" ELSE "update")
  /\ UNCHANGED <<rows, local>>

ResolveCommits(r) ==
  LET i == target[r] IN
  /\ op[r] = "resolve"
  /\ CommitHeld(r, "resolved", mitigation[i], "INCIDENT_RESOLVED", i)

---------------------------------------------------------------------------
(* POST /incidents/{id}/mitigation/ *)
MitigateReadsIncidentUnchecked(r, i) ==   \* mutant: RESOLVED is not refused
  /\ Begin(r, "mitigate", i, IF status[i] = "absent" THEN "refused" ELSE "readMitigation")
  /\ seenVersion' = [seenVersion EXCEPT ![r] = version[i]]
  /\ UNCHANGED <<rows, seenMitigation>>

MitigateReadsIncident(r, i) ==
  /\ Begin(r, "mitigate", i,
           IF status[i] \in {"absent", "resolved"} THEN "refused" ELSE "readMitigation")
  /\ seenVersion' = [seenVersion EXCEPT ![r] = version[i]]
  /\ UNCHANGED <<rows, seenMitigation>>

MitigateReadsMitigation(r) ==
  /\ op[r] = "mitigate" /\ pc[r] = "readMitigation"
  /\ Go(r, IF mitigation[target[r]] # None THEN "refused" ELSE "insert")
  /\ UNCHANGED <<rows, local>>

\* The unique index on incident_id: a committed row is an IntegrityError, an
\* uncommitted one makes the INSERT wait until that transaction ends.
MitigateInserts(r) ==
  LET i == target[r] IN
  /\ pc[r] = "insert"
  /\ ~InsertPending(i)
  /\ Go(r, IF mitigation[i] # None THEN "refused" ELSE "update")
  /\ UNCHANGED <<rows, local>>

MitigateCommits(r) ==
  /\ op[r] = "mitigate"
  /\ CommitHeld(r, "mitigated", r, "MITIGATION_CREATED", r)

---------------------------------------------------------------------------
(* DELETE /incidents/{id}/mitigation/ *)
ClearReadsMitigationUnchecked(r, i) ==   \* mutant: a missing row is no 404
  /\ Begin(r, "clear", i, "readIncident")
  /\ seenMitigation' = [seenMitigation EXCEPT ![r] = mitigation[i]]
  /\ UNCHANGED <<rows, seenVersion>>

ClearReadsMitigation(r, i) ==
  /\ Begin(r, "clear", i, IF mitigation[i] = None THEN "refused" ELSE "readIncident")
  /\ seenMitigation' = [seenMitigation EXCEPT ![r] = mitigation[i]]
  /\ UNCHANGED <<rows, seenVersion>>

ClearNeverReopens(r) ==   \* mutant: the status is left as it is
  /\ op[r] = "clear" /\ pc[r] = "readIncident"
  /\ Go(r, "delete")
  /\ UNCHANGED <<rows, local>>

ClearReopensAny(r) ==   \* mutant: reopens whatever is not OPEN
  /\ op[r] = "clear" /\ pc[r] = "readIncident"
  /\ Go(r, IF status[target[r]] # "open" THEN "update" ELSE "delete")
  /\ seenVersion' = [seenVersion EXCEPT ![r] = version[target[r]]]
  /\ UNCHANGED <<rows, op, target, seenMitigation>>

ClearReadsIncident(r) ==
  LET i == target[r] IN
  /\ op[r] = "clear" /\ pc[r] = "readIncident"
  /\ IF status[i] = "mitigated"
     THEN /\ Go(r, "update")
          /\ seenVersion' = [seenVersion EXCEPT ![r] = version[i]]
     ELSE /\ Go(r, "delete")
          /\ UNCHANGED seenVersion
  /\ UNCHANGED <<rows, op, target, seenMitigation>>

DeleteByIncident(r) == None   \* mutant: deletes whatever row the incident has

\* DELETE by primary key: the row read before, if it is still there.
AfterDelete(r) ==
  IF mitigation[target[r]] = seenMitigation[r] THEN None ELSE mitigation[target[r]]

ClearReopensOnly(r) ==   \* mutant: the row is not deleted
  /\ op[r] = "clear"
  /\ CommitHeld(r, "open", mitigation[target[r]], "MITIGATION_DELETED", seenMitigation[r])

ClearCommits(r) ==
  /\ op[r] = "clear"
  /\ CommitHeld(r, "open", AfterDelete(r), "MITIGATION_DELETED", seenMitigation[r])

\* The incident was not MITIGATED when read: no update, no lock on its row.
ClearDeletesOnly(r) ==
  LET i == target[r] IN
  /\ pc[r] = "delete"
  /\ Write(i, status[i], version[i], AfterDelete(r), "MITIGATION_DELETED", r, seenMitigation[r])
  /\ Go(r, "committed")
  /\ UNCHANGED local

---------------------------------------------------------------------------
(* After the commit: the row is read back, and the request is answered.    *)
Answer(r) ==
  /\ pc[r] = "committed"
  /\ Go(r, IF op[r] = "mitigate" /\ mitigation[target[r]] # r THEN "error" ELSE "ok")
  /\ UNCHANGED <<rows, local>>

(* The process or its connection dies, or a statement raises: the session  *)
(* closes, what it had not committed is rolled back, the client is told    *)
(* nothing it could rely on.                                               *)
Fail(r) ==
  /\ pc[r] \in Steps
  /\ Go(r, "lost")
  /\ UNCHANGED <<rows, local>>

---------------------------------------------------------------------------
RequestStep(r) ==
  \/ \E i \in Incidents, v \in ClientVersions : PatchBegins(r, i, v)
  \/ \E i \in Incidents : \/ ResolveReadsIncident(r, i)
                          \/ MitigateReadsIncident(r, i)
                          \/ ClearReadsMitigation(r, i)
  \/ ResolveReadsMitigation(r) \/ MitigateReadsMitigation(r)
  \/ ClearReadsIncident(r) \/ MitigateInserts(r)
  \/ UpdateWins(r) \/ UpdateLoses(r)
  \/ PatchCommits(r) \/ ResolveCommits(r) \/ MitigateCommits(r)
  \/ ClearCommits(r) \/ ClearDeletesOnly(r)
  \/ Answer(r)

\* Every request has been answered; more requests are only a matter of bounds.
Quiescent == /\ \A r \in Requests : pc[r] \in Answers
             /\ UNCHANGED vars

Next == \/ \E i \in Incidents : CreateIncident(i)
        \/ \E r \in Requests : RequestStep(r) \/ Fail(r)
        \/ Quiescent

Spec == Init /\ [][Next]_vars

(* The event loop and the database keep running every request that has     *)
(* arrived, and a waiter gets the lock when its holder is gone. Nothing    *)
(* makes a client send a request, and nothing makes one fail.              *)
Fairness == \A r \in Requests : WF_vars(pc[r] # "idle" /\ RequestStep(r))
FairSpec == Spec /\ Fairness

---------------------------------------------------------------------------
(* Properties *)

(* Every variable holds a value of its kind: the committed rows, and what  *)
(* each request remembers between its statements (incidents.py,            *)
(* mitigations.py).                                                        *)
TypeOK == /\ RowsOK
          /\ pc \in [Requests -> {"idle"} \cup Steps \cup Answers]
          /\ op \in [Requests -> Ops]
          /\ target \in [Requests -> Incidents \cup {None}]
          /\ seenVersion \in [Requests -> Int]
          /\ seenMitigation \in [Requests -> Requests \cup {None}]

(* A RESOLVED incident has no mitigation row, although resolve checks for  *)
(* one (incidents.py:174) long before its update and create_mitigation     *)
(* checks for RESOLVED (mitigations.py:31) long before its insert.         *)
ResolvedHasNoMitigation ==
  \A i \in Incidents : status[i] = "resolved" => mitigation[i] = None

\* r is known to have committed, having updated the incident row.
Committed(r) == pc[r] \in {"committed", "ok", "error"}
Updated(r) == Committed(r) /\ (op[r] = "clear" => seenVersion[r] # 0)

(* Two requests never both commit an update of one incident that they      *)
(* based on the same version (apply_optimistic_update): no commit          *)
(* overwrites another unseen.                                              *)
NoLostUpdate ==
  \A p, q \in Requests :
    Updated(p) /\ Updated(q) /\ target[p] = target[q] /\ seenVersion[p] = seenVersion[q]
      => p = q

EntriesBy(r, i) == {k \in DOMAIN audit[i] : audit[i][k].by = r}

(* The answer and the audit timeline agree: a success, and the 500 after a *)
(* commit, have exactly one entry, a 4xx has none, a lost request at most  *)
(* one; and no entry is on another incident's timeline.                    *)
AnswerMatchesLog ==
  \A r \in Requests, i \in Incidents :
    LET n == Cardinality(EntriesBy(r, i)) IN
    /\ Committed(r) /\ target[r] = i => n = 1
    /\ pc[r] = "lost" /\ target[r] = i => n \in {0, 1}
    /\ target[r] # i \/ (~Committed(r) /\ pc[r] # "lost") => n = 0

(* create_mitigation answers 500 after its commit (db.refresh,             *)
(* mitigations.py:79) only when its mitigation was already deleted by a    *)
(* clear that is in the timeline.                                          *)
ErrorOnlyIfCleared ==
  \A r \in Requests :
    pc[r] = "error" => Logged(audit[target[r]], "MITIGATION_DELETED", r)

(* The timeline accounts for every mitigation: a mitigation whose creation *)
(* is logged is the current row exactly as long as no deletion of it is.   *)
RowUntilDeletionLogged ==
  \A i \in Incidents, m \in Requests :
    Logged(audit[i], "MITIGATION_CREATED", m) =>
      (mitigation[i] = m <=> ~Logged(audit[i], "MITIGATION_DELETED", m))

(* The timeline tells the status, which the code stores beside it and      *)
(* writes by other statements: absent with no entry, resolved with a       *)
(* resolution, mitigated only with a mitigation created and not deleted.   *)
(* Racing clears can leave an incident OPEN beside a live mitigation, but  *)
(* never unnoticed: one deletion is then in the timeline twice.            *)
Live(log, m) == Logged(log, "MITIGATION_CREATED", m) /\ ~Logged(log, "MITIGATION_DELETED", m)
DeletedTwice(log) ==
  \E j, k \in DOMAIN log :
    /\ j # k /\ log[j].entity = log[k].entity
    /\ log[j].action = "MITIGATION_DELETED" /\ log[k].action = "MITIGATION_DELETED"
ResolutionLogged(log) == \E k \in DOMAIN log : log[k].action = "INCIDENT_RESOLVED"
TimelineTellsStatus ==
  \A i \in Incidents :
    /\ status[i] = "absent" <=> audit[i] = << >>
    /\ status[i] = "resolved" <=> ResolutionLogged(audit[i])
    /\ status[i] = "mitigated" => \E m \in Requests : Live(audit[i], m)
    /\ status[i] = "open" => DeletedTwice(audit[i]) \/ \A m \in Requests : ~Live(audit[i], m)

(* Every version a row has left behind was superseded by one request, that *)
(* expected that version (apply_optimistic_update) and signed the timeline. *)
Superseded(i, v) ==
  \E q \in Requests : target[q] = i /\ seenVersion[q] = v /\ WroteTo(audit[i], q)
VersionsAccounted ==
  \A i \in Incidents : \A v \in 1..(version[i] - 1) : Superseded(i, v)

(* A 409 is never spurious: when the UPDATE of a resolve, a create or a    *)
(* clear loses, another request superseded the version it had read, and    *)
(* that request is in the timeline. A lock, a rollback or a crash of       *)
(* another request is no conflict.                                         *)
RefusedByUpdate(r) == op[r] # "patch" /\ pc[r] = "update" /\ pc'[r] = "refused"
ConflictsAreReal ==
  [][\A r \in Requests : RefusedByUpdate(r) =>
       \E q \in Requests \ {r} :
         target[q] = target[r] /\ seenVersion[q] = seenVersion[r] /\ WroteTo(audit[target[r]], q)]_vars

(* Nothing leaves RESOLVED, and nothing is resolved twice, whatever the    *)
(* clears, edits and resolves already under way do: once an incident is    *)
(* resolved only edits and late deletions reach its timeline.              *)
ResolvedStays(i) ==
  status[i] = "resolved" =>
    /\ status'[i] = "resolved"
    /\ \A k \in DOMAIN audit'[i] \ DOMAIN audit[i] :
         audit'[i][k].action \in {"INCIDENT_UPDATED", "MITIGATION_DELETED"}
ResolvedIsFinal == [][\A i \in Incidents : ResolvedStays(i)]_vars

(* Requests never wait in a circle: create_mitigation holds its inserted   *)
(* row while it waits for the incident's (mitigations.py:60-74), but none  *)
(* that holds the incident's row waits for anything. A request that cannot *)
(* go on waits for one that can, or for one that waits for such a one; and *)
(* it waits for a row at most once: the holder expects the same version,   *)
(* so its commit ends the wait with a 409.                                 *)
Running(r) == pc[r] \in Steps
CanGoOn(r) ==
  LET i == target[r] IN
  \/ pc[r] = "readMitigation" /\ op[r] \in {"resolve", "mitigate"}
  \/ pc[r] = "readIncident" /\ op[r] = "clear"
  \/ pc[r] = "insert" /\ ~InsertPending(i)
  \/ pc[r] = "update" /\ (status[i] = "absent" \/ version[i] # seenVersion[r] \/ ~RowLocked(i))
  \/ pc[r] = "held" /\ op[r] # "none"
  \/ pc[r] \in {"delete", "committed"}
WaitsFor(r, q) ==
  /\ r # q /\ target[r] = target[q]
  /\ \/ pc[r] = "insert" /\ op[q] = "mitigate" /\ pc[q] \in {"update", "held"}
     \/ pc[r] = "update" /\ pc[q] = "held" /\ seenVersion[q] = seenVersion[r]
NoRequestStuck ==
  \A r \in Requests : Running(r) /\ ~CanGoOn(r) =>
    \E q \in Requests :
      /\ WaitsFor(r, q)
      /\ CanGoOn(q) \/ \E p \in Requests : WaitsFor(q, p) /\ CanGoOn(p)

(* Every request that arrived is answered: no request waits forever for a  *)
(* row lock or for the unique index.                                       *)
EveryRequestAnswered ==
  \A r \in Requests : pc[r] # "idle" ~> pc[r] \in Answers

(* What the error text of incidents.py:175-180 and test_mitigations.py say *)
(* of the statuses: an incident that is OPEN again has no active           *)
(* mitigation.                                                             *)
OpenHasNoMitigation ==
  \A i \in Incidents : status[i] = "open" => mitigation[i] = None

(* One deletion is recorded for one mitigation, as test_mitigations.py     *)
(* reads it back with scalar_one().                                        *)
DeletionLoggedOnce ==
  \A i \in Incidents : \A j, k \in DOMAIN audit[i] :
    /\ audit[i][j].action = "MITIGATION_DELETED"
    /\ audit[i][k].action = "MITIGATION_DELETED"
    /\ audit[i][j].entity = audit[i][k].entity
    => j = k
=============================================================================
