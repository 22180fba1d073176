--------------------------- MODULE IncidentsProofs ---------------------------
(***************************************************************************)
(* Proofs about Incidents, for any set of requests and incidents.          *)
(***************************************************************************)
EXTENDS Incidents, FiniteSetTheorems, TLAPS

(* The inductive invariant: why the checks a request made on what it read  *)
(* still hold when its commit acts on them. While the version a request    *)
(* read is still the row's, nobody updated the row since.                  *)

InTransaction == {"readMitigation", "insert", "update", "held"}

\* Where a request stands fits its endpoint.
ControlOK(r) ==
  /\ pc[r] = "idle" => seenVersion[r] = 0
  /\ pc[r] # "idle" => target[r] \in Incidents /\ op[r] # "none"
  /\ pc[r] = "readMitigation" => op[r] \in {"resolve", "mitigate"}
  /\ pc[r] = "insert" => op[r] = "mitigate"
  /\ pc[r] \in {"readIncident", "delete"} => op[r] = "clear" /\ seenVersion[r] = 0
  /\ op[r] = "clear" /\ pc[r] \in Steps => seenMitigation[r] # None

\* What resolve and create_mitigation checked.
CheckedOK(r) ==
  op[r] \in {"resolve", "mitigate"} /\ pc[r] \in InTransaction =>
    /\ status[target[r]] # "absent"
    /\ seenVersion[r] <= version[target[r]]
    /\ seenVersion[r] = version[target[r]] => status[target[r]] # "resolved"
    /\ seenVersion[r] = version[target[r]] /\ op[r] = "resolve" /\ pc[r] \in {"update", "held"}
         => mitigation[target[r]] = None

\* What a clear read, and what may have happened to it since.
ClearOK(r) ==
  op[r] = "clear" /\ pc[r] \in {"readIncident", "update", "held", "delete"} =>
    /\ status[target[r]] # "absent"
    /\ seenVersion[r] <= version[target[r]]
    /\ pc[r] \in {"update", "held"} /\ seenVersion[r] = version[target[r]]
         => status[target[r]] = "mitigated"
    /\ pc[r] = "delete" /\ mitigation[target[r]] = seenMitigation[r]
         => status[target[r]] # "mitigated"
    /\ mitigation[target[r]] = seenMitigation[r]
         \/ Logged(audit[target[r]], "MITIGATION_DELETED", seenMitigation[r])

\* The row lock: one holder, and the row is as its UPDATE found it.
LockOK ==
  /\ \A r \in Requests :
       pc[r] = "held" => seenVersion[r] = version[target[r]] /\ status[target[r]] # "absent"
  /\ \A p, q \in Requests :
       pc[p] = "held" /\ pc[q] = "held" /\ target[p] = target[q] => p = q

\* The unique index: one uncommitted insert, and no committed row beside it.
Inserted(r) == op[r] = "mitigate" /\ pc[r] \in {"update", "held"}
IndexOK ==
  /\ \A r \in Requests : Inserted(r) => mitigation[target[r]] = None
  /\ \A p, q \in Requests :
       Inserted(p) /\ Inserted(q) /\ target[p] = target[q] => p = q

\* A mitigation that a row or a clear names was committed by its request.
MitigationNamesOK ==
  \A q \in Requests :
    (\E i \in Incidents : mitigation[i] = q) \/ (\E r \in Requests : seenMitigation[r] = q)
      => pc[q] \in {"committed"} \cup Answers

\* A committed update was based on an older version; a log has no future.
HistoryOK ==
  /\ \A r \in Requests : Updated(r) => seenVersion[r] < version[target[r]]
  /\ \A r \in Requests, i \in Incidents :
       pc[r] \in {"idle"} \cup (Steps \ {"committed"}) => ~WroteTo(audit[i], r)
  /\ \A i \in Incidents : status[i] = "absent" => version[i] = 0 /\ mitigation[i] = None

(* A MITIGATED incident has a mitigation row: the row and the status are   *)
(* written by different statements, and clears may race.                   *)
MitigatedHasMitigation ==
  \A i \in Incidents : status[i] = "mitigated" => mitigation[i] # None

IInv ==
  /\ TypeOK
  /\ \A r \in Requests : ControlOK(r) /\ CheckedOK(r) /\ ClearOK(r)
  /\ LockOK /\ IndexOK /\ MitigationNamesOK /\ HistoryOK
  /\ ResolvedHasNoMitigation /\ MitigatedHasMitigation /\ NoLostUpdate

\* The timelines: the creation of each mitigation that exists or was deleted
\* is logged, by its own request, and a request writes at most once.
TimelineOK ==
  \A i \in Incidents :
    /\ \A m \in Requests :
         mitigation[i] = m \/ Logged(audit[i], "MITIGATION_DELETED", m)
           => Logged(audit[i], "MITIGATION_CREATED", m)
    /\ \A k \in DOMAIN audit[i] :
         audit[i][k].action = "MITIGATION_CREATED" => audit[i][k].by = audit[i][k].entity
    /\ \A j, k \in DOMAIN audit[i] :
         audit[i][j].by = audit[i][k].by /\ audit[i][j].by \in Requests => j = k

\* A request's entry is on the timeline of its own incident, if it committed
\* or is lost; and it is there if it committed.
WriterOK(r) ==
  /\ \A i \in Incidents :
       WroteTo(audit[i], r) => target[r] = i /\ (Committed(r) \/ pc[r] = "lost")
  /\ Committed(r) => target[r] \in Incidents /\ WroteTo(audit[target[r]], r)
  /\ pc[r] = "committed" /\ op[r] = "mitigate"
       => Logged(audit[target[r]], "MITIGATION_CREATED", r)

(* The whole invariant: what the requests know of the rows they act on, and *)
(* that the rows, the timelines and the answers tell one story.            *)
LogInv == /\ IInv /\ TimelineOK /\ RowUntilDeletionLogged /\ ErrorOnlyIfCleared
          /\ \A r \in Requests : WriterOK(r)

---------------------------------------------------------------------------
(* Timelines *)

(* Appending to a sequence changes nothing in it, and adds one element.    *)
LEMMA AppendFacts ==
  ASSUME NEW S, NEW s \in Seq(S), NEW e \in S
  PROVE  /\ Append(s, e) \in Seq(S)
         /\ DOMAIN Append(s, e) = DOMAIN s \cup {Len(s) + 1}
         /\ \A k \in DOMAIN s : Append(s, e)[k] = s[k]
         /\ Append(s, e)[Len(s) + 1] = e
OBVIOUS

(* One new entry on the timeline of i: every timeline keeps what it logged,*)
(* i logs the new entry, and no other request has written.                 *)
LEMMA LogGrows ==
  ASSUME RowsOK, NEW i \in Incidents, NEW e \in Entry,
         audit' = [audit EXCEPT ![i] = Append(@, e)]
  PROVE  /\ audit' \in [Incidents -> Seq(Entry)]
         /\ \A j \in Incidents : \A a, x : Logged(audit[j], a, x) => Logged(audit'[j], a, x)
         /\ Logged(audit'[i], e.action, e.entity)
         /\ \A j \in Incidents : \A q : WroteTo(audit'[j], q) => WroteTo(audit[j], q) \/ q = e.by
<1>1. audit \in [Incidents -> Seq(Entry)] /\ audit[i] \in Seq(Entry)
  BY DEF RowsOK
<1>2. /\ Append(audit[i], e) \in Seq(Entry)
      /\ DOMAIN Append(audit[i], e) = DOMAIN audit[i] \cup {Len(audit[i]) + 1}
      /\ \A k \in DOMAIN audit[i] : Append(audit[i], e)[k] = audit[i][k]
      /\ Append(audit[i], e)[Len(audit[i]) + 1] = e
  BY <1>1, AppendFacts
<1>3. \A j \in Incidents : audit'[j] = IF j = i THEN Append(audit[i], e) ELSE audit[j]
  BY <1>1
<1>4. audit' \in [Incidents -> Seq(Entry)]
  BY <1>1, <1>2
<1>5. \A j \in Incidents : \A a, x : Logged(audit[j], a, x) => Logged(audit'[j], a, x)
  BY <1>2, <1>3 DEF Logged
<1>6. Logged(audit'[i], e.action, e.entity)
  <2>1. audit'[i] = Append(audit[i], e)
    BY <1>3
  <2>2. Len(audit[i]) + 1 \in DOMAIN audit'[i] /\ audit'[i][Len(audit[i]) + 1] = e
    BY <2>1, <1>2
  <2> QED BY <2>2 DEF Logged
<1>7. \A j \in Incidents : \A q : WroteTo(audit'[j], q) => WroteTo(audit[j], q) \/ q = e.by
  BY <1>2, <1>3 DEF WroteTo
<1> QED BY <1>4, <1>5, <1>6, <1>7

---------------------------------------------------------------------------
(* Steps that write rows *)

(* What a commit that holds the row lock must respect to keep the          *)
(* invariant: it brings in no mitigation but its own, and any mitigation   *)
(* it takes away it logs as deleted.                                       *)
LEMMA CommitHeldKeeps ==
  ASSUME IInv, NEW r \in Requests, NEW s \in Statuses \ {"absent"},
         NEW m \in Requests \cup {None}, NEW action, NEW entity,
         CommitHeld(r, s, m, action, entity),
         [action |-> action, by |-> r, entity |-> entity] \in Entry,
         s = "resolved" => m = None,
         s = "mitigated" => m # None /\ (m = r \/ (s = status[target[r]] /\ m = mitigation[target[r]])),
         m # None => m = mitigation[target[r]] \/ (m = r /\ op[r] = "mitigate"),
         mitigation[target[r]] # None /\ m # mitigation[target[r]] =>
           action = "MITIGATION_DELETED" /\ entity = mitigation[target[r]]
  PROVE  IInv'
<1>1. /\ pc[r] = "held" /\ target[r] \in Incidents
      /\ seenVersion[r] = version[target[r]] /\ version[target[r]] \in Nat
  BY DEF IInv, CommitHeld, ControlOK, LockOK, TypeOK, RowsOK
<1>2. /\ status' = [status EXCEPT ![target[r]] = s]
      /\ version' = [version EXCEPT ![target[r]] = version[target[r]] + 1]
      /\ mitigation' = [mitigation EXCEPT ![target[r]] = m]
      /\ pc' = [pc EXCEPT ![r] = "committed"]
      /\ op' = op /\ target' = target
      /\ seenVersion' = seenVersion /\ seenMitigation' = seenMitigation
  BY DEF CommitHeld, Write, Go, local
<1>3. /\ audit' \in [Incidents -> Seq(Entry)]
      /\ \A j \in Incidents : \A a, x : Logged(audit[j], a, x) => Logged(audit'[j], a, x)
      /\ Logged(audit'[target[r]], action, entity)
      /\ \A j \in Incidents : \A q : WroteTo(audit'[j], q) => WroteTo(audit[j], q) \/ q = r
  BY <1>1, LogGrows DEF IInv, TypeOK, CommitHeld, Write
<1>4. TypeOK'
  <2>1. status' \in [Incidents -> Statuses] /\ version' \in [Incidents -> Nat]
    BY <1>1, <1>2 DEF IInv, TypeOK, RowsOK
  <2>2. mitigation' \in [Incidents -> Requests \cup {None}]
    BY <1>1, <1>2 DEF IInv, TypeOK, RowsOK
  <2> QED BY <1>2, <1>3, <2>1, <2>2 DEF IInv, TypeOK, RowsOK, Steps
<1>5. ASSUME NEW q \in Requests PROVE ControlOK(q)'
  BY <1>1, <1>2 DEF IInv, ControlOK, TypeOK, Steps
<1>6. ASSUME NEW q \in Requests PROVE CheckedOK(q)'
  BY <1>1, <1>2 DEF IInv, CheckedOK, ControlOK, TypeOK, RowsOK, InTransaction
<1>7. ASSUME NEW q \in Requests PROVE ClearOK(q)'
  <2> SUFFICES ASSUME q # r, op[q] = "clear", target[q] \in Incidents, seenMitigation[q] # None,
                      pc[q] \in {"readIncident", "update", "held", "delete"}
               PROVE  ClearOK(q)'
    BY <1>1, <1>2 DEF IInv, ClearOK, ControlOK, TypeOK, Steps
  <2>1. ClearOK(q) /\ pc'[q] = pc[q]
    BY <1>2 DEF IInv, TypeOK
  <2>2. seenMitigation[q] # r
    BY <1>1 DEF IInv, MitigationNamesOK, TypeOK, Answers
  <2>3. seenVersion[q] <= version'[target[q]] /\ status'[target[q]] # "absent"
    BY <1>1, <1>2, <2>1 DEF IInv, ClearOK, TypeOK, RowsOK
  <2>4. pc[q] \in {"update", "held"} /\ seenVersion[q] = version'[target[q]]
          => status'[target[q]] = "mitigated"
    BY <1>1, <1>2, <2>1 DEF IInv, ClearOK, TypeOK, RowsOK
  <2>5. pc[q] = "delete" /\ mitigation'[target[q]] = seenMitigation[q]
          => status'[target[q]] # "mitigated"
    BY <1>1, <1>2, <2>1, <2>2 DEF IInv, ClearOK, TypeOK, RowsOK
  <2>6. \/ mitigation'[target[q]] = seenMitigation[q]
        \/ Logged(audit'[target[q]], "MITIGATION_DELETED", seenMitigation[q])
    BY <1>1, <1>2, <1>3, <2>1 DEF IInv, ClearOK, TypeOK, RowsOK
  <2> QED BY <1>2, <2>1, <2>3, <2>4, <2>5, <2>6 DEF ClearOK
<1>8. LockOK'
  BY <1>1, <1>2 DEF IInv, LockOK, TypeOK, RowsOK
<1>9. IndexOK'
  BY <1>1, <1>2 DEF IInv, IndexOK, Inserted, ControlOK, TypeOK, RowsOK
<1>10. MitigationNamesOK'
  <2> SUFFICES ASSUME NEW q \in Requests, q # r,
                      \/ \E i \in Incidents : mitigation'[i] = q
                      \/ \E p \in Requests : seenMitigation'[p] = q
               PROVE  pc[q] \in {"committed"} \cup Answers
    BY <1>2 DEF IInv, MitigationNamesOK, TypeOK
  <2> QED BY <1>1, <1>2, NamesAreDistinct DEF IInv, MitigationNamesOK, TypeOK, RowsOK
<1>11. HistoryOK'
  <2>1. ASSUME NEW q \in Requests, Updated(q)' PROVE seenVersion[q] < version'[target[q]]
    BY <1>1, <1>2, <2>1
       DEF IInv, HistoryOK, Updated, Committed, ControlOK, TypeOK, RowsOK
  <2>2. ASSUME NEW q \in Requests, NEW i \in Incidents,
               pc'[q] \in {"idle"} \cup (Steps \ {"committed"})
        PROVE  ~WroteTo(audit'[i], q)
    BY <1>2, <1>3, <2>2 DEF IInv, HistoryOK, TypeOK, Steps
  <2>3. \A i \in Incidents : status'[i] = "absent" => version'[i] = 0 /\ mitigation'[i] = None
    BY <1>1, <1>2 DEF IInv, HistoryOK, TypeOK, RowsOK
  <2> QED BY <1>2, <2>1, <2>2, <2>3 DEF HistoryOK
<1>12. ResolvedHasNoMitigation' /\ MitigatedHasMitigation'
  BY <1>1, <1>2 DEF IInv, ResolvedHasNoMitigation, MitigatedHasMitigation, TypeOK, RowsOK
<1>13. NoLostUpdate'
  BY <1>1, <1>2 DEF IInv, NoLostUpdate, HistoryOK, Updated, Committed, TypeOK
<1> QED
  BY <1>4, <1>5, <1>6, <1>7, <1>8, <1>9, <1>10, <1>11, <1>12, <1>13 DEF IInv

(* The four commits that hold the lock: an edit changes only the version.  *)
LEMMA PatchCommitsKeeps == ASSUME IInv, NEW r \in Requests, PatchCommits(r) PROVE IInv'
<1>1. /\ target[r] \in Incidents /\ status[target[r]] \in Statuses \ {"absent"}
      /\ mitigation[target[r]] \in Requests \cup {None}
  BY DEF PatchCommits, CommitHeld, IInv, ControlOK, LockOK, TypeOK, RowsOK
<1>2. CommitHeld(r, status[target[r]], mitigation[target[r]], "INCIDENT_UPDATED", target[r])
  BY DEF PatchCommits
<1>3. /\ status[target[r]] = "resolved" => mitigation[target[r]] = None
      /\ status[target[r]] = "mitigated" => mitigation[target[r]] # None
  BY <1>1 DEF IInv, ResolvedHasNoMitigation, MitigatedHasMitigation
<1> QED BY <1>1, <1>2, <1>3, CommitHeldKeeps DEF Entry

(* resolve reaches RESOLVED only from the version it checked, which has no *)
(* mitigation row.                                                         *)
LEMMA ResolveCommitsKeeps == ASSUME IInv, NEW r \in Requests, ResolveCommits(r) PROVE IInv'
<1>1. target[r] \in Incidents /\ mitigation[target[r]] = None
  BY DEF ResolveCommits, CommitHeld, IInv, ControlOK, CheckedOK, InTransaction, LockOK
<1>2. CommitHeld(r, "resolved", mitigation[target[r]], "INCIDENT_RESOLVED", target[r])
  BY DEF ResolveCommits
<1> QED BY <1>1, <1>2, CommitHeldKeeps DEF Entry, Statuses

(* create_mitigation sets MITIGATED and its own row together.              *)
LEMMA MitigateCommitsKeeps == ASSUME IInv, NEW r \in Requests, MitigateCommits(r) PROVE IInv'
<1>1. target[r] \in Incidents /\ mitigation[target[r]] = None /\ op[r] = "mitigate"
  BY DEF MitigateCommits, CommitHeld, IInv, ControlOK, IndexOK, Inserted
<1>2. CommitHeld(r, "mitigated", r, "MITIGATION_CREATED", r)
  BY DEF MitigateCommits
<1> QED BY <1>1, <1>2, CommitHeldKeeps, NamesAreDistinct DEF Entry, Statuses

(* A clear that holds the lock deletes the row the MITIGATED incident has, or *)
(* finds that the deletion of the row it read is already logged.           *)
LEMMA ClearCommitsKeeps == ASSUME IInv, NEW r \in Requests, ClearCommits(r) PROVE IInv'
<1>1. /\ target[r] \in Incidents /\ seenMitigation[r] \in Requests
      /\ mitigation[target[r]] \in Requests \cup {None}
  BY DEF ClearCommits, CommitHeld, IInv, ControlOK, Steps, TypeOK, RowsOK
<1>2. CommitHeld(r, "open", AfterDelete(r), "MITIGATION_DELETED", seenMitigation[r])
  BY DEF ClearCommits
<1>3. /\ AfterDelete(r) \in {None, mitigation[target[r]]}
      /\ AfterDelete(r) # mitigation[target[r]] => seenMitigation[r] = mitigation[target[r]]
  BY DEF AfterDelete
<1> QED BY <1>1, <1>2, <1>3, CommitHeldKeeps DEF Entry, Statuses

(* The clear that takes no lock removes at most the row it read, from an   *)
(* incident that is not MITIGATED.                                         *)
LEMMA ClearDeletesOnlyKeeps ==
  ASSUME IInv, NEW r \in Requests, ClearDeletesOnly(r) PROVE IInv'
<1>1. /\ pc[r] = "delete" /\ op[r] = "clear" /\ target[r] \in Incidents
      /\ seenMitigation[r] \in Requests /\ seenVersion[r] = 0
      /\ status[target[r]] # "absent"
      /\ mitigation[target[r]] = seenMitigation[r] => status[target[r]] # "mitigated"
  BY DEF IInv, ClearDeletesOnly, ControlOK, ClearOK, Steps, TypeOK
<1>2. /\ status' = status /\ version' = version
      /\ mitigation' = [mitigation EXCEPT ![target[r]] = AfterDelete(r)]
      /\ pc' = [pc EXCEPT ![r] = "committed"]
      /\ op' = op /\ target' = target
      /\ seenVersion' = seenVersion /\ seenMitigation' = seenMitigation
  BY <1>1 DEF ClearDeletesOnly, Write, Go, local, IInv, TypeOK, RowsOK
<1>3. AfterDelete(r) = IF mitigation[target[r]] = seenMitigation[r]
                       THEN None ELSE mitigation[target[r]]
  BY DEF AfterDelete
<1>4. /\ audit' \in [Incidents -> Seq(Entry)]
      /\ \A j \in Incidents : \A a, x : Logged(audit[j], a, x) => Logged(audit'[j], a, x)
      /\ Logged(audit'[target[r]], "MITIGATION_DELETED", seenMitigation[r])
      /\ \A j \in Incidents : \A q : WroteTo(audit'[j], q) => WroteTo(audit[j], q) \/ q = r
  <2>1. [action |-> "MITIGATION_DELETED", by |-> r, entity |-> seenMitigation[r]] \in Entry
    BY <1>1 DEF Entry
  <2> QED BY <1>1, <2>1, LogGrows DEF IInv, TypeOK, ClearDeletesOnly, Write
<1>5. TypeOK'
  BY <1>1, <1>2, <1>3, <1>4 DEF IInv, TypeOK, RowsOK, Steps
<1>6. ASSUME NEW q \in Requests PROVE ControlOK(q)'
  BY <1>1, <1>2 DEF IInv, ControlOK, TypeOK, Steps
<1>7. ASSUME NEW q \in Requests PROVE CheckedOK(q)'
  BY <1>1, <1>2, <1>3 DEF IInv, CheckedOK, ControlOK, TypeOK, RowsOK, InTransaction
<1>8. ASSUME NEW q \in Requests PROVE ClearOK(q)'
  BY <1>1, <1>2, <1>3, <1>4 DEF IInv, ClearOK, ControlOK, TypeOK, RowsOK, Steps
<1>9. LockOK' /\ IndexOK'
  BY <1>1, <1>2, <1>3 DEF IInv, LockOK, IndexOK, Inserted, ControlOK, TypeOK, RowsOK
<1>10. MitigationNamesOK'
  BY <1>1, <1>2, <1>3, NamesAreDistinct DEF IInv, MitigationNamesOK, TypeOK, RowsOK
<1>11. HistoryOK'
  BY <1>1, <1>2, <1>3, <1>4 DEF IInv, HistoryOK, Updated, Committed, TypeOK, RowsOK, Steps
<1>12. ResolvedHasNoMitigation' /\ MitigatedHasMitigation'
  BY <1>1, <1>2, <1>3 DEF IInv, ResolvedHasNoMitigation, MitigatedHasMitigation, TypeOK, RowsOK
<1>13. NoLostUpdate'
  BY <1>1, <1>2 DEF IInv, NoLostUpdate, Updated, Committed, TypeOK
<1> QED
  BY <1>5, <1>6, <1>7, <1>8, <1>9, <1>10, <1>11, <1>12, <1>13 DEF IInv

(* A new incident is nobody's yet.                                         *)
LEMMA CreateIncidentKeeps ==
  ASSUME IInv, NEW i \in Incidents, CreateIncident(i) PROVE IInv'
<1>1. status[i] = "absent" /\ version[i] = 0 /\ mitigation[i] = None
  BY DEF IInv, CreateIncident, HistoryOK
<1>2. /\ status' = [status EXCEPT ![i] = "open"]
      /\ version' = [version EXCEPT ![i] = 1]
      /\ mitigation' = mitigation
      /\ pc' = pc /\ op' = op /\ target' = target
      /\ seenVersion' = seenVersion /\ seenMitigation' = seenMitigation
  BY <1>1 DEF CreateIncident, Write, local, IInv, TypeOK, RowsOK
<1>3. /\ audit' \in [Incidents -> Seq(Entry)]
      /\ \A j \in Incidents : \A a, x : Logged(audit[j], a, x) => Logged(audit'[j], a, x)
      /\ \A j \in Incidents, q \in Requests : WroteTo(audit'[j], q) => WroteTo(audit[j], q)
  <2> DEFINE e == [action |-> "INCIDENT_CREATED", by |-> i, entity |-> i]
  <2>1. e \in Entry /\ e.by = i
    BY DEF Entry
  <2>2. RowsOK /\ audit' = [audit EXCEPT ![i] = Append(@, e)]
    BY DEF IInv, TypeOK, CreateIncident, Write
  <2>3. \A q \in Requests : q # i
    BY NamesAreDistinct
  <2> HIDE DEF e
  <2> QED BY <2>1, <2>2, <2>3, LogGrows
<1>4. TypeOK'
  BY <1>2, <1>3 DEF IInv, TypeOK, RowsOK, Statuses
<1>5. ASSUME NEW q \in Requests PROVE ControlOK(q)' /\ CheckedOK(q)'
  BY <1>1, <1>2 DEF IInv, ControlOK, CheckedOK, InTransaction, TypeOK, RowsOK
<1>6. ASSUME NEW q \in Requests PROVE ClearOK(q)'
  BY <1>1, <1>2, <1>3 DEF IInv, ControlOK, ClearOK, TypeOK, RowsOK
<1>7. LockOK' /\ IndexOK'
  BY <1>1, <1>2 DEF IInv, ControlOK, LockOK, IndexOK, Inserted, TypeOK, RowsOK
<1>8. MitigationNamesOK'
  BY <1>2 DEF IInv, MitigationNamesOK
<1>9. HistoryOK'
  <2>1. ASSUME NEW q \in Requests, Updated(q)' PROVE seenVersion[q] < version'[target[q]]
    BY <1>1, <1>2, <2>1 DEF IInv, HistoryOK, Updated, Committed, ControlOK, TypeOK, RowsOK
  <2>2. \A q \in Requests, j \in Incidents :
          pc'[q] \in {"idle"} \cup (Steps \ {"committed"}) => ~WroteTo(audit'[j], q)
    BY <1>2, <1>3 DEF IInv, HistoryOK
  <2> QED BY <1>1, <1>2, <2>1, <2>2 DEF IInv, HistoryOK, TypeOK, RowsOK
<1>11. ResolvedHasNoMitigation' /\ MitigatedHasMitigation'
  BY <1>1, <1>2
     DEF IInv, ResolvedHasNoMitigation, MitigatedHasMitigation, TypeOK, RowsOK
<1>10. NoLostUpdate'
  BY <1>2 DEF IInv, NoLostUpdate, Updated, Committed
<1> QED BY <1>4, <1>5, <1>6, <1>7, <1>8, <1>9, <1>10, <1>11 DEF IInv

---------------------------------------------------------------------------
(* Steps that write no row *)

(* What a step of r that writes no row owes the invariant: only its own    *)
(* part, and not to take a lock or a place in the index that is taken.     *)
LEMMA LocalStepKeeps ==
  ASSUME IInv, NEW r \in Requests, UNCHANGED rows, TypeOK',
         \A q \in Requests \ {r} :
           /\ pc'[q] = pc[q] /\ op'[q] = op[q] /\ target'[q] = target[q]
           /\ seenVersion'[q] = seenVersion[q] /\ seenMitigation'[q] = seenMitigation[q],
         ControlOK(r)', CheckedOK(r)', ClearOK(r)',
         pc'[r] = "held" =>
           /\ ~RowLocked(target'[r])
           /\ seenVersion'[r] = version[target'[r]] /\ status[target'[r]] # "absent",
         Inserted(r)' =>
           /\ mitigation[target'[r]] = None
           /\ (Inserted(r) /\ target'[r] = target[r]) \/ ~InsertPending(target'[r]),
         pc[r] \in {"committed"} \cup Answers => pc'[r] \in {"committed"} \cup Answers,
         \/ seenMitigation'[r] = seenMitigation[r]
         \/ target'[r] \in Incidents /\ seenMitigation'[r] = mitigation[target'[r]],
         Updated(r)' => Updated(r) /\ seenVersion'[r] = seenVersion[r] /\ target'[r] = target[r],
         pc[r] \in {"idle"} \cup (Steps \ {"committed"})
           \/ pc'[r] \notin {"idle"} \cup (Steps \ {"committed"})
  PROVE  IInv'
<1>1. /\ status' = status /\ version' = version
      /\ mitigation' = mitigation /\ audit' = audit
  BY DEF rows
<1>2. \A q \in Requests \ {r} : ControlOK(q)' /\ CheckedOK(q)' /\ ClearOK(q)'
  BY <1>1 DEF IInv, ControlOK, CheckedOK, ClearOK
<1>3. LockOK'
  BY <1>1 DEF IInv, LockOK, RowLocked
<1>4. IndexOK'
  BY <1>1 DEF IInv, IndexOK, Inserted, InsertPending
<1>5. MitigationNamesOK'
  <2> SUFFICES ASSUME NEW q \in Requests,
                      \/ \E i \in Incidents : mitigation[i] = q
                      \/ \E p \in Requests : seenMitigation'[p] = q
               PROVE  pc'[q] \in {"committed"} \cup Answers
    BY <1>1 DEF MitigationNamesOK
  <2>1. \/ \E i \in Incidents : mitigation[i] = q
        \/ \E p \in Requests : seenMitigation[p] = q
        \/ target'[r] \in Incidents /\ q = mitigation[target'[r]]
    OBVIOUS
  <2> QED BY <2>1 DEF IInv, MitigationNamesOK, TypeOK
<1>6. HistoryOK'
  BY <1>1 DEF IInv, HistoryOK, Updated, Committed
<1>7. NoLostUpdate' /\ ResolvedHasNoMitigation' /\ MitigatedHasMitigation'
  BY <1>1 DEF IInv, NoLostUpdate, Updated, Committed, ResolvedHasNoMitigation, MitigatedHasMitigation
<1> QED BY <1>2, <1>3, <1>4, <1>5, <1>6, <1>7 DEF IInv

(* A PATCH begins with whatever version its client sends.                  *)
LEMMA PatchBeginsKeeps ==
  ASSUME IInv, NEW r \in Requests, NEW i \in Incidents, NEW v \in ClientVersions, PatchBegins(r, i, v) PROVE IInv'
<1> USE DEF PatchBegins, Begin, Go, rows, local
<1>1. TypeOK'
  BY VersionsAreIntegers DEF IInv, TypeOK, RowsOK, Steps, Answers, Ops
<1>2. ControlOK(r)' /\ CheckedOK(r)' /\ ClearOK(r)'
  BY DEF IInv, ControlOK, CheckedOK, ClearOK, InTransaction, Steps, Answers, TypeOK, RowsOK
<1> QED
  BY <1>1, <1>2, LocalStepKeeps
     DEF IInv, Inserted, Updated, Committed, Steps, Answers, TypeOK, IndexOK, ControlOK

(* resolve goes on only from an incident that is not RESOLVED, and keeps the *)
(* version at which it was not.                                            *)
LEMMA ResolveReadsIncidentKeeps ==
  ASSUME IInv, NEW r \in Requests, NEW i \in Incidents, ResolveReadsIncident(r, i) PROVE IInv'
<1> USE DEF ResolveReadsIncident, Begin, Go, rows, local
<1>1. TypeOK'
  BY VersionsAreIntegers DEF IInv, TypeOK, RowsOK, Steps, Answers, Ops
<1>2. ControlOK(r)' /\ CheckedOK(r)' /\ ClearOK(r)'
  BY DEF IInv, ControlOK, CheckedOK, ClearOK, InTransaction, Steps, Answers, TypeOK, RowsOK
<1> QED
  BY <1>1, <1>2, LocalStepKeeps
     DEF IInv, Inserted, Updated, Committed, Steps, Answers, TypeOK, IndexOK, ControlOK

(* So does create_mitigation.                                              *)
LEMMA MitigateReadsIncidentKeeps ==
  ASSUME IInv, NEW r \in Requests, NEW i \in Incidents, MitigateReadsIncident(r, i) PROVE IInv'
<1> USE DEF MitigateReadsIncident, Begin, Go, rows, local
<1>1. TypeOK'
  BY VersionsAreIntegers DEF IInv, TypeOK, RowsOK, Steps, Answers, Ops
<1>2. ControlOK(r)' /\ CheckedOK(r)' /\ ClearOK(r)'
  BY DEF IInv, ControlOK, CheckedOK, ClearOK, InTransaction, Steps, Answers, TypeOK, RowsOK
<1> QED
  BY <1>1, <1>2, LocalStepKeeps
     DEF IInv, Inserted, Updated, Committed, Steps, Answers, TypeOK, IndexOK, ControlOK

(* A clear goes on only with a committed row, which names a finished request. *)
LEMMA ClearReadsMitigationKeeps ==
  ASSUME IInv, NEW r \in Requests, NEW i \in Incidents, ClearReadsMitigation(r, i) PROVE IInv'
<1> USE DEF ClearReadsMitigation, Begin, Go, rows, local
<1>1. TypeOK'
  BY VersionsAreIntegers DEF IInv, TypeOK, RowsOK, Steps, Answers, Ops
<1>2. ControlOK(r)' /\ CheckedOK(r)' /\ ClearOK(r)'
  <2>1. pc[r] = "idle" /\ pc'[r] \in {"refused", "readIncident"} /\ op'[r] = "clear"
        /\ target'[r] = i /\ seenMitigation'[r] = mitigation[i] /\ seenVersion'[r] = 0
        /\ (pc'[r] = "readIncident" => mitigation[i] # None)
    BY DEF IInv, ControlOK, TypeOK
  <2>2. ControlOK(r)' /\ CheckedOK(r)'
    BY <2>1 DEF ControlOK, CheckedOK, Steps
  <2>3. status' = status /\ version' = version /\ mitigation' = mitigation
        /\ audit' = audit
    OBVIOUS
  <2>4. mitigation[i] # None => status[i] # "absent"
    BY DEF IInv, HistoryOK
  <2>5. ClearOK(r)'
    BY <2>1, <2>3, <2>4 DEF IInv, ClearOK, TypeOK, RowsOK
  <2> QED BY <2>2, <2>5
<1> QED
  BY <1>1, <1>2, LocalStepKeeps
     DEF IInv, Inserted, Updated, Committed, Steps, Answers, TypeOK, IndexOK, ControlOK

(* resolve goes on to its UPDATE only if the incident has no mitigation row. *)
LEMMA ResolveReadsMitigationKeeps ==
  ASSUME IInv, NEW r \in Requests, ResolveReadsMitigation(r) PROVE IInv'
<1> USE DEF ResolveReadsMitigation, Go, rows, local
<1>1. TypeOK'
  BY VersionsAreIntegers DEF IInv, TypeOK, RowsOK, Steps, Answers, Ops
<1>2. ControlOK(r)' /\ CheckedOK(r)' /\ ClearOK(r)'
  BY DEF IInv, ControlOK, CheckedOK, ClearOK, InTransaction, Steps, Answers, TypeOK, RowsOK
<1> QED
  BY <1>1, <1>2, LocalStepKeeps
     DEF IInv, Inserted, Updated, Committed, Steps, Answers, TypeOK, IndexOK, ControlOK

(* create_mitigation goes on to its INSERT, with nothing written yet.      *)
LEMMA MitigateReadsMitigationKeeps ==
  ASSUME IInv, NEW r \in Requests, MitigateReadsMitigation(r) PROVE IInv'
<1> USE DEF MitigateReadsMitigation, Go, rows, local
<1>1. TypeOK'
  BY VersionsAreIntegers DEF IInv, TypeOK, RowsOK, Steps, Answers, Ops
<1>2. ControlOK(r)' /\ CheckedOK(r)' /\ ClearOK(r)'
  BY DEF IInv, ControlOK, CheckedOK, ClearOK, InTransaction, Steps, Answers, TypeOK, RowsOK
<1> QED
  BY <1>1, <1>2, LocalStepKeeps
     DEF IInv, Inserted, Updated, Committed, Steps, Answers, TypeOK, IndexOK, ControlOK

(* The unique index lets in one uncommitted row, beside no committed one.  *)
LEMMA MitigateInsertsKeeps ==
  ASSUME IInv, NEW r \in Requests, MitigateInserts(r) PROVE IInv'
<1> USE DEF MitigateInserts, Go, rows, local
<1>1. TypeOK'
  BY VersionsAreIntegers DEF IInv, TypeOK, RowsOK, Steps, Answers, Ops
<1>2. ControlOK(r)' /\ CheckedOK(r)' /\ ClearOK(r)'
  BY DEF IInv, ControlOK, CheckedOK, ClearOK, InTransaction, Steps, Answers, TypeOK, RowsOK
<1> QED
  BY <1>1, <1>2, LocalStepKeeps
     DEF IInv, Inserted, Updated, Committed, Steps, Answers, TypeOK, IndexOK, ControlOK

(* A clear reopens only a MITIGATED incident, at the version it read, and  *)
(* skips the UPDATE otherwise.                                             *)
LEMMA ClearReadsIncidentKeeps ==
  ASSUME IInv, NEW r \in Requests, ClearReadsIncident(r) PROVE IInv'
<1> USE DEF ClearReadsIncident, Go, rows, local
<1>1. TypeOK'
  <2>1. target[r] \in Incidents /\ version[target[r]] \in Int
    BY DEF IInv, ControlOK, TypeOK, RowsOK
  <2>2. CASE status[target[r]] = "mitigated"
    BY <2>1, <2>2 DEF IInv, TypeOK, RowsOK, Steps
  <2>3. CASE status[target[r]] # "mitigated"
    BY <2>1, <2>3 DEF IInv, TypeOK, RowsOK, Steps
  <2> QED BY <2>2, <2>3
<1>2. ControlOK(r)' /\ CheckedOK(r)' /\ ClearOK(r)'
  BY DEF IInv, ControlOK, CheckedOK, ClearOK, InTransaction, Steps, Answers, TypeOK, RowsOK
<1> QED
  BY <1>1, <1>2, LocalStepKeeps
     DEF IInv, Inserted, Updated, Committed, Steps, Answers, TypeOK, IndexOK, ControlOK

(* A matching UPDATE takes the row lock that nobody holds.                 *)
LEMMA UpdateWinsKeeps ==
  ASSUME IInv, NEW r \in Requests, UpdateWins(r) PROVE IInv'
<1> USE DEF UpdateWins, Go, rows, local
<1>1. TypeOK'
  BY VersionsAreIntegers DEF IInv, TypeOK, RowsOK, Steps, Answers, Ops
<1>2. ControlOK(r)' /\ CheckedOK(r)' /\ ClearOK(r)'
  BY DEF IInv, ControlOK, CheckedOK, ClearOK, InTransaction, Steps, Answers, TypeOK, RowsOK
<1> QED
  BY <1>1, <1>2, LocalStepKeeps
     DEF IInv, Inserted, Updated, Committed, Steps, Answers, TypeOK, IndexOK, ControlOK

(* An UPDATE that matches no row ends its request.                         *)
LEMMA UpdateLosesKeeps ==
  ASSUME IInv, NEW r \in Requests, UpdateLoses(r) PROVE IInv'
<1> USE DEF UpdateLoses, Go, rows, local
<1>1. TypeOK'
  BY VersionsAreIntegers DEF IInv, TypeOK, RowsOK, Steps, Answers, Ops
<1>2. ControlOK(r)' /\ CheckedOK(r)' /\ ClearOK(r)'
  BY DEF IInv, ControlOK, CheckedOK, ClearOK, InTransaction, Steps, Answers, TypeOK, RowsOK
<1> QED
  BY <1>1, <1>2, LocalStepKeeps
     DEF IInv, Inserted, Updated, Committed, Steps, Answers, TypeOK, IndexOK, ControlOK

(* Answering a committed request changes no row.                           *)
LEMMA AnswerKeeps ==
  ASSUME IInv, NEW r \in Requests, Answer(r) PROVE IInv'
<1> USE DEF Answer, Go, rows, local
<1>1. TypeOK'
  BY VersionsAreIntegers DEF IInv, TypeOK, RowsOK, Steps, Answers, Ops
<1>2. ControlOK(r)' /\ CheckedOK(r)' /\ ClearOK(r)'
  BY DEF IInv, ControlOK, CheckedOK, ClearOK, InTransaction, Steps, Answers, TypeOK, RowsOK
<1> QED
  BY <1>1, <1>2, LocalStepKeeps
     DEF IInv, Inserted, Updated, Committed, Steps, Answers, TypeOK, IndexOK, ControlOK

(* A lost request gives up its lock and its uncommitted row.               *)
LEMMA FailKeeps ==
  ASSUME IInv, NEW r \in Requests, Fail(r) PROVE IInv'
<1> USE DEF Fail, Go, rows, local
<1>1. TypeOK'
  BY VersionsAreIntegers DEF IInv, TypeOK, RowsOK, Steps, Answers, Ops
<1>2. ControlOK(r)' /\ CheckedOK(r)' /\ ClearOK(r)'
  BY DEF IInv, ControlOK, CheckedOK, ClearOK, InTransaction, Steps, Answers, TypeOK, RowsOK
<1> QED
  BY <1>1, <1>2, LocalStepKeeps
     DEF IInv, Inserted, Updated, Committed, Steps, Answers, TypeOK, IndexOK, ControlOK

---------------------------------------------------------------------------
(* Theorems *)

(* The empty database and idle requests satisfy the invariant.             *)
LEMMA InitInv == Init => IInv
<1> SUFFICES ASSUME Init PROVE IInv
  OBVIOUS
<1> USE DEF Init, RowsInit
<1>1. TypeOK
  <2>1. audit \in [Incidents -> Seq(Entry)]
    OBVIOUS
  <2> QED BY <2>1 DEF TypeOK, RowsOK, Statuses, Ops
<1>2. \A r \in Requests : ControlOK(r) /\ CheckedOK(r) /\ ClearOK(r)
  BY DEF ControlOK, CheckedOK, ClearOK
<1>3. LockOK /\ IndexOK /\ MitigationNamesOK
  BY NamesAreDistinct DEF LockOK, IndexOK, Inserted, MitigationNamesOK
<1>4. HistoryOK
  BY DEF HistoryOK, Updated, Committed, WroteTo
<1>5. ResolvedHasNoMitigation /\ MitigatedHasMitigation /\ NoLostUpdate
  BY DEF ResolvedHasNoMitigation, MitigatedHasMitigation, NoLostUpdate, Updated, Committed
<1> QED BY <1>1, <1>2, <1>3, <1>4, <1>5 DEF IInv

(* Every step keeps the invariant: one case per action.                    *)
LEMMA NextInv == IInv /\ [Next]_vars => IInv'
<1> SUFFICES ASSUME IInv, [Next]_vars PROVE IInv'
  OBVIOUS
<1>1. CASE UNCHANGED vars
  BY <1>1 DEF vars, IInv, TypeOK, RowsOK, ControlOK, CheckedOK, ClearOK, LockOK, IndexOK,
              Inserted, MitigationNamesOK, HistoryOK, Updated, Committed,
              ResolvedHasNoMitigation, MitigatedHasMitigation, NoLostUpdate
<1>2. ASSUME NEW i \in Incidents, CreateIncident(i) PROVE IInv'
  BY <1>2, CreateIncidentKeeps
<1>3. ASSUME NEW r \in Requests, RequestStep(r) \/ Fail(r) PROVE IInv'
  <2>1. ASSUME NEW i \in Incidents, NEW v \in ClientVersions, PatchBegins(r, i, v) PROVE IInv'
    BY <2>1, PatchBeginsKeeps
  <2>2. ASSUME NEW i \in Incidents,
               \/ ResolveReadsIncident(r, i)
               \/ MitigateReadsIncident(r, i)
               \/ ClearReadsMitigation(r, i)
        PROVE  IInv'
    BY <2>2, ResolveReadsIncidentKeeps, MitigateReadsIncidentKeeps, ClearReadsMitigationKeeps
  <2>3. CASE ResolveReadsMitigation(r) \/ MitigateReadsMitigation(r) \/ MitigateInserts(r)
    BY <2>3, ResolveReadsMitigationKeeps, MitigateReadsMitigationKeeps, MitigateInsertsKeeps
  <2>4. CASE ClearReadsIncident(r) \/ UpdateWins(r) \/ UpdateLoses(r) \/ Answer(r) \/ Fail(r)
    BY <2>4, ClearReadsIncidentKeeps, UpdateWinsKeeps, UpdateLosesKeeps, AnswerKeeps, FailKeeps
  <2>5. CASE PatchCommits(r) \/ ResolveCommits(r) \/ MitigateCommits(r)
    BY <2>5, PatchCommitsKeeps, ResolveCommitsKeeps, MitigateCommitsKeeps
  <2>6. CASE ClearCommits(r) \/ ClearDeletesOnly(r)
    BY <2>6, ClearCommitsKeeps, ClearDeletesOnlyKeeps
  <2> QED BY <1>3, <2>1, <2>2, <2>3, <2>4, <2>5, <2>6 DEF RequestStep
<1>4. CASE Quiescent
  BY <1>1, <1>4 DEF Quiescent
<1> QED BY <1>1, <1>2, <1>3, <1>4 DEF Next

(* The invariant holds in every reachable state, however many requests     *)
(* race on however many incidents.                                         *)
THEOREM Invariance == Spec => []IInv
BY InitInv, NextInv, PTL DEF Spec

(* Every variable keeps to its type. *)
THEOREM TypeCorrect == Spec => []TypeOK
<1>1. IInv => TypeOK
  BY DEF IInv
<1> QED BY <1>1, Invariance, PTL

(* No request leaves a mitigation row beside a RESOLVED incident           *)
(* (incidents.py resolve_incident against mitigations.py).                 *)
THEOREM ResolvedSafe == Spec => []ResolvedHasNoMitigation
<1>1. IInv => ResolvedHasNoMitigation
  BY DEF IInv
<1> QED BY <1>1, Invariance, PTL

(* No clear takes the mitigation of an incident that stays MITIGATED.      *)
THEOREM MitigatedSafe == Spec => []MitigatedHasMitigation
<1>1. IInv => MitigatedHasMitigation
  BY DEF IInv
<1> QED BY <1>1, Invariance, PTL

(* No committed update of an incident overwrites another one unseen        *)
(* (apply_optimistic_update).                                              *)
THEOREM UpdatesSafe == Spec => []NoLostUpdate
<1>1. IInv => NoLostUpdate
  BY DEF IInv
<1> QED BY <1>1, Invariance, PTL

---------------------------------------------------------------------------
(* Incidents implements IncidentLedger *)

(* Each commit that holds the lock is a step of the ledger: an edit, a     *)
(* resolution, a mitigation, or a clear that was in time or too late.      *)
LEMMA CommitRefines ==
  ASSUME IInv, NEW r \in Requests,
         PatchCommits(r) \/ ResolveCommits(r) \/ MitigateCommits(r)
  PROVE  \E i \in Incidents : LedgerStep(i, r)
<1> DEFINE i == target[r]
<1>1. /\ pc[r] = "held" /\ i \in Incidents /\ ~WroteTo(audit[i], r)
      /\ status[i] \in {"open", "mitigated", "resolved"} /\ seenVersion[r] = version[i]
  BY DEF PatchCommits, ResolveCommits, MitigateCommits, CommitHeld, IInv, ControlOK, LockOK,
         HistoryOK, Steps, TypeOK, RowsOK, Statuses
<1>2. CASE PatchCommits(r)
  BY <1>1, <1>2 DEF PatchCommits, CommitHeld, LedgerStep, Edit
<1>3. CASE ResolveCommits(r)
  <2>1. status[i] = "open" /\ mitigation[i] = None
    BY <1>1, <1>3 DEF ResolveCommits, IInv, CheckedOK, InTransaction, MitigatedHasMitigation
  <2> QED BY <1>1, <1>3, <2>1 DEF ResolveCommits, CommitHeld, LedgerStep, Resolve
<1>4. CASE MitigateCommits(r)
  <2>1. status[i] = "open" /\ mitigation[i] = None
    BY <1>1, <1>4 DEF MitigateCommits, IInv, CheckedOK, InTransaction, IndexOK, Inserted,
                      MitigatedHasMitigation
  <2> QED BY <1>1, <1>4, <2>1 DEF MitigateCommits, CommitHeld, LedgerStep, Mitigate
<1> QED BY <1>2, <1>3, <1>4

(* So is the clear that takes no lock.                                     *)
LEMMA ClearRefines ==
  ASSUME IInv, NEW r \in Requests, ClearCommits(r) \/ ClearDeletesOnly(r)
  PROVE  \E i \in Incidents : LedgerStep(i, r)
<1> DEFINE i == target[r]
           m == seenMitigation[r]
<1>1. /\ pc[r] \in {"held", "delete"} /\ op[r] = "clear" /\ i \in Incidents
      /\ m \in Requests /\ ~WroteTo(audit[i], r) /\ status[i] \in Statuses
  BY DEF ClearCommits, ClearDeletesOnly, CommitHeld, IInv, ControlOK, HistoryOK, Steps, TypeOK, RowsOK
<1>2. mitigation[i] = m \/ Logged(audit[i], "MITIGATION_DELETED", m)
  BY <1>1 DEF IInv, ClearOK
<1>3. CASE ClearCommits(r)
  <2>1. status[i] = "mitigated"
    BY <1>1, <1>3 DEF ClearCommits, CommitHeld, IInv, ClearOK, LockOK
  <2>2. Write(i, "open", version[i] + 1, AfterDelete(r), "MITIGATION_DELETED", r, m)
    BY <1>3 DEF ClearCommits, CommitHeld
  <2>3. CASE mitigation[i] = m
    BY <1>1, <2>1, <2>2, <2>3 DEF AfterDelete, LedgerStep, Unwind
  <2>4. CASE mitigation[i] # m
    <3>1. LateUnwind(i, r, m)
      BY <1>2, <2>1, <2>2, <2>4 DEF AfterDelete, LateUnwind
    <3> QED BY <1>1, <3>1 DEF LedgerStep
  <2> QED BY <2>3, <2>4
<1>4. CASE ClearDeletesOnly(r)
  <2>1. Write(i, status[i], version[i], AfterDelete(r), "MITIGATION_DELETED", r, m)
    BY <1>4 DEF ClearDeletesOnly
  <2>2. CASE mitigation[i] = m
    <3>1. status[i] = "open" /\ mitigation[i] # None
      BY <1>1, <1>4, <2>2, NamesAreDistinct
         DEF ClearDeletesOnly, IInv, ClearOK, ResolvedHasNoMitigation, Statuses
    <3> QED BY <1>1, <2>1, <2>2, <3>1 DEF AfterDelete, LedgerStep, UnwindLeftover
  <2>3. CASE mitigation[i] # m
    <3>1. LateUnwind(i, r, m)
      BY <1>2, <2>1, <2>3 DEF AfterDelete, LateUnwind
    <3> QED BY <1>1, <3>1 DEF LedgerStep
  <2> QED BY <2>2, <2>3
<1> QED BY <1>3, <1>4

(* Every step of the handlers is a step of the ledger or leaves the rows alone. *)
LEMMA NextRefines == IInv /\ [Next]_vars => [LedgerNext]_rows
<1> SUFFICES ASSUME IInv, [Next]_vars PROVE LedgerNext \/ UNCHANGED rows
  OBVIOUS
<1>1. CASE UNCHANGED vars \/ Quiescent
  BY <1>1 DEF vars, rows, Quiescent
<1>2. ASSUME NEW i \in Incidents, CreateIncident(i) PROVE LedgerNext
  BY <1>2 DEF CreateIncident, Open, LedgerNext
<1>3. ASSUME NEW r \in Requests, RequestStep(r) \/ Fail(r) PROVE LedgerNext \/ UNCHANGED rows
  <2>1. CASE PatchCommits(r) \/ ResolveCommits(r) \/ MitigateCommits(r)
    BY <2>1, CommitRefines DEF LedgerNext
  <2>2. CASE ClearCommits(r) \/ ClearDeletesOnly(r)
    BY <2>2, ClearRefines DEF LedgerNext
  <2>3. CASE Fail(r) \/ Answer(r) \/ UpdateWins(r) \/ UpdateLoses(r) \/ MitigateInserts(r)
    BY <2>3 DEF Fail, Answer, UpdateWins, UpdateLoses, MitigateInserts
  <2>4. CASE ResolveReadsMitigation(r) \/ MitigateReadsMitigation(r) \/ ClearReadsIncident(r)
    BY <2>4 DEF ResolveReadsMitigation, MitigateReadsMitigation, ClearReadsIncident
  <2>5. ASSUME NEW i \in Incidents, NEW v \in ClientVersions, PatchBegins(r, i, v)
        PROVE  UNCHANGED rows
    BY <2>5 DEF PatchBegins
  <2>6. ASSUME NEW i \in Incidents,
               \/ ResolveReadsIncident(r, i)
               \/ MitigateReadsIncident(r, i)
               \/ ClearReadsMitigation(r, i)
        PROVE  UNCHANGED rows
    BY <2>6 DEF ResolveReadsIncident, MitigateReadsIncident, ClearReadsMitigation
  <2> QED BY <1>3, <2>1, <2>2, <2>3, <2>4, <2>5, <2>6 DEF RequestStep
<1> QED BY <1>1, <1>2, <1>3 DEF Next

(* The handlers, interleaved statement by statement, do to the committed   *)
(* rows only what IncidentLedger allows in one step: in particular a       *)
(* commit and its audit entry are never apart, and a clear goes wrong only *)
(* in the ways LateUnwind and UnwindLeftover name.                         *)
THEOREM ImplementsLedger == Spec => LedgerSpec
<1>1. Init => RowsInit
  BY DEF Init
<1> QED BY <1>1, Invariance, NextRefines, PTL DEF Spec, LedgerSpec

(* No step of the ledger leaves RESOLVED or enters it twice.               *)
LEMMA LedgerStepKeepsResolved ==
  ASSUME RowsOK, NEW i \in Incidents, status[i] = "resolved",
         LedgerNext \/ UNCHANGED rows
  PROVE  ResolvedStays(i)
<1>1. ASSUME NEW j \in Incidents, NEW s, NEW v, NEW m, NEW act, NEW by, NEW ent,
             Write(j, s, v, m, act, by, ent),
             j = i => s = "resolved" /\ act \in {"INCIDENT_UPDATED", "MITIGATION_DELETED"}
      PROVE  ResolvedStays(i)
  <2>1. status'[i] = "resolved"
    BY <1>1 DEF Write, RowsOK
  <2>2. CASE j # i
    <3>1. audit'[i] = audit[i]
      BY <1>1, <2>2 DEF Write, RowsOK
    <3> QED BY <2>1, <3>1 DEF ResolvedStays
  <2>3. CASE j = i
    <3> DEFINE e == [action |-> act, by |-> by, entity |-> ent]
    <3>1. audit[i] \in Seq(Entry) /\ audit[i] \in Seq(Entry \cup {e})
      BY DEF RowsOK
    <3>2. audit'[i] = Append(audit[i], e)
      BY <1>1, <2>3 DEF Write, RowsOK
    <3>3. /\ DOMAIN Append(audit[i], e) = DOMAIN audit[i] \cup {Len(audit[i]) + 1}
          /\ Append(audit[i], e)[Len(audit[i]) + 1] = e
      BY <3>1, AppendFacts
    <3>4. e.action \in {"INCIDENT_UPDATED", "MITIGATION_DELETED"}
      BY <1>1, <2>3
    <3> QED BY <2>1, <3>2, <3>3, <3>4 DEF ResolvedStays
  <2> QED BY <2>2, <2>3
<1>2. CASE UNCHANGED rows
  BY <1>2 DEF rows, ResolvedStays
<1>3. ASSUME NEW j \in Incidents, Open(j) PROVE ResolvedStays(i)
  BY <1>1, <1>3 DEF Open
<1>4. ASSUME NEW j \in Incidents, NEW r \in Requests, LedgerStep(j, r) PROVE ResolvedStays(i)
  <2>1. CASE Edit(j, r)
    BY <1>1, <2>1 DEF Edit
  <2>2. CASE Resolve(j, r) \/ Mitigate(j, r) \/ Unwind(j, r) \/ UnwindLeftover(j, r)
    BY <1>1, <2>2 DEF Resolve, Mitigate, Unwind, UnwindLeftover
  <2>3. CASE \E m \in Requests : LateUnwind(j, r, m)
    BY <1>1, <2>3 DEF LateUnwind
  <2> QED BY <1>4, <2>1, <2>2, <2>3 DEF LedgerStep
<1> QED BY <1>2, <1>3, <1>4 DEF LedgerNext

(* RESOLVED is final: no clear, edit or resolve already under way undoes   *)
(* it or resolves the incident again.                                      *)
THEOREM ResolvedForever == Spec => ResolvedIsFinal
<1>1. IInv /\ [Next]_vars => [\A i \in Incidents : ResolvedStays(i)]_vars
  <2> SUFFICES ASSUME IInv, [Next]_vars, NEW i \in Incidents PROVE ResolvedStays(i)
    OBVIOUS
  <2>1. RowsOK /\ (LedgerNext \/ UNCHANGED rows)
    BY NextRefines DEF IInv, TypeOK
  <2> QED BY <2>1, LedgerStepKeepsResolved DEF ResolvedStays
<1> QED BY <1>1, Invariance, PTL DEF Spec, ResolvedIsFinal

---------------------------------------------------------------------------
(* The timelines *)

(* What a Write adds to the timeline of its incident, and to no other.     *)
LEMMA WriteLogs ==
  ASSUME RowsOK, NEW i \in Incidents, NEW s, NEW v, NEW m, NEW act, NEW by, NEW ent,
         Write(i, s, v, m, act, by, ent),
         [action |-> act, by |-> by, entity |-> ent] \in Entry
  PROVE  /\ \A j \in Incidents \ {i} : audit'[j] = audit[j] /\ mitigation'[j] = mitigation[j]
         /\ mitigation'[i] = m
         /\ \A a, x : Logged(audit'[i], a, x) <=> Logged(audit[i], a, x) \/ (a = act /\ x = ent)
         /\ \A q : WroteTo(audit'[i], q) <=> WroteTo(audit[i], q) \/ q = by
         /\ audit'[i] = Append(audit[i], [action |-> act, by |-> by, entity |-> ent])
         /\ audit[i] \in Seq(Entry)
<1> DEFINE e == [action |-> act, by |-> by, entity |-> ent]
<1>1. audit \in [Incidents -> Seq(Entry)] /\ audit[i] \in Seq(Entry)
  BY DEF RowsOK
<1>2. /\ DOMAIN Append(audit[i], e) = DOMAIN audit[i] \cup {Len(audit[i]) + 1}
      /\ \A k \in DOMAIN audit[i] : Append(audit[i], e)[k] = audit[i][k]
      /\ Append(audit[i], e)[Len(audit[i]) + 1] = e
  BY <1>1, AppendFacts
<1>3. /\ audit'[i] = Append(audit[i], e)
      /\ \A j \in Incidents \ {i} : audit'[j] = audit[j]
  BY <1>1 DEF Write
<1>4. mitigation'[i] = m /\ \A j \in Incidents \ {i} : mitigation'[j] = mitigation[j]
  BY DEF Write, RowsOK
<1>5. e.action = act /\ e.by = by /\ e.entity = ent
  OBVIOUS
<1> HIDE DEF e
<1>6. \A a, x : Logged(audit'[i], a, x) <=> Logged(audit[i], a, x) \/ (a = act /\ x = ent)
  BY <1>2, <1>3, <1>5 DEF Logged
<1>7. \A q : WroteTo(audit'[i], q) <=> WroteTo(audit[i], q) \/ q = by
  BY <1>2, <1>3, <1>5 DEF WroteTo
<1> QED BY <1>1, <1>3, <1>4, <1>6, <1>7 DEF e

(* What a Write must respect to keep the timelines in order: a mitigation  *)
(* row comes and goes only with its entry, a creation is the first entry   *)
(* about its mitigation, and only what was created is deleted.             *)
LEMMA WriteKeepsTimelines ==
  ASSUME RowsOK, TimelineOK, RowUntilDeletionLogged,
         NEW i \in Incidents, NEW s, NEW v, NEW m, NEW act, NEW by, NEW ent,
         Write(i, s, v, m, act, by, ent),
         [action |-> act, by |-> by, entity |-> ent] \in Entry,
         by \in Requests => ~WroteTo(audit[i], by),
         m \in Requests /\ m # mitigation[i] => act = "MITIGATION_CREATED" /\ ent = m,
         mitigation[i] \in Requests /\ m # mitigation[i]
           => act = "MITIGATION_DELETED" /\ ent = mitigation[i],
         act = "MITIGATION_CREATED"
           => by = ent /\ m = ent /\ ~Logged(audit[i], "MITIGATION_DELETED", ent),
         act = "MITIGATION_DELETED"
           => m # ent /\ Logged(audit[i], "MITIGATION_CREATED", ent)
  PROVE  TimelineOK' /\ RowUntilDeletionLogged'
<1> DEFINE e == [action |-> act, by |-> by, entity |-> ent]
           log == audit[i]
<1>1. /\ \A j \in Incidents \ {i} : audit'[j] = audit[j] /\ mitigation'[j] = mitigation[j]
      /\ mitigation'[i] = m
      /\ \A a, x : Logged(audit'[i], a, x) <=> Logged(log, a, x) \/ (a = act /\ x = ent)
      /\ audit'[i] = Append(log, e)
      /\ log \in Seq(Entry)
  BY WriteLogs
<1>2. /\ DOMAIN audit'[i] = DOMAIN log \cup {Len(log) + 1}
      /\ \A k \in DOMAIN log : audit'[i][k] = log[k]
      /\ audit'[i][Len(log) + 1] = e
  BY <1>1, AppendFacts
<1>3. e.action = act /\ e.by = by /\ e.entity = ent
  OBVIOUS
<1> HIDE DEF e
<1>4. ASSUME NEW x \in Requests, mitigation'[i] = x \/ Logged(audit'[i], "MITIGATION_DELETED", x)
      PROVE  Logged(audit'[i], "MITIGATION_CREATED", x)
  BY <1>1, <1>4 DEF TimelineOK
<1>5. ASSUME NEW k \in DOMAIN audit'[i], audit'[i][k].action = "MITIGATION_CREATED"
      PROVE  audit'[i][k].by = audit'[i][k].entity
  BY <1>2, <1>3, <1>5 DEF TimelineOK
<1>6. ASSUME NEW j \in DOMAIN audit'[i], NEW k \in DOMAIN audit'[i],
             audit'[i][j].by = audit'[i][k].by, audit'[i][j].by \in Requests
      PROVE  j = k
  <2>1. CASE j \in DOMAIN log /\ k \in DOMAIN log
    BY <1>2, <1>6, <2>1 DEF TimelineOK
  <2>2. ASSUME NEW l \in DOMAIN log, log[l].by = by, by \in Requests PROVE FALSE
    BY <2>2 DEF WroteTo
  <2> QED BY <1>2, <1>3, <1>6, <2>1, <2>2
<1>7. ASSUME NEW x \in Requests, Logged(audit'[i], "MITIGATION_CREATED", x)
      PROVE  mitigation'[i] = x <=> ~Logged(audit'[i], "MITIGATION_DELETED", x)
  <2>1. CASE act = "MITIGATION_CREATED" /\ ent = x
    BY <1>1, <2>1
  <2>2. CASE ~(act = "MITIGATION_CREATED" /\ ent = x)
    <3>1. mitigation[i] = x <=> ~Logged(log, "MITIGATION_DELETED", x)
      BY <1>1, <1>7, <2>2 DEF RowUntilDeletionLogged
    <3> QED BY <1>1, <2>2, <3>1
  <2> QED BY <2>1, <2>2
<1>8. TimelineOK'
  <2> DEFINE Orderly(j) ==
        /\ \A x \in Requests :
             mitigation[j] = x \/ Logged(audit[j], "MITIGATION_DELETED", x)
               => Logged(audit[j], "MITIGATION_CREATED", x)
        /\ \A k \in DOMAIN audit[j] :
             audit[j][k].action = "MITIGATION_CREATED" => audit[j][k].by = audit[j][k].entity
        /\ \A k, l \in DOMAIN audit[j] :
             audit[j][k].by = audit[j][l].by /\ audit[j][k].by \in Requests => k = l
  <2>1. ASSUME NEW j \in Incidents \ {i} PROVE Orderly(j)'
    BY <1>1 DEF TimelineOK
  <2>2. Orderly(i)'
    BY <1>4, <1>5, <1>6
  <2> QED BY <2>1, <2>2 DEF TimelineOK
<1>9. RowUntilDeletionLogged'
  BY <1>1, <1>7 DEF RowUntilDeletionLogged
<1> QED BY <1>8, <1>9

(* Every step of the ledger respects it.                                   *)
LEMMA LedgerStepKeepsTimelines ==
  ASSUME IInv, TimelineOK, RowUntilDeletionLogged,
         NEW i \in Incidents, NEW r \in Requests, LedgerStep(i, r)
  PROVE  TimelineOK' /\ RowUntilDeletionLogged'
<1>1. RowsOK /\ ~WroteTo(audit[i], r) /\ mitigation[i] \in Requests \cup {None}
  BY DEF IInv, TypeOK, RowsOK, LedgerStep
<1>2. ASSUME NEW x \in Requests \cup Incidents
      PROVE  /\ [action |-> "INCIDENT_UPDATED", by |-> r, entity |-> x] \in Entry
             /\ [action |-> "INCIDENT_RESOLVED", by |-> r, entity |-> x] \in Entry
             /\ [action |-> "MITIGATION_CREATED", by |-> r, entity |-> x] \in Entry
             /\ [action |-> "MITIGATION_DELETED", by |-> r, entity |-> x] \in Entry
  BY DEF Entry
<1>3. CASE Edit(i, r)
  <2>1. Write(i, status[i], version[i] + 1, mitigation[i], "INCIDENT_UPDATED", r, i)
    BY <1>3 DEF Edit
  <2> QED BY <1>1, <1>2, <2>1, WriteKeepsTimelines
<1>4. CASE Resolve(i, r)
  <2>1. /\ Write(i, "resolved", version[i] + 1, None, "INCIDENT_RESOLVED", r, i)
        /\ mitigation[i] = None
    BY <1>4 DEF Resolve
  <2> QED BY <1>1, <1>2, <2>1, NamesAreDistinct, WriteKeepsTimelines
<1>5. CASE Mitigate(i, r)
  <2>1. /\ Write(i, "mitigated", version[i] + 1, r, "MITIGATION_CREATED", r, r)
        /\ mitigation[i] = None
    BY <1>5 DEF Mitigate
  <2>2. ~Logged(audit[i], "MITIGATION_DELETED", r)
    <3>1. ASSUME Logged(audit[i], "MITIGATION_CREATED", r) PROVE WroteTo(audit[i], r)
      BY <3>1 DEF Logged, WroteTo, TimelineOK
    <3> QED BY <1>1, <3>1 DEF TimelineOK
  <2> QED BY <1>1, <1>2, <2>1, <2>2, NamesAreDistinct, WriteKeepsTimelines
<1>6. ASSUME NEW s, NEW v, mitigation[i] # None,
             Write(i, s, v, None, "MITIGATION_DELETED", r, mitigation[i])
      PROVE  TimelineOK' /\ RowUntilDeletionLogged'
  <2>1. mitigation[i] \in Requests /\ Logged(audit[i], "MITIGATION_CREATED", mitigation[i])
    BY <1>1, <1>6 DEF TimelineOK
  <2> QED BY <1>1, <1>2, <1>6, <2>1, NamesAreDistinct, WriteKeepsTimelines
<1>7. CASE Unwind(i, r) \/ UnwindLeftover(i, r)
  BY <1>6, <1>7 DEF Unwind, UnwindLeftover, IInv, MitigatedHasMitigation
<1>8. ASSUME NEW m \in Requests, LateUnwind(i, r, m)
      PROVE  TimelineOK' /\ RowUntilDeletionLogged'
  <2>1. m # mitigation[i] /\ Logged(audit[i], "MITIGATION_CREATED", m)
    BY <1>8 DEF LateUnwind, TimelineOK
  <2>2. PICK s, v : Write(i, s, v, mitigation[i], "MITIGATION_DELETED", r, m)
    BY <1>8 DEF LateUnwind
  <2> QED BY <1>1, <1>2, <2>1, <2>2, WriteKeepsTimelines
<1> QED BY <1>3, <1>4, <1>5, <1>7, <1>8 DEF LedgerStep

(* So does the creation of an incident, and a step that writes no row.     *)
LEMMA TimelinesKept ==
  ASSUME IInv, TimelineOK, RowUntilDeletionLogged, LedgerNext \/ UNCHANGED rows
  PROVE  TimelineOK' /\ RowUntilDeletionLogged'
<1>1. CASE UNCHANGED rows
  BY <1>1 DEF rows, TimelineOK, RowUntilDeletionLogged
<1>2. ASSUME NEW i \in Incidents, Open(i) PROVE TimelineOK' /\ RowUntilDeletionLogged'
  <2>1. RowsOK /\ mitigation[i] = None /\ i \notin Requests
    BY <1>2, NamesAreDistinct DEF IInv, TypeOK, HistoryOK, Open
  <2>2. Write(i, "open", 1, None, "INCIDENT_CREATED", i, i)
    BY <1>2 DEF Open
  <2>3. [action |-> "INCIDENT_CREATED", by |-> i, entity |-> i] \in Entry
    BY DEF Entry
  <2> QED BY <2>1, <2>2, <2>3, NamesAreDistinct, WriteKeepsTimelines
<1> QED BY <1>1, <1>2, LedgerStepKeepsTimelines DEF LedgerNext

(* A commit by r leaves r's entry on the timeline of its own incident, a   *)
(* create_mitigation one that says so.                                     *)
LEMMA CommitKeepsWriters ==
  ASSUME LogInv, NEW r \in Requests, NEW i \in Incidents,
         NEW s, NEW v, NEW m, NEW act, NEW ent,
         pc[r] \in {"held", "delete"}, target[r] = i, pc'[r] = "committed",
         \A q \in Requests \ {r} : pc'[q] = pc[q],
         op' = op, target' = target, Write(i, s, v, m, act, r, ent),
         [action |-> act, by |-> r, entity |-> ent] \in Entry,
         op[r] = "mitigate" => act = "MITIGATION_CREATED" /\ ent = r
  PROVE  ErrorOnlyIfCleared' /\ \A q \in Requests : WriterOK(q)'
<1>1. RowsOK
  BY DEF LogInv, IInv, TypeOK
<1>2. /\ \A j \in Incidents \ {i} : audit'[j] = audit[j]
      /\ \A a, x : Logged(audit'[i], a, x)
                     <=> Logged(audit[i], a, x) \/ (a = act /\ x = ent)
      /\ \A q : WroteTo(audit'[i], q) <=> WroteTo(audit[i], q) \/ q = r
  BY <1>1, WriteLogs, Z3T(30)
<1>3. /\ \A j \in Incidents : \A a, x : Logged(audit[j], a, x) => Logged(audit'[j], a, x)
      /\ \A j \in Incidents : \A q : WroteTo(audit[j], q) => WroteTo(audit'[j], q)
      /\ \A j \in Incidents : \A q : WroteTo(audit'[j], q) =>
           WroteTo(audit[j], q) \/ (q = r /\ j = i)
  BY <1>2
<1>4. ASSUME NEW q \in Requests PROVE WriterOK(q)'
  <2>1. WriterOK(q)
    BY DEF LogInv
  <2>2. CASE q = r
    BY <1>1, <1>2, <1>3, <2>1, <2>2 DEF WriterOK, Committed
  <2>3. CASE q # r
    BY <1>1, <1>3, <2>1, <2>3 DEF WriterOK, Committed
  <2> QED BY <2>2, <2>3
<1>5. ErrorOnlyIfCleared'
  <2> SUFFICES ASSUME NEW q \in Requests, pc[q] = "error", q # r
               PROVE  Logged(audit'[target[q]], "MITIGATION_DELETED", q)
    BY <1>1 DEF ErrorOnlyIfCleared
  <2>1. target[q] \in Incidents /\ Logged(audit[target[q]], "MITIGATION_DELETED", q)
    BY DEF LogInv, ErrorOnlyIfCleared, WriterOK, Committed
  <2> QED BY <1>3, <2>1
<1> QED BY <1>4, <1>5

(* What a step of r that writes no row owes its own entry: to aim only an  *)
(* idle request, to be committed only after a commit, to forget no commit, *)
(* and to answer 500 only after a logged deletion.                         *)
LEMMA LocalStepKeepsWriters ==
  ASSUME LogInv, NEW r \in Requests, UNCHANGED rows,
         \A q \in Requests \ {r} : pc'[q] = pc[q] /\ op'[q] = op[q] /\ target'[q] = target[q],
         pc[r] = "idle" \/ (target'[r] = target[r] /\ op'[r] = op[r]),
         Committed(r)' => Committed(r) /\ pc'[r] # "committed",
         Committed(r) \/ pc[r] = "lost" => Committed(r)' \/ pc'[r] = "lost",
         pc'[r] = "error" => Logged(audit[target'[r]], "MITIGATION_DELETED", r)
  PROVE  ErrorOnlyIfCleared' /\ \A q \in Requests : WriterOK(q)'
<1>1. audit' = audit
  BY DEF rows
<1>2. ASSUME NEW q \in Requests PROVE WriterOK(q)'
  <2>1. WriterOK(q)
    BY DEF LogInv
  <2>2. CASE q = r
    <3>1. pc[r] = "idle" => \A i \in Incidents : ~WroteTo(audit[i], r)
      BY DEF LogInv, IInv, HistoryOK
    <3>2. pc[r] = "idle" => ~Committed(r)
      BY DEF Committed
    <3>3. CASE pc[r] = "idle"
      BY <1>1, <2>2, <3>1, <3>2, <3>3 DEF WriterOK, Committed
    <3>4. CASE pc[r] # "idle"
      BY <1>1, <2>1, <2>2, <3>4 DEF WriterOK, Committed
    <3> QED BY <3>3, <3>4
  <2>3. CASE q # r
    BY <1>1, <2>1, <2>3 DEF WriterOK, Committed
  <2> QED BY <2>2, <2>3
<1>3. ErrorOnlyIfCleared'
  BY <1>1 DEF LogInv, ErrorOnlyIfCleared
<1> QED BY <1>2, <1>3

(* A committed create_mitigation that finds its row gone is answered 500:  *)
(* its creation is logged, so the deletion is too.                         *)
LEMMA AnswerKeepsWriters ==
  ASSUME LogInv, NEW r \in Requests, Answer(r)
  PROVE  ErrorOnlyIfCleared' /\ \A q \in Requests : WriterOK(q)'
<1>1. /\ UNCHANGED rows /\ op' = op /\ target' = target /\ pc[r] = "committed"
      /\ \A q \in Requests \ {r} : pc'[q] = pc[q]
      /\ pc'[r] = IF op[r] = "mitigate" /\ mitigation[target[r]] # r THEN "error" ELSE "ok"
  BY DEF Answer, Go, local, LogInv, IInv, TypeOK
<1>2. ASSUME pc'[r] = "error" PROVE Logged(audit[target[r]], "MITIGATION_DELETED", r)
  <2>1. op[r] = "mitigate" /\ mitigation[target[r]] # r
    BY <1>1, <1>2
  <2>2. target[r] \in Incidents /\ Logged(audit[target[r]], "MITIGATION_CREATED", r)
    BY <1>1, <2>1 DEF LogInv, WriterOK, Committed
  <2> QED BY <2>1, <2>2 DEF LogInv, RowUntilDeletionLogged
<1>3. Committed(r) /\ Committed(r)' /\ pc'[r] # "committed"
  BY <1>1 DEF Committed
<1> QED BY <1>1, <1>2, <1>3, LocalStepKeepsWriters

(* Every step keeps every request's entry where it belongs.                *)
LEMMA WritersKept ==
  ASSUME LogInv, Next
  PROVE  ErrorOnlyIfCleared' /\ \A q \in Requests : WriterOK(q)'
<1> DEFINE Kept == ErrorOnlyIfCleared' /\ \A q \in Requests : WriterOK(q)'
<1>t. TypeOK /\ IInv
  BY DEF LogInv, IInv
<1>1. CASE Quiescent
  BY <1>1 DEF Quiescent, vars, LogInv, ErrorOnlyIfCleared, WriterOK, Committed
<1>2. ASSUME NEW i \in Incidents, CreateIncident(i) PROVE Kept
  <2>1. RowsOK /\ i \notin Requests /\ [action |-> "INCIDENT_CREATED", by |-> i, entity |-> i] \in Entry
    BY <1>t, NamesAreDistinct DEF TypeOK, Entry
  <2>2. Write(i, "open", 1, None, "INCIDENT_CREATED", i, i) /\ pc' = pc /\ op' = op /\ target' = target
    BY <1>2 DEF CreateIncident, local
  <2>3. /\ \A j \in Incidents \ {i} : audit'[j] = audit[j]
        /\ \A a, x : Logged(audit[i], a, x) => Logged(audit'[i], a, x)
        /\ \A q : WroteTo(audit'[i], q) <=> WroteTo(audit[i], q) \/ q = i
    BY <2>1, <2>2, WriteLogs, ZenonT(40)
  <2>4. /\ \A j \in Incidents : \A a, x : Logged(audit[j], a, x) => Logged(audit'[j], a, x)
        /\ \A j \in Incidents, q \in Requests : WroteTo(audit'[j], q) <=> WroteTo(audit[j], q)
    BY <2>1, <2>3
  <2>5. ASSUME NEW q \in Requests PROVE WriterOK(q)'
    BY <2>2, <2>4 DEF LogInv, WriterOK, Committed
  <2>6. ErrorOnlyIfCleared'
    BY <2>2, <2>4 DEF LogInv, ErrorOnlyIfCleared, WriterOK, Committed
  <2> QED BY <2>5, <2>6
<1>3. ASSUME NEW r \in Requests, NEW s, NEW m, NEW act, NEW ent, CommitHeld(r, s, m, act, ent),
             ent \in Requests \cup Incidents,
             act \in {"INCIDENT_UPDATED", "INCIDENT_RESOLVED", "MITIGATION_CREATED", "MITIGATION_DELETED"},
             op[r] = "mitigate" => act = "MITIGATION_CREATED" /\ ent = r
      PROVE  Kept
  <2>1. [action |-> act, by |-> r, entity |-> ent] \in Entry
    BY <1>3 DEF Entry
  <2>4. PICK i \in Incidents : target[r] = i
    BY <1>3, <1>t DEF CommitHeld, IInv, ControlOK
  <2>2. PICK v : Write(i, s, v, m, act, r, ent)
    BY <1>3, <2>4 DEF CommitHeld
  <2>3. /\ pc[r] \in {"held", "delete"}
        /\ pc'[r] = "committed" /\ \A q \in Requests \ {r} : pc'[q] = pc[q]
        /\ op' = op /\ target' = target
    BY <1>3, <1>t DEF TypeOK, CommitHeld, Go, local
  <2> QED BY <1>3, <2>1, <2>2, <2>3, <2>4, CommitKeepsWriters
<1>4. ASSUME NEW r \in Requests,
             PatchCommits(r) \/ ResolveCommits(r) \/ MitigateCommits(r)
      PROVE  Kept
  <2>1. target[r] \in Incidents
    BY <1>4, <1>t DEF PatchCommits, ResolveCommits, MitigateCommits, CommitHeld, IInv, ControlOK
  <2>2. CASE PatchCommits(r)
    <3>1. /\ CommitHeld(r, status[target[r]], mitigation[target[r]], "INCIDENT_UPDATED", target[r])
          /\ op[r] = "patch"
      BY <2>2 DEF PatchCommits
    <3> QED BY <1>3, <2>1, <3>1
  <2>3. CASE ResolveCommits(r)
    <3>1. /\ CommitHeld(r, "resolved", mitigation[target[r]], "INCIDENT_RESOLVED", target[r])
          /\ op[r] = "resolve"
      BY <2>3 DEF ResolveCommits
    <3> QED BY <1>3, <2>1, <3>1
  <2>4. CASE MitigateCommits(r)
    <3>1. CommitHeld(r, "mitigated", r, "MITIGATION_CREATED", r)
      BY <2>4 DEF MitigateCommits
    <3> QED BY <1>3, <3>1
  <2> QED BY <1>4, <2>2, <2>3, <2>4
<1>5. ASSUME NEW r \in Requests, ClearCommits(r) PROVE Kept
  <2>1. /\ CommitHeld(r, "open", AfterDelete(r), "MITIGATION_DELETED", seenMitigation[r])
        /\ op[r] = "clear" /\ pc[r] = "held"
    BY <1>5 DEF ClearCommits, CommitHeld
  <2>2. seenMitigation[r] \in Requests
    BY <2>1, <1>t DEF IInv, ControlOK, Steps, TypeOK
  <2> QED BY <1>3, <2>1, <2>2
<1>6. ASSUME NEW r \in Requests, ClearDeletesOnly(r) PROVE Kept
  <2>1. pc[r] = "delete" /\ op[r] = "clear" /\ target[r] \in Incidents /\ seenMitigation[r] \in Requests
    BY <1>6, <1>t DEF ClearDeletesOnly, IInv, ControlOK, Steps, TypeOK
  <2>5. PICK i \in Incidents : target[r] = i
    BY <2>1
  <2>2. PICK s, v, m, ent :
          ent = seenMitigation[r] /\ Write(i, s, v, m, "MITIGATION_DELETED", r, ent)
    BY <1>6, <2>5 DEF ClearDeletesOnly
  <2>4. /\ pc'[r] = "committed" /\ \A q \in Requests \ {r} : pc'[q] = pc[q]
        /\ op' = op /\ target' = target
    BY <1>6, <1>t DEF TypeOK, ClearDeletesOnly, Go, local
  <2>3. [action |-> "MITIGATION_DELETED", by |-> r, entity |-> ent] \in Entry
    BY <2>1, <2>2 DEF Entry
  <2> QED BY <2>1, <2>2, <2>3, <2>4, <2>5, CommitKeepsWriters
<1>7. ASSUME NEW r \in Requests, NEW i \in Incidents, NEW o, NEW step, Begin(r, o, i, step),
             UNCHANGED rows, step \in {"update", "readMitigation", "readIncident", "refused"}
      PROVE  Kept
  <2>1. /\ pc[r] = "idle" /\ pc'[r] = step
        /\ \A q \in Requests \ {r} : pc'[q] = pc[q] /\ op'[q] = op[q] /\ target'[q] = target[q]
    BY <1>7, <1>t DEF Begin, Go, TypeOK
  <2> QED BY <1>7, <2>1, LocalStepKeepsWriters DEF Committed
<1>8. ASSUME NEW r \in Requests, NEW step, Go(r, step), UNCHANGED rows, op' = op, target' = target,
             pc[r] \in Steps, step \in (Steps \ {"committed"}) \cup {"refused", "lost"},
             pc[r] = "committed" => step = "lost"
      PROVE  Kept
  <2>1. pc'[r] = step /\ \A q \in Requests \ {r} : pc'[q] = pc[q] /\ op'[q] = op[q] /\ target'[q] = target[q]
    BY <1>8, <1>t DEF Go, TypeOK
  <2> QED BY <1>8, <2>1, LocalStepKeepsWriters DEF Committed, Steps
<1>9. ASSUME NEW r \in Requests, NEW i \in Incidents, NEW v \in ClientVersions, PatchBegins(r, i, v)
      PROVE  Kept
  BY <1>7, <1>9 DEF PatchBegins
<1>10. ASSUME NEW r \in Requests, NEW i \in Incidents,
              \/ ResolveReadsIncident(r, i)
              \/ MitigateReadsIncident(r, i)
              \/ ClearReadsMitigation(r, i)
       PROVE  Kept
  BY <1>7, <1>10 DEF ResolveReadsIncident, MitigateReadsIncident, ClearReadsMitigation
<1>11. ASSUME NEW r \in Requests,
              \/ ResolveReadsMitigation(r) \/ MitigateReadsMitigation(r) \/ MitigateInserts(r)
              \/ UpdateWins(r) \/ UpdateLoses(r) \/ Fail(r)
       PROVE  Kept
  <2> USE <1>11, <1>8 DEF local, Steps
  <2>1. CASE ResolveReadsMitigation(r) \/ MitigateReadsMitigation(r)
    BY <2>1 DEF ResolveReadsMitigation, MitigateReadsMitigation
  <2>2. CASE MitigateInserts(r)
    BY <2>2 DEF MitigateInserts
  <2>3. CASE UpdateWins(r) \/ UpdateLoses(r) \/ Fail(r)
    BY <2>3 DEF UpdateWins, UpdateLoses, Fail
  <2> QED BY <2>1, <2>2, <2>3
<1>12. ASSUME NEW r \in Requests, ClearReadsIncident(r) PROVE Kept
  <2>1. pc[r] = "readIncident" /\ op' = op /\ target' = target /\ UNCHANGED rows
    BY <1>12 DEF ClearReadsIncident
  <2>2. Go(r, "update") \/ Go(r, "delete")
    BY <1>12 DEF ClearReadsIncident
  <2> QED BY <1>8, <2>1, <2>2 DEF Steps
<1>13. ASSUME NEW r \in Requests, Answer(r) PROVE Kept
  BY <1>13, AnswerKeepsWriters
<1> QED
  BY <1>1, <1>2, <1>4, <1>5, <1>6, <1>9, <1>10, <1>11, <1>12, <1>13 DEF Next, RequestStep

(* The timelines and the requests' entries in them are in order in every   *)
(* reachable state.                                                        *)
THEOREM LogInvariance == Spec => []LogInv
<1>1. Init => LogInv
  <2> SUFFICES ASSUME Init PROVE LogInv
    OBVIOUS
  <2>1. /\ \A r \in Requests : pc[r] = "idle"
        /\ \A i \in Incidents : mitigation[i] = None /\ audit[i] = << >>
    BY DEF Init, RowsInit
  <2>2. TimelineOK /\ RowUntilDeletionLogged
    BY <2>1, NamesAreDistinct DEF TimelineOK, RowUntilDeletionLogged, Logged
  <2>3. ErrorOnlyIfCleared /\ \A r \in Requests : WriterOK(r)
    BY <2>1 DEF ErrorOnlyIfCleared, WriterOK, Committed, WroteTo
  <2> QED BY <2>2, <2>3, InitInv DEF LogInv
<1>2. LogInv /\ [Next]_vars => LogInv'
  <2> SUFFICES ASSUME LogInv, [Next]_vars PROVE LogInv'
    OBVIOUS
  <2>1. IInv' /\ (LedgerNext \/ UNCHANGED rows)
    BY NextInv, NextRefines DEF LogInv
  <2>2. TimelineOK' /\ RowUntilDeletionLogged'
    BY <2>1, TimelinesKept DEF LogInv
  <2>3. ErrorOnlyIfCleared' /\ \A q \in Requests : WriterOK(q)'
    <3>1. CASE UNCHANGED vars
      BY <3>1 DEF vars, LogInv, ErrorOnlyIfCleared, WriterOK, Committed
    <3> QED BY <3>1, WritersKept
  <2> QED BY <2>1, <2>2, <2>3 DEF LogInv
<1> QED BY <1>1, <1>2, PTL DEF Spec

(* The timeline accounts for every mitigation row (mitigations.py): it is  *)
(* there from its logged creation to its first logged deletion.            *)
THEOREM TimelineSound == Spec => []RowUntilDeletionLogged
<1>1. LogInv => RowUntilDeletionLogged
  BY DEF LogInv
<1> QED BY <1>1, LogInvariance, PTL

(* A create_mitigation answered 500 after its commit lost its row to a     *)
(* clear that the timeline shows.                                          *)
THEOREM ErrorExplained == Spec => []ErrorOnlyIfCleared
<1>1. LogInv => ErrorOnlyIfCleared
  BY DEF LogInv
<1> QED BY <1>1, LogInvariance, PTL

(* What a client was answered and what the timeline says agree: one entry  *)
(* for a success, none for a refusal, at most one for a lost request.      *)
THEOREM AnswersLogged == Spec => []AnswerMatchesLog
<1>1. LogInv => AnswerMatchesLog
  <2> SUFFICES ASSUME LogInv, NEW r \in Requests, NEW i \in Incidents
               PROVE  LET n == Cardinality(EntriesBy(r, i)) IN
                      /\ Committed(r) /\ target[r] = i => n = 1
                      /\ pc[r] = "lost" /\ target[r] = i => n \in {0, 1}
                      /\ target[r] # i \/ (~Committed(r) /\ pc[r] # "lost") => n = 0
    BY DEF AnswerMatchesLog
  <2>1. WriterOK(r)
    BY DEF LogInv
  <2>2. ~WroteTo(audit[i], r) => EntriesBy(r, i) = {}
    BY DEF WroteTo, EntriesBy
  <2>3. WroteTo(audit[i], r) => \E k \in DOMAIN audit[i] : EntriesBy(r, i) = {k}
    BY DEF WroteTo, EntriesBy, LogInv, TimelineOK
  <2>4. /\ ~WroteTo(audit[i], r) => Cardinality(EntriesBy(r, i)) = 0
        /\ WroteTo(audit[i], r) => Cardinality(EntriesBy(r, i)) = 1
    BY <2>2, <2>3, FS_EmptySet, FS_Singleton
  <2> QED BY <2>1, <2>4 DEF WriterOK
<1> QED BY <1>1, LogInvariance, PTL

---------------------------------------------------------------------------
(* What the timeline tells of the row *)

\* An incident that is OPEN beside a mitigation is what a second, late clear
\* of an earlier mitigation leaves, and that clear has been logged.
StatusTold(i) ==
  /\ status[i] = "absent" <=> audit[i] = << >>
  /\ status[i] = "resolved" <=> ResolutionLogged(audit[i])
  /\ status[i] = "open" /\ mitigation[i] # None => DeletedTwice(audit[i])

(* One more entry undoes nothing a timeline tells: it resolves only if it  *)
(* is a resolution, and repeats a deletion only if that was logged before. *)
LEMMA AppendTells ==
  ASSUME NEW log \in Seq(Entry), NEW e \in Entry
  PROVE  /\ Append(log, e) # << >>
         /\ ResolutionLogged(Append(log, e))
              <=> ResolutionLogged(log) \/ e.action = "INCIDENT_RESOLVED"
         /\ DeletedTwice(log) => DeletedTwice(Append(log, e))
         /\ e.action = "MITIGATION_DELETED" /\ Logged(log, "MITIGATION_DELETED", e.entity)
              => DeletedTwice(Append(log, e))
<1> DEFINE new == Append(log, e)
<1>1. /\ DOMAIN new = DOMAIN log \cup {Len(log) + 1}
      /\ \A k \in DOMAIN log : new[k] = log[k]
      /\ new[Len(log) + 1] = e
      /\ Len(log) + 1 \notin DOMAIN log
  BY AppendFacts
<1> HIDE DEF new
<1>2. new # << >>
  BY <1>1
<1>3. ResolutionLogged(new) <=> ResolutionLogged(log) \/ e.action = "INCIDENT_RESOLVED"
  BY <1>1 DEF ResolutionLogged
<1>4. DeletedTwice(log) => DeletedTwice(new)
  BY <1>1 DEF DeletedTwice
<1>5. ASSUME e.action = "MITIGATION_DELETED", Logged(log, "MITIGATION_DELETED", e.entity)
      PROVE  DeletedTwice(new)
  <2>1. PICK k \in DOMAIN log : log[k].action = "MITIGATION_DELETED" /\ log[k].entity = e.entity
    BY <1>5 DEF Logged
  <2> QED BY <1>1, <1>5, <2>1 DEF DeletedTwice
<1> QED BY <1>2, <1>3, <1>4, <1>5 DEF new

(* What a Write must respect for the timeline to keep telling the status.  *)
LEMMA WriteTells ==
  ASSUME RowsOK, \A j \in Incidents : StatusTold(j),
         NEW i \in Incidents, NEW s \in Statuses, NEW v, NEW m, NEW act, NEW by, NEW ent,
         Write(i, s, v, m, act, by, ent),
         [action |-> act, by |-> by, entity |-> ent] \in Entry,
         s # "absent",
         s = "resolved" <=> status[i] = "resolved" \/ act = "INCIDENT_RESOLVED",
         s = "open" /\ m # None =>
           \/ status[i] = "open" /\ mitigation[i] # None
           \/ act = "MITIGATION_DELETED" /\ Logged(audit[i], "MITIGATION_DELETED", ent)
  PROVE  \A j \in Incidents : StatusTold(j)'
<1> DEFINE e == [action |-> act, by |-> by, entity |-> ent]
<1>1. /\ \A j \in Incidents \ {i} : audit'[j] = audit[j] /\ mitigation'[j] = mitigation[j]
      /\ mitigation'[i] = m
      /\ audit'[i] = Append(audit[i], e)
      /\ audit[i] \in Seq(Entry)
  BY WriteLogs
<1>2. status'[i] = s /\ \A j \in Incidents \ {i} : status'[j] = status[j]
  BY DEF Write, RowsOK
<1>3. e.action = act /\ e.entity = ent /\ e \in Entry
  OBVIOUS
<1> HIDE DEF e
<1>4. ASSUME NEW j \in Incidents \ {i} PROVE StatusTold(j)'
  BY <1>1, <1>2 DEF StatusTold
<1>5. StatusTold(i)'
  <2>1. StatusTold(i)
    OBVIOUS
  <2> QED BY <1>1, <1>2, <1>3, <2>1, AppendTells DEF StatusTold
<1> QED BY <1>4, <1>5

(* Every step of the ledger respects it.                                   *)
LEMMA LedgerStepTells ==
  ASSUME IInv, TimelineOK, \A j \in Incidents : StatusTold(j),
         LedgerNext \/ UNCHANGED rows
  PROVE  \A j \in Incidents : StatusTold(j)'
<1> DEFINE Told == \A j \in Incidents : StatusTold(j)'
<1>1. RowsOK /\ status \in [Incidents -> Statuses]
  BY DEF IInv, TypeOK, RowsOK
<1>2. CASE UNCHANGED rows
  BY <1>2 DEF rows, StatusTold
<1>3. ASSUME NEW i \in Incidents, Open(i) PROVE Told
  <2>1. [action |-> "INCIDENT_CREATED", by |-> i, entity |-> i] \in Entry
    BY DEF Entry
  <2>2. Write(i, "open", 1, None, "INCIDENT_CREATED", i, i) /\ status[i] = "absent"
    BY <1>3 DEF Open
  <2> QED BY <1>1, <2>1, <2>2, WriteTells DEF Statuses
<1>4. ASSUME NEW i \in Incidents, NEW r \in Requests, LedgerStep(i, r) PROVE Told
  <2>1. mitigation[i] \in Requests \cup {None} /\ status[i] \in Statuses
    BY DEF IInv, TypeOK, RowsOK
  <2>2. ASSUME NEW x \in Requests \cup Incidents
        PROVE  /\ [action |-> "INCIDENT_UPDATED", by |-> r, entity |-> x] \in Entry
               /\ [action |-> "INCIDENT_RESOLVED", by |-> r, entity |-> x] \in Entry
               /\ [action |-> "MITIGATION_CREATED", by |-> r, entity |-> x] \in Entry
               /\ [action |-> "MITIGATION_DELETED", by |-> r, entity |-> x] \in Entry
    BY DEF Entry
  <2>3. {"open", "mitigated", "resolved"} \subseteq Statuses
    BY DEF Statuses
  <2>4. CASE Edit(i, r)
    <3>1. /\ Write(i, status[i], version[i] + 1, mitigation[i], "INCIDENT_UPDATED", r, i)
          /\ status[i] # "absent"
      BY <2>4 DEF Edit
    <3> QED BY <1>1, <2>1, <2>2, <3>1, WriteTells
  <2>5. CASE Resolve(i, r)
    <3>1. Write(i, "resolved", version[i] + 1, None, "INCIDENT_RESOLVED", r, i)
      BY <2>5 DEF Resolve
    <3> QED BY <1>1, <2>2, <2>3, <3>1, WriteTells
  <2>6. CASE Mitigate(i, r)
    <3>1. /\ Write(i, "mitigated", version[i] + 1, r, "MITIGATION_CREATED", r, r)
          /\ status[i] = "open"
      BY <2>6 DEF Mitigate
    <3> QED BY <1>1, <2>2, <2>3, <3>1, WriteTells
  <2>7. CASE Unwind(i, r) \/ UnwindLeftover(i, r)
    <3>1. PICK v : Write(i, "open", v, None, "MITIGATION_DELETED", r, mitigation[i])
      BY <2>7 DEF Unwind, UnwindLeftover
    <3>2. status[i] # "resolved" /\ mitigation[i] \in Requests
      BY <2>1, <2>7 DEF Unwind, UnwindLeftover, IInv, MitigatedHasMitigation
    <3> QED BY <1>1, <2>2, <2>3, <3>1, <3>2, WriteTells
  <2>8. ASSUME NEW m \in Requests, LateUnwind(i, r, m) PROVE Told
    <3>1. /\ Logged(audit[i], "MITIGATION_DELETED", m)
          /\ \/ Write(i, status[i], version[i], mitigation[i], "MITIGATION_DELETED", r, m)
             \/ /\ status[i] = "mitigated"
                /\ Write(i, "open", version[i] + 1, mitigation[i], "MITIGATION_DELETED", r, m)
      BY <2>8 DEF LateUnwind
    <3>2. status[i] # "absent"
      BY <3>1 DEF StatusTold, Logged
    <3>3. CASE Write(i, status[i], version[i], mitigation[i], "MITIGATION_DELETED", r, m)
      BY <1>1, <2>1, <2>2, <3>2, <3>3, WriteTells
    <3>4. CASE /\ status[i] = "mitigated"
               /\ Write(i, "open", version[i] + 1, mitigation[i], "MITIGATION_DELETED", r, m)
      BY <1>1, <2>2, <2>3, <3>1, <3>4, WriteTells
    <3> QED BY <3>1, <3>3, <3>4
  <2> QED BY <1>4, <2>4, <2>5, <2>6, <2>7, <2>8 DEF LedgerStep
<1> QED BY <1>2, <1>3, <1>4 DEF LedgerNext

(* The timeline tells the status of its incident (Incident.status beside   *)
(* audit_logs), and an OPEN incident with a live mitigation shows a        *)
(* deletion that was logged twice.                                         *)
THEOREM TimelineTells == Spec => []TimelineTellsStatus
<1> DEFINE Told == \A i \in Incidents : StatusTold(i)
<1>1. Init => Told
  BY DEF Init, RowsInit, StatusTold, ResolutionLogged
<1>2. LogInv /\ Told /\ [Next]_vars => Told'
  <2> SUFFICES ASSUME LogInv, Told, [Next]_vars PROVE Told'
    OBVIOUS
  <2>1. LedgerNext \/ UNCHANGED rows
    BY NextRefines DEF LogInv
  <2> QED BY <2>1, LedgerStepTells DEF LogInv
<1>3. LogInv /\ Told => TimelineTellsStatus
  <2> SUFFICES ASSUME LogInv, NEW i \in Incidents, StatusTold(i)
               PROVE  /\ status[i] = "absent" <=> audit[i] = << >>
                      /\ status[i] = "resolved" <=> ResolutionLogged(audit[i])
                      /\ status[i] = "mitigated" => \E m \in Requests : Live(audit[i], m)
                      /\ status[i] = "open" =>
                           DeletedTwice(audit[i]) \/ \A m \in Requests : ~Live(audit[i], m)
    BY DEF TimelineTellsStatus
  <2>1. mitigation[i] \in Requests \cup {None}
    BY DEF LogInv, IInv, TypeOK, RowsOK
  <2>2. ASSUME NEW m \in Requests PROVE Live(audit[i], m) <=> mitigation[i] = m
    BY DEF LogInv, TimelineOK, RowUntilDeletionLogged, Live
  <2>3. status[i] = "mitigated" => mitigation[i] # None
    BY DEF LogInv, IInv, MitigatedHasMitigation
  <2> QED BY <2>1, <2>2, <2>3, NamesAreDistinct DEF StatusTold
<1> HIDE DEF Told
<1> QED BY <1>1, <1>2, <1>3, LogInvariance, PTL DEF Spec

---------------------------------------------------------------------------
(* Who superseded a version *)

\* A row that exists has a version, and so has whatever read one.
VersionsKnown ==
  /\ \A i \in Incidents : status[i] # "absent" => version[i] >= 1
  /\ \A r \in Requests :
       op[r] # "patch" /\ pc[r] \in InTransaction => seenVersion[r] >= 1
VersionInv == VersionsAccounted /\ VersionsKnown

(* A request that has committed or is answered keeps its target and the    *)
(* version it expected: what it signed stays attributable to them.         *)
LEMMA WriterSettled ==
  ASSUME TypeOK, [Next]_vars, NEW q \in Requests, pc[q] \in {"committed"} \cup Answers
  PROVE  target'[q] = target[q] /\ seenVersion'[q] = seenVersion[q]
<1>1. CASE UNCHANGED local \/ UNCHANGED vars
  BY <1>1 DEF local, vars
<1>2. ASSUME NEW r \in Requests, pc[r] = "idle" \/ pc[r] = "readIncident",
             target' = target \/ \E i : target' = [target EXCEPT ![r] = i],
             seenVersion' = seenVersion \/ \E v : seenVersion' = [seenVersion EXCEPT ![r] = v]
      PROVE  target'[q] = target[q] /\ seenVersion'[q] = seenVersion[q]
  BY <1>2 DEF TypeOK, Answers
<1>3. ASSUME NEW r \in Requests, RequestStep(r)
      PROVE  target'[q] = target[q] /\ seenVersion'[q] = seenVersion[q]
  <2>1. CASE \E i \in Incidents, v \in ClientVersions : PatchBegins(r, i, v)
    <3>1. /\ pc[r] = "idle" /\ \E i : target' = [target EXCEPT ![r] = i]
          /\ \E v : seenVersion' = [seenVersion EXCEPT ![r] = v]
      BY <2>1 DEF PatchBegins, Begin
    <3> QED BY <1>2, <3>1
  <2>2. CASE \E i \in Incidents : \/ ResolveReadsIncident(r, i)
                                  \/ MitigateReadsIncident(r, i)
                                  \/ ClearReadsMitigation(r, i)
    <3>1. /\ pc[r] = "idle" /\ \E i : target' = [target EXCEPT ![r] = i]
          /\ seenVersion' = seenVersion \/ \E v : seenVersion' = [seenVersion EXCEPT ![r] = v]
      BY <2>2 DEF ResolveReadsIncident, MitigateReadsIncident, ClearReadsMitigation, Begin
    <3> QED BY <1>2, <3>1
  <2>3. CASE ClearReadsIncident(r)
    <3>1. /\ pc[r] = "readIncident" /\ target' = target
          /\ seenVersion' = seenVersion \/ \E v : seenVersion' = [seenVersion EXCEPT ![r] = v]
      BY <2>3 DEF ClearReadsIncident
    <3> QED BY <1>2, <3>1
  <2>4. CASE \/ ResolveReadsMitigation(r) \/ MitigateReadsMitigation(r) \/ MitigateInserts(r)
             \/ UpdateWins(r) \/ UpdateLoses(r) \/ ClearDeletesOnly(r) \/ Answer(r)
    BY <1>1, <2>4 DEF ResolveReadsMitigation, MitigateReadsMitigation, MitigateInserts,
                      UpdateWins, UpdateLoses, ClearDeletesOnly, Answer
  <2>5. CASE PatchCommits(r) \/ ResolveCommits(r) \/ MitigateCommits(r) \/ ClearCommits(r)
    BY <1>1, <2>5 DEF PatchCommits, ResolveCommits, MitigateCommits, ClearCommits, CommitHeld
  <2> QED BY <1>3, <2>1, <2>2, <2>3, <2>4, <2>5 DEF RequestStep
<1>4. ASSUME NEW r \in Requests, Fail(r)
      PROVE  target'[q] = target[q] /\ seenVersion'[q] = seenVersion[q]
  BY <1>1, <1>4 DEF Fail
<1>5. CASE (\E i \in Incidents : CreateIncident(i)) \/ Quiescent
  BY <1>1, <1>5 DEF CreateIncident, Quiescent
<1> QED BY <1>1, <1>3, <1>4, <1>5 DEF Next

(* No step of the ledger takes an entry out of a timeline.                 *)
LEMMA WritersStay ==
  ASSUME RowsOK, LedgerNext \/ UNCHANGED rows,
         NEW i \in Incidents, NEW q, WroteTo(audit[i], q)
  PROVE  WroteTo(audit'[i], q)
<1>1. CASE UNCHANGED rows
  BY <1>1 DEF rows
<1>2. CASE \E j \in Incidents : \E s, v, m, act, by, ent : Write(j, s, v, m, act, by, ent)
  <2>1. PICK j \in Incidents : \E e : audit' = [audit EXCEPT ![j] = Append(@, e)]
    BY <1>2 DEF Write
  <2>2. PICK e : audit' = [audit EXCEPT ![j] = Append(@, e)]
    BY <2>1
  <2>3. audit \in [Incidents -> Seq(Entry)] /\ audit[i] \in Seq(Entry \cup {e})
    BY DEF RowsOK
  <2>4. audit'[i] = IF i = j THEN Append(audit[i], e) ELSE audit[i]
    BY <2>2, <2>3
  <2>5. /\ DOMAIN Append(audit[i], e) = DOMAIN audit[i] \cup {Len(audit[i]) + 1}
        /\ \A k \in DOMAIN audit[i] : Append(audit[i], e)[k] = audit[i][k]
    BY <2>3, AppendFacts
  <2> QED BY <2>4, <2>5 DEF WroteTo
<1>3. ASSUME NEW j \in Incidents, Open(j)
      PROVE  \E s, v, m, act, by, ent : Write(j, s, v, m, act, by, ent)
  BY <1>3 DEF Open
<1>4. ASSUME NEW j \in Incidents, NEW r \in Requests, LedgerStep(j, r)
      PROVE  \E s, v, m, act, by, ent : Write(j, s, v, m, act, by, ent)
  BY <1>4 DEF LedgerStep, Edit, Resolve, Mitigate, Unwind, UnwindLeftover, LateUnwind
<1> QED BY <1>1, <1>2, <1>3, <1>4 DEF LedgerNext

(* A commit that held the row supersedes exactly the version it expected.  *)
LEMMA CommitSupersedes ==
  ASSUME LogInv, LogInv', NEW r \in Requests, NEW s, NEW m, NEW act, NEW ent,
         CommitHeld(r, s, m, act, ent), NEW i \in Incidents, NEW v, v = version[i], version'[i] # v
  PROVE  version'[i] = v + 1 /\ Superseded(i, v)'
<1>1. /\ pc' = [pc EXCEPT ![r] = "committed"]
      /\ target' = target /\ seenVersion' = seenVersion
      /\ version' = [version EXCEPT ![target[r]] = version[target[r]] + 1]
  BY DEF CommitHeld, Write, Go, local
<1>2. i = target[r] /\ version'[i] = version[i] + 1
  BY <1>1 DEF LogInv, IInv, TypeOK, RowsOK
<1>3. seenVersion[r] = version[i]
  BY <1>2 DEF LogInv, IInv, LockOK, CommitHeld
<1>4. Committed(r)'
  BY <1>1 DEF LogInv, IInv, TypeOK, Committed
<1>5. WroteTo(audit'[i], r)
  BY <1>1, <1>2, <1>4 DEF LogInv, WriterOK
<1> QED BY <1>1, <1>2, <1>3, <1>5 DEF Superseded

(* So a version is left behind only by a commit that expected it.          *)
LEMMA NewVersion ==
  ASSUME LogInv, LogInv', [Next]_vars, NEW i \in Incidents, NEW v, v = version[i], version'[i] # v
  PROVE  \/ v = 0 /\ version'[i] = 1
         \/ version'[i] = v + 1 /\ Superseded(i, v)'
<1>1. version \in [Incidents -> Nat]
  BY DEF LogInv, IInv, TypeOK, RowsOK
<1>2. ~UNCHANGED version
  OBVIOUS
<1>3. CASE \E j \in Incidents : CreateIncident(j)
  BY <1>1, <1>3 DEF CreateIncident, Write, LogInv, IInv, HistoryOK
<1>4. ASSUME NEW r \in Requests, RequestStep(r)
      PROVE  version'[i] = v + 1 /\ Superseded(i, v)'
  <2>1. CASE PatchCommits(r) \/ ResolveCommits(r) \/ MitigateCommits(r) \/ ClearCommits(r)
    <3>1. \E s, m, act, ent : CommitHeld(r, s, m, act, ent)
      BY <2>1 DEF PatchCommits, ResolveCommits, MitigateCommits, ClearCommits
    <3> QED BY <3>1, CommitSupersedes
  <2>2. CASE ClearDeletesOnly(r)
    <3>1. version' = [version EXCEPT ![target[r]] = version[target[r]]]
      BY <2>2 DEF ClearDeletesOnly, Write
    <3> QED BY <1>1, <3>1
  <2>3. \/ PatchCommits(r) \/ ResolveCommits(r) \/ MitigateCommits(r)
        \/ ClearCommits(r) \/ ClearDeletesOnly(r)
    BY <1>2, <1>4 DEF RequestStep, rows, PatchBegins, ResolveReadsIncident,
         MitigateReadsIncident, ClearReadsMitigation, ResolveReadsMitigation,
         MitigateReadsMitigation, ClearReadsIncident, MitigateInserts, UpdateWins,
         UpdateLoses, Answer
  <2> QED BY <2>1, <2>2, <2>3
<1>5. \A r \in Requests : ~Fail(r)
  BY <1>2 DEF Fail, rows
<1>6. ~Quiescent /\ ~UNCHANGED vars
  BY <1>2 DEF Quiescent, vars
<1> QED BY <1>3, <1>4, <1>5, <1>6 DEF Next

(* Whoever superseded a version stays its author.                          *)
LEMMA AccountsKept ==
  ASSUME LogInv, LogInv', VersionsAccounted, [Next]_vars
  PROVE  VersionsAccounted'
<1> SUFFICES ASSUME NEW i \in Incidents, NEW v \in 1..(version'[i] - 1)
             PROVE  Superseded(i, v)'
  BY DEF VersionsAccounted
<1>1. version[i] \in Nat
  BY DEF LogInv, IInv, TypeOK, RowsOK
<1>2. CASE v \in 1..(version[i] - 1)
  <2>1. PICK q \in Requests : target[q] = i /\ seenVersion[q] = v /\ WroteTo(audit[i], q)
    BY <1>2 DEF VersionsAccounted, Superseded
  <2>2. pc[q] \in {"committed"} \cup Answers
    BY <2>1 DEF LogInv, WriterOK, Committed, Answers
  <2>3. target'[q] = i /\ seenVersion'[q] = v
    BY <2>1, <2>2, WriterSettled DEF LogInv, IInv
  <2>4. WroteTo(audit'[i], q)
    BY <2>1, NextRefines, WritersStay DEF LogInv, IInv, TypeOK
  <2> QED BY <2>3, <2>4 DEF Superseded
<1>3. CASE v \notin 1..(version[i] - 1)
  <2>1. version'[i] # version[i]
    BY <1>3
  <2>2. PICK w : w = version[i]
    OBVIOUS
  <2>3. \/ w = 0 /\ version'[i] = 1
        \/ version'[i] = w + 1 /\ Superseded(i, w)'
    BY <2>1, <2>2, NewVersion
  <2>4. v = w
    BY <1>1, <1>3, <2>2, <2>3
  <2> QED BY <1>1, <2>2, <2>3, <2>4
<1> QED BY <1>2, <1>3

(* Every row of the ledger that exists has a version.                      *)
LEMMA LedgerStepVersions ==
  ASSUME RowsOK, \A i \in Incidents : status[i] # "absent" => version[i] >= 1,
         LedgerNext \/ UNCHANGED rows
  PROVE  \A i \in Incidents : status'[i] # "absent" => version'[i] >= 1
<1> DEFINE Known == \A i \in Incidents : status'[i] # "absent" => version'[i] >= 1
<1>1. ASSUME NEW j \in Incidents, NEW s, NEW v, NEW m, NEW act, NEW by, NEW ent,
             Write(j, s, v, m, act, by, ent), s # "absent" => v >= 1
      PROVE  Known
  BY <1>1 DEF Write, RowsOK
<1>2. CASE UNCHANGED rows
  BY <1>2 DEF rows
<1>3. ASSUME NEW j \in Incidents, Open(j) PROVE Known
  BY <1>1, <1>3 DEF Open
<1>4. ASSUME NEW j \in Incidents, NEW r \in Requests, LedgerStep(j, r) PROVE Known
  <2>1. version[j] \in Nat /\ version[j] + 1 >= 1
    BY DEF RowsOK
  <2>2. CASE Edit(j, r) \/ Resolve(j, r) \/ Mitigate(j, r) \/ Unwind(j, r)
    BY <1>1, <2>1, <2>2 DEF Edit, Resolve, Mitigate, Unwind
  <2>3. CASE UnwindLeftover(j, r)
    BY <1>1, <2>3 DEF UnwindLeftover
  <2>4. CASE \E m \in Requests : LateUnwind(j, r, m)
    BY <1>1, <2>1, <2>4 DEF LateUnwind
  <2> QED BY <1>4, <2>2, <2>3, <2>4 DEF LedgerStep
<1> QED BY <1>2, <1>3, <1>4 DEF LedgerNext

(* A transaction begins with the version of a row that exists.             *)
LEMMA VersionsStayKnown ==
  ASSUME LogInv, VersionsKnown, [Next]_vars
  PROVE  VersionsKnown'
<1>1. \A i \in Incidents : status'[i] # "absent" => version'[i] >= 1
  BY NextRefines, LedgerStepVersions DEF LogInv, IInv, TypeOK, VersionsKnown
<1> SUFFICES ASSUME NEW r \in Requests, op'[r] # "patch", pc'[r] \in InTransaction
             PROVE  seenVersion'[r] >= 1
  BY <1>1 DEF VersionsKnown
<1> USE DEF InTransaction
<1>2. /\ pc \in [Requests -> {"idle"} \cup Steps \cup Answers] /\ op \in [Requests -> Ops]
      /\ seenVersion \in [Requests -> Int]
  BY DEF LogInv, IInv, TypeOK
<1>3. ASSUME pc[r] \in InTransaction, op'[r] = op[r], seenVersion'[r] = seenVersion[r]
      PROVE  seenVersion'[r] >= 1
  BY <1>3 DEF VersionsKnown
<1>4. ASSUME NEW i \in Incidents, status[i] # "absent", seenVersion'[r] = version[i]
      PROVE  seenVersion'[r] >= 1
  BY <1>4 DEF VersionsKnown
<1>5. ASSUME NEW q \in Requests, RequestStep(q) PROVE seenVersion'[r] >= 1
  <2>1. CASE \E i \in Incidents, v \in ClientVersions : PatchBegins(q, i, v)
    <3>1. q # r
      BY <1>2, <2>1 DEF PatchBegins, Begin
    <3> QED BY <1>2, <1>3, <2>1, <3>1 DEF PatchBegins, Begin, Go
  <2>2. ASSUME NEW i \in Incidents, ResolveReadsIncident(q, i) \/ MitigateReadsIncident(q, i)
        PROVE  seenVersion'[r] >= 1
    <3>1. CASE q = r
      <4>1. seenVersion'[r] = version[i] /\ status[i] # "absent"
        BY <1>2, <2>2, <3>1 DEF ResolveReadsIncident, MitigateReadsIncident, Begin, Go
      <4> QED BY <1>4, <4>1
    <3>2. CASE q # r
      BY <1>2, <1>3, <2>2, <3>2 DEF ResolveReadsIncident, MitigateReadsIncident, Begin, Go
    <3> QED BY <3>1, <3>2
  <2>3. CASE \E i \in Incidents : ClearReadsMitigation(q, i)
    <3>1. q # r
      BY <1>2, <2>3 DEF ClearReadsMitigation, Begin, Go
    <3> QED BY <1>2, <1>3, <2>3, <3>1 DEF ClearReadsMitigation, Begin, Go
  <2>4. CASE ClearReadsIncident(q)
    <3>1. CASE q = r
      <4>1. /\ seenVersion'[r] = version[target[r]] /\ status[target[r]] = "mitigated"
            /\ pc[r] = "readIncident"
        BY <1>2, <2>4, <3>1 DEF ClearReadsIncident, Go
      <4>2. target[r] \in Incidents
        BY <4>1 DEF LogInv, IInv, ControlOK
      <4> QED BY <1>4, <4>1, <4>2
    <3>2. CASE q # r
      BY <1>2, <1>3, <2>4, <3>2 DEF ClearReadsIncident, Go
    <3> QED BY <3>1, <3>2
  <2>5. CASE ResolveReadsMitigation(q) \/ MitigateReadsMitigation(q) \/ MitigateInserts(q)
             \/ UpdateWins(q) \/ UpdateLoses(q)
    BY <1>2, <1>3, <2>5 DEF ResolveReadsMitigation, MitigateReadsMitigation, MitigateInserts,
                            UpdateWins, UpdateLoses, Go, local
  <2>6. CASE PatchCommits(q) \/ ResolveCommits(q) \/ MitigateCommits(q) \/ ClearCommits(q)
             \/ ClearDeletesOnly(q) \/ Answer(q)
    BY <1>2, <1>3, <2>6 DEF PatchCommits, ResolveCommits, MitigateCommits, ClearCommits,
                            CommitHeld, ClearDeletesOnly, Answer, Go, local
  <2> QED BY <1>5, <2>1, <2>2, <2>3, <2>4, <2>5, <2>6 DEF RequestStep
<1>6. ASSUME NEW q \in Requests, Fail(q) PROVE seenVersion'[r] >= 1
  BY <1>2, <1>3, <1>6 DEF Fail, Go, local
<1>7. CASE (\E i \in Incidents : CreateIncident(i)) \/ Quiescent \/ UNCHANGED vars
  BY <1>2, <1>3, <1>7 DEF CreateIncident, Quiescent, vars, local
<1> QED BY <1>5, <1>6, <1>7 DEF Next

(* Every superseded version has its author in the timeline.                *)
THEOREM VersionInvariance == Spec => []VersionInv
<1>1. Init => VersionInv
  BY DEF Init, RowsInit, VersionInv, VersionsAccounted, VersionsKnown, InTransaction
<1>2. LogInv /\ LogInv' /\ VersionInv /\ [Next]_vars => VersionInv'
  BY AccountsKept, VersionsStayKnown DEF VersionInv
<1> QED BY <1>1, <1>2, LogInvariance, PTL DEF Spec

(* The version counts authors: no commit raises it without signing         *)
(* (apply_optimistic_update).                                              *)
THEOREM VersionsExplained == Spec => []VersionsAccounted
<1>1. VersionInv => VersionsAccounted
  BY DEF VersionInv
<1> QED BY <1>1, VersionInvariance, PTL

(* A 409 from apply_optimistic_update has a cause in the timeline: another *)
(* request took the version the loser had read.                            *)
THEOREM ConflictsExplained == Spec => ConflictsAreReal
<1> DEFINE Cause(r) == \E q \in Requests \ {r} :
             target[q] = target[r] /\ seenVersion[q] = seenVersion[r] /\ WroteTo(audit[target[r]], q)
<1>1. ASSUME LogInv, VersionInv, [Next]_vars, NEW r \in Requests, RefusedByUpdate(r)
      PROVE  Cause(r)
  <2>1. version[target[r]] # seenVersion[r] \/ status[target[r]] = "absent"
    <3>1. UpdateLoses(r)
      <4> USE <1>1 DEF RefusedByUpdate, Go, LogInv, IInv, TypeOK
      <4>1. PICK q \in Requests : RequestStep(q)
        BY DEF Next, CreateIncident, Fail, Quiescent, vars
      <4>2. q = r
        BY <4>1 DEF RequestStep, PatchBegins, ResolveReadsIncident, MitigateReadsIncident, Begin,
             ClearReadsMitigation, ResolveReadsMitigation, MitigateReadsMitigation,
             ClearReadsIncident, MitigateInserts, UpdateWins, UpdateLoses, PatchCommits,
             ResolveCommits, MitigateCommits, ClearCommits, CommitHeld, ClearDeletesOnly, Answer
      <4> QED BY <4>1, <4>2 DEF RequestStep, PatchBegins, ResolveReadsIncident, Begin,
             MitigateReadsIncident, ClearReadsMitigation, ResolveReadsMitigation,
             MitigateReadsMitigation, ClearReadsIncident, MitigateInserts, UpdateWins,
             PatchCommits, ResolveCommits, MitigateCommits, ClearCommits, CommitHeld,
             ClearDeletesOnly, Answer
    <3> QED BY <3>1 DEF UpdateLoses
  <2>2. /\ target[r] \in Incidents /\ status[target[r]] # "absent"
        /\ seenVersion[r] <= version[target[r]] /\ seenVersion[r] >= 1
        /\ seenVersion[r] \in Int /\ version[target[r]] \in Nat
    <3>1. /\ op[r] # "patch" /\ pc[r] = "update" /\ target[r] \in Incidents
          /\ op[r] \in Ops \ {"none"} /\ seenVersion[r] \in Int
      BY <1>1 DEF RefusedByUpdate, LogInv, IInv, ControlOK, TypeOK
    <3>2. status[target[r]] # "absent" /\ seenVersion[r] <= version[target[r]]
      BY <1>1, <3>1 DEF LogInv, IInv, CheckedOK, ClearOK, InTransaction, Ops
    <3> QED BY <1>1, <3>1, <3>2 DEF VersionInv, VersionsKnown, InTransaction,
                                   LogInv, IInv, TypeOK, RowsOK
  <2>3. seenVersion[r] \in 1..(version[target[r]] - 1)
    BY <2>1, <2>2
  <2>4. PICK q \in Requests : /\ target[q] = target[r] /\ seenVersion[q] = seenVersion[r]
                              /\ WroteTo(audit[target[r]], q)
    BY <1>1, <2>2, <2>3 DEF VersionInv, VersionsAccounted, Superseded
  <2>5. ~WroteTo(audit[target[r]], r)
    BY <1>1, <2>2 DEF RefusedByUpdate, LogInv, IInv, HistoryOK, Steps
  <2> QED BY <2>4, <2>5
<1>2. LogInv /\ VersionInv /\ [Next]_vars
        => [\A r \in Requests : RefusedByUpdate(r) => Cause(r)]_vars
  BY <1>1
<1> QED BY <1>2, LogInvariance, VersionInvariance, PTL DEF Spec, ConflictsAreReal

---------------------------------------------------------------------------
(* Waiting *)

(* A request waits for an uncommitted insert or for the holder of a row,   *)
(* and a holder waits for nobody: no circle of waiting requests            *)
(* (mitigations.py:60-74, apply_optimistic_update).                        *)
THEOREM RequestsNotStuck == Spec => []NoRequestStuck
<1>1. ASSUME IInv, NEW q \in Requests, pc[q] = "held" PROVE CanGoOn(q)
  BY <1>1 DEF IInv, ControlOK, CanGoOn
<1>2. ASSUME IInv, NEW r \in Requests, pc[r] = "update", ~CanGoOn(r)
      PROVE  \E q \in Requests : WaitsFor(r, q) /\ CanGoOn(q)
  <2>1. PICK q \in Requests : target[q] = target[r] /\ pc[q] = "held"
    BY <1>2 DEF CanGoOn, RowLocked
  <2>2. seenVersion[q] = version[target[q]] /\ seenVersion[r] = version[target[r]]
    BY <1>2, <2>1 DEF IInv, LockOK, CanGoOn
  <2> QED BY <1>1, <1>2, <2>1, <2>2 DEF WaitsFor
<1>3. ASSUME IInv, NEW r \in Requests, Running(r), ~CanGoOn(r)
      PROVE  \E q \in Requests :
               /\ WaitsFor(r, q)
               /\ CanGoOn(q) \/ \E p \in Requests : WaitsFor(q, p) /\ CanGoOn(p)
  <2>1. pc[r] \in {"insert", "update"}
    BY <1>1, <1>3 DEF IInv, ControlOK, Running, Steps, CanGoOn
  <2>2. CASE pc[r] = "update"
    BY <1>2, <1>3, <2>2
  <2>3. CASE pc[r] = "insert"
    <3>1. PICK q \in Requests :
            op[q] = "mitigate" /\ target[q] = target[r] /\ pc[q] \in {"update", "held"}
      BY <1>3, <2>3 DEF CanGoOn, InsertPending
    <3>2. WaitsFor(r, q)
      BY <2>3, <3>1 DEF WaitsFor
    <3>3. CanGoOn(q) \/ \E p \in Requests : WaitsFor(q, p) /\ CanGoOn(p)
      BY <1>1, <1>2, <1>3, <3>1
    <3> QED BY <3>2, <3>3
  <2> QED BY <2>1, <2>2, <2>3
<1>4. IInv => NoRequestStuck
  BY <1>3 DEF NoRequestStuck
<1> QED BY <1>4, Invariance, PTL

\* The places of a request, in the order in which it can take them.
Place == [idle |-> 0, readIncident |-> 1, readMitigation |-> 1, insert |-> 2, update |-> 3,
          held |-> 4, delete |-> 4, committed |-> 5,
          ok |-> 6, refused |-> 6, error |-> 6, lost |-> 6]
RequestsAdvance ==
  [][\A r \in Requests : pc'[r] = pc[r] \/ Place[pc'[r]] > Place[pc[r]]]_vars

(* No handler goes back (incidents.py, mitigations.py): a lost update is   *)
(* answered with 409, not tried again (apply_optimistic_update). So a      *)
(* request takes at most five steps to its answer.                         *)
THEOREM RequestsAdvancing == Spec => RequestsAdvance
<1>1. ASSUME TypeOK, [Next]_vars, NEW r \in Requests
      PROVE  pc'[r] = pc[r] \/ Place[pc'[r]] > Place[pc[r]]
  <2>1. CASE UNCHANGED pc
    BY <2>1
  <2>2. ASSUME NEW q \in Requests, RequestStep(q) \/ Fail(q)
        PROVE  pc'[r] = pc[r] \/ Place[pc'[r]] > Place[pc[r]]
    <3>1. ASSUME NEW s \in DOMAIN Place, Go(q, s), Place[s] > Place[pc[q]]
          PROVE  pc'[r] = pc[r] \/ Place[pc'[r]] > Place[pc[r]]
      BY <1>1, <3>1 DEF Go, TypeOK
    <3> HIDE DEF Place
    <3>2. /\ \A s \in DOMAIN Place \ {"idle"} : Place[s] > Place["idle"]
          /\ \A s \in {"insert", "update", "held", "delete", "refused"} : Place[s] > Place["readMitigation"]
          /\ \A s \in {"update", "delete"} : Place[s] > Place["readIncident"]
          /\ Place["update"] > Place["insert"] /\ Place["refused"] > Place["insert"]
          /\ Place["held"] > Place["update"] /\ Place["refused"] > Place["update"]
          /\ Place["committed"] > Place["held"] /\ Place["committed"] > Place["delete"]
          /\ Place["ok"] > Place["committed"] /\ Place["error"] > Place["committed"]
          /\ \A s \in Steps : Place["lost"] > Place[s]
          /\ DOMAIN Place = {"idle"} \cup Steps \cup Answers
      BY DEF Place, Steps, Answers
    <3> USE DEF Steps, Answers
    <3>3. CASE \E i \in Incidents : \/ \E v \in ClientVersions : PatchBegins(q, i, v)
                                    \/ ResolveReadsIncident(q, i)
                                    \/ MitigateReadsIncident(q, i)
                                    \/ ClearReadsMitigation(q, i)
      <4>1. \E s \in DOMAIN Place \ {"idle"} : Go(q, s) /\ pc[q] = "idle"
        BY <3>2, <3>3 DEF PatchBegins, ResolveReadsIncident, MitigateReadsIncident,
                         ClearReadsMitigation, Begin
      <4> QED BY <3>1, <3>2, <4>1
    <3>4. CASE ResolveReadsMitigation(q) \/ MitigateReadsMitigation(q) \/ ClearReadsIncident(q)
      <4>1. \/ /\ pc[q] = "readMitigation"
              /\ \E s \in {"insert", "update", "refused"} : Go(q, s)
            \/ /\ pc[q] = "readIncident"
              /\ \E s \in {"update", "delete"} : Go(q, s)
        BY <3>4 DEF ResolveReadsMitigation, MitigateReadsMitigation, ClearReadsIncident
      <4> QED BY <3>1, <3>2, <4>1
    <3>5. CASE MitigateInserts(q) \/ UpdateWins(q) \/ UpdateLoses(q)
      <4>1. \/ pc[q] = "insert" /\ \E s \in {"update", "refused"} : Go(q, s)
            \/ pc[q] = "update" /\ \E s \in {"held", "refused"} : Go(q, s)
        BY <3>5 DEF MitigateInserts, UpdateWins, UpdateLoses
      <4> QED BY <3>1, <3>2, <4>1
    <3>6. CASE \/ PatchCommits(q) \/ ResolveCommits(q) \/ MitigateCommits(q)
               \/ ClearCommits(q) \/ ClearDeletesOnly(q)
      <4>1. pc[q] \in {"held", "delete"} /\ Go(q, "committed")
        BY <3>6 DEF PatchCommits, ResolveCommits, MitigateCommits, ClearCommits,
                    CommitHeld, ClearDeletesOnly
      <4> QED BY <3>1, <3>2, <4>1
    <3>7. CASE Answer(q)
      <4>1. pc[q] = "committed" /\ \E s \in {"ok", "error"} : Go(q, s)
        BY <3>7 DEF Answer
      <4> QED BY <3>1, <3>2, <4>1
    <3>8. CASE Fail(q)
      BY <3>1, <3>2, <3>8 DEF Fail
    <3> QED BY <2>2, <3>3, <3>4, <3>5, <3>6, <3>7, <3>8 DEF RequestStep
  <2>3. CASE (\E i \in Incidents : CreateIncident(i)) \/ Quiescent \/ UNCHANGED vars
    BY <2>1, <2>3 DEF CreateIncident, Quiescent, vars
  <2> QED BY <1>1, <2>2, <2>3 DEF Next
<1>2. TypeOK /\ [Next]_vars
        => [\A r \in Requests : pc'[r] = pc[r] \/ Place[pc'[r]] > Place[pc[r]]]_vars
  BY <1>1
<1> QED BY <1>2, TypeCorrect, PTL DEF Spec, RequestsAdvance
=============================================================================
