--------------------------- MODULE IncidentLedger ---------------------------
(***************************************************************************)
(* What the incident API promises of its committed rows, with no request,  *)
(* lock or transaction in sight: every committed change of an incident is  *)
(* one atomic step that appends exactly one entry to its audit timeline.   *)
(* Incidents.tla, the handlers step by step, is shown to implement it.     *)
(*                                                                         *)
(* A mitigation is named after the request that created it, an incident    *)
(* after the POST that created it.                                         *)
(***************************************************************************)
EXTENDS Integers, Sequences, FiniteSets

CONSTANTS Requests,   \* requests that may change an incident
          Incidents,  \* incidents that may be created
          None        \* no mitigation row

ASSUME NamesAreDistinct == Requests \cap Incidents = {} /\ None \notin Requests

VARIABLES status,      \* status[i]: Incident.status, or "absent"
          version,     \* version[i]: Incident.version, 0 while absent
          mitigation,  \* mitigation[i]: the mitigation_state row of i, or None
          audit        \* audit[i]: the audit_logs rows of i, oldest first

rows == <<status, version, mitigation, audit>>

Statuses == {"absent", "open", "mitigated", "resolved"}
Entry == [action : {"INCIDENT_CREATED", "INCIDENT_UPDATED", "INCIDENT_RESOLVED",
                    "MITIGATION_CREATED", "MITIGATION_DELETED"},
          by     : Requests \cup Incidents,
          entity : Requests \cup Incidents]

RowsOK == /\ status \in [Incidents -> Statuses]
          /\ version \in [Incidents -> Nat]
          /\ mitigation \in [Incidents -> Requests \cup {None}]
          /\ audit \in [Incidents -> Seq(Entry)]

\* The entries of log that satisfy both conditions, and the two tests on them.
Logged(log, action, entity) ==
  \E k \in DOMAIN log : log[k].action = action /\ log[k].entity = entity
WroteTo(log, r) == \E k \in DOMAIN log : log[k].by = r

RowsInit == /\ status = [i \in Incidents |-> "absent"]
            /\ version = [i \in Incidents |-> 0]
            /\ mitigation = [i \in Incidents |-> None]
            /\ audit = [i \in Incidents |-> << >>]

(* Every change of the rows of an incident has this form. *)
Write(i, s, v, m, action, by, entity) ==
  /\ status' = [status EXCEPT ![i] = s]
  /\ version' = [version EXCEPT ![i] = v]
  /\ mitigation' = [mitigation EXCEPT ![i] = m]
  /\ audit' = [audit EXCEPT ![i] =
                 Append(@, [action |-> action, by |-> by, entity |-> entity])]

Open(i) == /\ status[i] = "absent"
           /\ Write(i, "open", 1, None, "INCIDENT_CREATED", i, i)

Edit(i, r) == /\ status[i] # "absent"
              /\ Write(i, status[i], version[i] + 1, mitigation[i], "INCIDENT_UPDATED", r, i)

Resolve(i, r) == /\ status[i] = "open" /\ mitigation[i] = None
                 /\ Write(i, "resolved", version[i] + 1, None, "INCIDENT_RESOLVED", r, i)

Mitigate(i, r) ==
  /\ status[i] = "open" /\ mitigation[i] = None
  /\ Write(i, "mitigated", version[i] + 1, r, "MITIGATION_CREATED", r, r)

(* The mitigation is taken down and the incident is open again. *)
Unwind(i, r) ==
  /\ status[i] = "mitigated"
  /\ Write(i, "open", version[i] + 1, None, "MITIGATION_DELETED", r, mitigation[i])

(* A second request that had already read mitigation m before the first    *)
(* took it down: it still answers with success and logs the deletion       *)
(* again, with nothing left to delete. If another mitigation is in place   *)
(* by then, the incident reads OPEN while that mitigation stays.           *)
LateUnwind(i, r, m) ==
  /\ Logged(audit[i], "MITIGATION_DELETED", m)
  /\ m # mitigation[i]
  /\ \/ Write(i, status[i], version[i], mitigation[i], "MITIGATION_DELETED", r, m)
     \/ /\ status[i] = "mitigated"
        /\ Write(i, "open", version[i] + 1, mitigation[i], "MITIGATION_DELETED", r, m)

(* The mitigation LateUnwind left beside an OPEN incident is taken down.   *)
UnwindLeftover(i, r) ==
  /\ status[i] = "open" /\ mitigation[i] # None
  /\ Write(i, "open", version[i], None, "MITIGATION_DELETED", r, mitigation[i])

\* A request writes at most once.
LedgerStep(i, r) ==
  /\ ~WroteTo(audit[i], r)
  /\ \/ Edit(i, r) \/ Resolve(i, r) \/ Mitigate(i, r)
     \/ Unwind(i, r) \/ UnwindLeftover(i, r)
     \/ \E m \in Requests : LateUnwind(i, r, m)

LedgerNext == \E i \in Incidents : Open(i) \/ \E r \in Requests : LedgerStep(i, r)

LedgerSpec == RowsInit /\ [][LedgerNext]_rows
=============================================================================
