--------------------------- MODULE RevisionPromise ---------------------------
(***************************************************************************)
(* What migrations promise whoever runs them and whoever uses the database *)
(* meanwhile, without scripts, transactions or locks: a run of alembic     *)
(* takes the database from the revision it read to the one it was asked    *)
(* for in one step, every row with it, or leaves it as it is. It fails     *)
(* only when another run was first; and no insert is lost or half moved,   *)
(* whenever it happens.                                                    *)
(***************************************************************************)
EXTENDS Integers

CONSTANTS Migrators, Rows, RowTables, Tenants, Legacy, None

VARIABLES rev,      \* the revision of the database
          row,      \* row[x]: the table and the account of row x, or None
          outcome,  \* outcome[m]: none, pending, done, failed or crashed
          read,     \* read[m]: the revision run m found
          asked     \* asked[m]: the revision it was asked for

vars == <<rev, row, outcome, read, asked>>

Latest == 6

\* The tables of revision n that the application inserts into.
TablesAt(n) ==
  (IF n > 0 THEN {"users", "audit_logs", "incidents", "mitigation_state"} ELSE {})
    \cup (IF n > 4 THEN {"invites"} ELSE {})

\* Row c in a database that was moved to revision n: it goes with its table;
\* at the latest revision it is the legacy account's, below nobody's.
Moved(n, c) ==
  IF c = None \/ c.table \notin TablesAt(n)
  THEN None
  ELSE [table |-> c.table, account |-> IF n = Latest THEN Legacy ELSE None]

Init == /\ rev \in 0 .. 3
        /\ row = [x \in Rows |-> None]
        /\ outcome = [m \in Migrators |-> "none"]
        /\ read = [m \in Migrators |-> 0]
        /\ asked = [m \in Migrators |-> 0]

\* A run that finds what it was asked for has nothing to do.
Ask(m, g) == /\ outcome[m] = "none"
             /\ g = Latest \/ g < rev
             /\ outcome' = [outcome EXCEPT ![m] = IF g = rev THEN "done" ELSE "pending"]
             /\ read' = [read EXCEPT ![m] = rev]
             /\ asked' = [asked EXCEPT ![m] = g]
             /\ UNCHANGED <<rev, row>>

TakeEffect(m) == /\ outcome[m] = "pending" /\ read[m] = rev
                 /\ rev' = asked[m]
                 /\ row' = [x \in Rows |-> Moved(asked[m], row[x])]
                 /\ outcome' = [outcome EXCEPT ![m] = "done"]
                 /\ UNCHANGED <<read, asked>>

GiveUp(m, how) == /\ outcome[m] = "pending"
                  /\ how = "failed" => read[m] # rev
                  /\ outcome' = [outcome EXCEPT ![m] = how]
                  /\ UNCHANGED <<rev, row, read, asked>>

Insert(x, t, a) ==
  /\ row[x] = None /\ t \in TablesAt(rev)
  /\ row' = [row EXCEPT ![x] = [table |-> t, account |-> IF rev = Latest THEN a ELSE None]]
  /\ UNCHANGED <<rev, outcome, read, asked>>

Next == \/ \E m \in Migrators :
             \/ \E g \in 0 .. Latest : Ask(m, g)
             \/ TakeEffect(m) \/ GiveUp(m, "failed") \/ GiveUp(m, "crashed")
        \/ \E x \in Rows, t \in RowTables, a \in Tenants : Insert(x, t, a)

Spec == Init /\ [][Next]_vars
=============================================================================
