----------------------------- MODULE Migrations -----------------------------
(***************************************************************************)
(* Schema migrations: "alembic upgrade head", which every container runs   *)
(* before it serves, and an operator's "alembic downgrade", over a         *)
(* database that has rows and may be in use. One alembic run is one        *)
(* transaction (migrations/env.py), whatever number of scripts it takes.   *)
(*                                                                         *)
(* Revisions are numbered along the chain: 1 is 21f84f2f9c09, 2 is         *)
(* 43b79a424fe2, 3 is bce7ac2167ea, 4 is b620b2c86e1b, 5 is 6f42612b6673,  *)
(* 6 is 55fd7ae9828b; 0 is the empty database.                             *)
(***************************************************************************)
EXTENDS Integers, FiniteSets

CONSTANTS Migrators,  \* runs of alembic
          Rows,       \* rows the application may insert
          RowTables,  \* the tables they may be inserted into
          Tenants,    \* accounts that may register
          Legacy,     \* LEGACY_ACCOUNT_ID
          None        \* no row, no account, nobody

Core == {"users", "audit_logs", "incidents", "mitigation_state"}
TenantTables == Core \cup {"invites"}
EnumTypes == {"userrole", "incidentseverity", "incidentstatus"}
Head == 6

ASSUME RowsHaveTables == RowTables \subseteq TenantTables
ASSUME NamesAreDistinct == None \notin Tenants \cup Migrators \cup {Legacy}

VARIABLES db,      \* the committed database
          holder,  \* the run that is changing the schema, or None
          work,    \* the database as the holder's transaction sees it
          locked,  \* tables the holder keeps the application from
          pc,      \* pc[m]: where run m stands, or how it ended
          goal,    \* goal[m]: the revision it was asked for
          start,   \* start[m]: the revision it read
          at       \* at[m]: the revision its scripts have reached

vars == <<db, holder, work, locked, pc, goal, start, at>>

\* unique is the name of mitigation_state's constraint on incident_id, the
\* PostgreSQL default or that of the naming convention.
Names == {"none", "default", "convention"}
Row == [table : TenantTables, account : Tenants \cup {Legacy, None}]
Database == [rev : 0 .. Head, tables : SUBSET (TenantTables \cup {"revoked_tokens", "accounts"}),
             types : SUBSET EnumTypes, columns : SUBSET {"incident_id", "account_id"},
             unique : Names, accounts : SUBSET (Tenants \cup {Legacy}), row : [Rows -> Row \cup {None}]]

ASSUME NoneIsNoRow == None \notin Row \cup Database

NoRows == [x \in Rows |-> None]
Empty == [rev |-> 0, tables |-> {}, types |-> {}, columns |-> {},
          unique |-> "none", accounts |-> {}, row |-> NoRows]

\* A database from before the naming convention, at revision n.
Old(n) == [Empty EXCEPT !.rev = n, !.types = EnumTypes, !.unique = "default",
                        !.tables = Core \cup (IF n > 1 THEN {"revoked_tokens"} ELSE {}),
                        !.columns = IF n > 2 THEN {"incident_id"} ELSE {}]

Init == /\ db \in {Empty} \cup {Old(n) : n \in 1 .. 3}
        /\ holder = None
        /\ work = Empty
        /\ locked = {}
        /\ pc = [m \in Migrators |-> "idle"]
        /\ goal = [m \in Migrators |-> 0]
        /\ start = [m \in Migrators |-> 0]
        /\ at = [m \in Migrators |-> 0]

---------------------------------------------------------------------------
(* The scripts. Each maps the database it finds to the one it leaves, or   *)
(* to None if one of its statements fails.                                 *)

Script(possible, result) == IF possible THEN result ELSE None

WithoutTables(s, T) ==
  [s EXCEPT !.tables = @ \ T,
            !.row = [x \in Rows |-> IF s.row[x] # None /\ s.row[x].table \in T
                                    THEN None ELSE s.row[x]]]

\* 21f84f2f9c09. create_table also creates the enum types its columns use.
InitialUp(s) ==
  Script(Core \cap s.tables = {} /\ EnumTypes \cap s.types = {},
         [s EXCEPT !.tables = @ \cup Core, !.types = @ \cup EnumTypes,
                   !.unique = "convention"])

InitialDownKeepsTypes(s) ==   \* mutant: the enum types are left behind
  [WithoutTables(s, Core) EXCEPT !.unique = "none"]

\* incidents goes before audit_logs, and users last: a foreign key from what
\* is still there would stop it.
InitialDown(s) ==
  Script(Core \subseteq s.tables /\ "invites" \notin s.tables /\ "incident_id" \notin s.columns,
         [WithoutTables(s, Core) EXCEPT !.types = {}, !.unique = "none"])

\* 43b79a424fe2
RevokedUp(s) == Script("revoked_tokens" \notin s.tables,
                       [s EXCEPT !.tables = @ \cup {"revoked_tokens"}])
RevokedDown(s) == Script("revoked_tokens" \in s.tables,
                         [s EXCEPT !.tables = @ \ {"revoked_tokens"}])

\* bce7ac2167ea
IncidentIdUp(s) == Script(Core \subseteq s.tables /\ "incident_id" \notin s.columns,
                          [s EXCEPT !.columns = @ \cup {"incident_id"}])
IncidentIdDown(s) == Script("incident_id" \in s.columns,
                            [s EXCEPT !.columns = @ \ {"incident_id"}])

\* b620b2c86e1b. A name that is not there is no error.
RenameUp(s) == IF s.unique = "default" THEN [s EXCEPT !.unique = "convention"] ELSE s
RenameDown(s) == IF s.unique = "convention" THEN [s EXCEPT !.unique = "default"] ELSE s

\* 6f42612b6673. create_type=False: the type has to be there.
InvitesUp(s) ==
  Script("invites" \notin s.tables /\ "users" \in s.tables /\ "userrole" \in s.types,
         [s EXCEPT !.tables = @ \cup {"invites"}])
InvitesDown(s) == Script("invites" \in s.tables, WithoutTables(s, {"invites"}))

\* 55fd7ae9828b
DropsAccountless(s) == NoRows   \* mutant: clears the way for NOT NULL

Backfill(s) == [x \in Rows |-> IF s.row[x] = None THEN None
                               ELSE [s.row[x] EXCEPT !.account = Legacy]]

TenancyUp(s) ==
  LET given == Backfill(s) IN
  Script(/\ "accounts" \notin s.tables /\ "account_id" \notin s.columns
         /\ TenantTables \subseteq s.tables
         /\ \A x \in Rows : given[x] # None => given[x].account = Legacy,
         [s EXCEPT !.tables = @ \cup {"accounts"}, !.columns = @ \cup {"account_id"},
                   !.accounts = {Legacy}, !.row = given])
TenancyDown(s) ==
  Script({"accounts"} \cup TenantTables \subseteq s.tables /\ "account_id" \in s.columns,
         [s EXCEPT !.tables = @ \ {"accounts"}, !.columns = @ \ {"account_id"},
                   !.accounts = {},
                   !.row = [x \in Rows |-> IF s.row[x] = None THEN None
                                           ELSE [s.row[x] EXCEPT !.account = None]]])

Upgrade(n, s) == CASE n = 1 -> InitialUp(s) [] n = 2 -> RevokedUp(s)
                   [] n = 3 -> IncidentIdUp(s) [] n = 4 -> RenameUp(s)
                   [] n = 5 -> InvitesUp(s) [] n = 6 -> TenancyUp(s)
Downgrade(n, s) == CASE n = 1 -> InitialDown(s) [] n = 2 -> RevokedDown(s)
                     [] n = 3 -> IncidentIdDown(s) [] n = 4 -> RenameDown(s)
                     [] n = 5 -> InvitesDown(s) [] n = 6 -> TenancyDown(s)

\* The tables an application cannot insert into while script n is not
\* committed: those it alters, and those its foreign keys refer to.
Locks(n) == CASE n \in {1, 6} -> TenantTables [] n = 2 -> {}
              [] n = 3 -> {"audit_logs", "incidents"} [] n = 4 -> {"mitigation_state"}
              [] n = 5 -> {"users", "invites"}

---------------------------------------------------------------------------
(* A run of alembic                                                        *)

\* It reads the revision. Upgrades go to the head, downgrades anywhere.
Begins(m, g) ==
  /\ pc[m] = "idle"
  /\ g = Head \/ g < db.rev
  /\ pc' = [pc EXCEPT ![m] = IF g = db.rev THEN "done" ELSE "script"]
  /\ goal' = [goal EXCEPT ![m] = g]
  /\ start' = [start EXCEPT ![m] = db.rev]
  /\ at' = [at EXCEPT ![m] = db.rev]
  /\ UNCHANGED <<db, holder, work, locked>>

Up(m) == at[m] < goal[m]
ScriptNumber(m) == IF Up(m) THEN at[m] + 1 ELSE at[m]
Target(m) == IF Up(m) THEN at[m] + 1 ELSE at[m] - 1

Before(m) == IF holder = m THEN work ELSE db
After(m) == IF Up(m) THEN Upgrade(ScriptNumber(m), Before(m))
                     ELSE Downgrade(ScriptNumber(m), Before(m))

\* The transaction of m is over.
Ends(m, how) == /\ pc' = [pc EXCEPT ![m] = how]
                /\ holder' = IF holder = m THEN None ELSE holder
                /\ work' = IF holder = m THEN Empty ELSE work
                /\ locked' = IF holder = m THEN {} ELSE locked
                /\ UNCHANGED <<goal, start, at>>

RunsOverErrors(m) ==   \* mutant: a statement that fails is passed over
  /\ pc[m] = "script" /\ at[m] # goal[m] /\ holder \in {None, m}
  /\ holder' = m
  /\ work' = After(m)
  /\ pc' = [pc EXCEPT ![m] = "stamp"]
  /\ UNCHANGED <<db, locked, goal, start, at>>

\* The first script waits for a run that has begun to change the schema.
RunsScript(m) ==
  /\ pc[m] = "script" /\ at[m] # goal[m] /\ holder \in {None, m}
  /\ IF After(m) = None
     THEN Ends(m, "failed")
     ELSE /\ holder' = m
          /\ work' = After(m)
          /\ locked' = locked \cup Locks(ScriptNumber(m))
          /\ pc' = [pc EXCEPT ![m] = "stamp"]
          /\ UNCHANGED <<goal, start, at>>
  /\ UNCHANGED db

StampsUnchecked(m) ==   \* mutant: it need not match
  /\ pc[m] = "stamp"
  /\ work' = [work EXCEPT !.rev = Target(m)]
  /\ at' = [at EXCEPT ![m] = Target(m)]
  /\ pc' = [pc EXCEPT ![m] = "script"]
  /\ UNCHANGED <<db, holder, locked, goal, start>>

\* UPDATE alembic_version ... WHERE version_num = at[m] has to match its row.
Stamps(m) ==
  /\ pc[m] = "stamp"
  /\ IF work.rev # at[m]
     THEN Ends(m, "failed")
     ELSE /\ work' = [work EXCEPT !.rev = Target(m)]
          /\ at' = [at EXCEPT ![m] = Target(m)]
          /\ pc' = [pc EXCEPT ![m] = "script"]
          /\ UNCHANGED <<holder, locked, goal, start>>
  /\ UNCHANGED db

Commits(m) ==
  /\ pc[m] = "script" /\ at[m] = goal[m]
  /\ db' = work
  /\ Ends(m, "done")

CrashKeepsWork(m) ==   \* mutant: no transaction around the scripts
  /\ pc[m] \in {"script", "stamp"}
  /\ db' = Before(m)
  /\ Ends(m, "crashed")

\* The container is stopped, the connection breaks, a deadlock is broken.
Crash(m) ==
  /\ pc[m] \in {"script", "stamp"}
  /\ Ends(m, "crashed")
  /\ UNCHANGED db

---------------------------------------------------------------------------
(* The application inserts row x into table t, before tenancy without an   *)
(* account, after it for account a, which may just have registered. Until  *)
(* the table is locked the open migration sees the row, too.               *)
Inserted(s, x, t, a) ==
  IF "account_id" \in s.columns
  THEN [s EXCEPT !.row[x] = [table |-> t, account |-> a], !.accounts = @ \cup {a}]
  ELSE [s EXCEPT !.row[x] = [table |-> t, account |-> None]]

Inserts(x, t, a) ==
  /\ db.row[x] = None
  /\ t \in db.tables \ locked
  /\ db' = Inserted(db, x, t, a)
  /\ work' = IF holder = None THEN work ELSE Inserted(work, x, t, a)
  /\ UNCHANGED <<holder, locked, pc, goal, start, at>>

---------------------------------------------------------------------------
Run(m) == \/ \E g \in 0 .. Head : Begins(m, g)
          \/ RunsScript(m) \/ Stamps(m) \/ Commits(m) \/ Crash(m)

Quiescent == /\ \A m \in Migrators : pc[m] \in {"done", "failed", "crashed"}
             /\ UNCHANGED vars

Next == \/ \E m \in Migrators : Run(m)
        \/ \E x \in Rows, t \in RowTables, a \in Tenants : Inserts(x, t, a)
        \/ Quiescent

Spec == Init /\ [][Next]_vars

---------------------------------------------------------------------------
(* Properties *)

(* Every variable keeps to its type (migrations/versions, env.py).         *)
TypeOK == /\ db \in Database /\ work \in Database
          /\ holder \in Migrators \cup {None}
          /\ locked \subseteq TenantTables
          /\ pc \in [Migrators -> {"idle", "script", "stamp", "done", "failed", "crashed"}]
          /\ goal \in [Migrators -> 0 .. Head]
          /\ start \in [Migrators -> 0 .. Head]
          /\ at \in [Migrators -> 0 .. Head]

\* The schema and the rows of s are those of revision n.
RowFits(s, n, x) ==
  s.row[x] # None =>
    /\ s.row[x].table \in s.tables
    /\ IF n = Head THEN s.row[x].account \in s.accounts ELSE s.row[x].account = None
Fits(s, n) ==
  /\ s.tables = (IF n > 0 THEN Core ELSE {})
                  \cup (IF n > 1 THEN {"revoked_tokens"} ELSE {})
                  \cup (IF n > 4 THEN {"invites"} ELSE {})
                  \cup (IF n > 5 THEN {"accounts"} ELSE {})
  /\ s.types = (IF n > 0 THEN EnumTypes ELSE {})
  /\ s.columns = (IF n > 2 THEN {"incident_id"} ELSE {})
                   \cup (IF n > 5 THEN {"account_id"} ELSE {})
  /\ s.unique = "none" <=> n = 0
  /\ n > 3 => s.unique = "convention"
  /\ \A x \in Rows : RowFits(s, n, x)

(* The committed schema is that of the committed revision, and at the head *)
(* every row has an account that exists, whatever runs raced, failed or    *)
(* died and whatever was inserted meanwhile.                               *)
SchemaFitsRevision == Fits(db, db.rev)

(* A run fails only if another one has moved the database away from the    *)
(* revision it read. No upgrade or downgrade stops by itself: not at an    *)
(* enum type left behind (21f84f2f9c09:97-99, 6f42612b6673:27), nor at     *)
(* rows that NOT NULL would refuse (55fd7ae9828b:42-44).                   *)
FailsOnlyIfOvertaken ==
  [][\A m \in Migrators :
       pc[m] # "failed" /\ pc'[m] = "failed" => start[m] # db.rev]_vars

(* A row is lost only with its table: an upgrade "protects real existing   *)
(* data" (55fd7ae9828b:43), a row inserted during a run included.          *)
RowsSurvive ==
  [][\A x \in Rows : db.row[x] # None /\ db.row[x].table \in db'.tables
       => db'.row[x] # None /\ db'.row[x].table = db.row[x].table]_vars

(* Runs that race, fail, die or are used meanwhile keep what               *)
(* RevisionPromise says: a run moves the schema and every row, one that is *)
(* inserted while it is under way included, in one step or not at all      *)
(* (env.py:41-64, one transaction for all scripts).                        *)
Outcome == [idle |-> "none", script |-> "pending", stamp |-> "pending",
            done |-> "done", failed |-> "failed", crashed |-> "crashed"]
Promise == INSTANCE RevisionPromise
             WITH rev <- db.rev,
                  row <- db.row,
                  outcome <- [m \in Migrators |-> Outcome[pc[m]]],
                  read <- start,
                  asked <- goal
PromiseSpec == Promise!Spec
=============================================================================
