# PostMortem in TLA+

PostMortem is a FastAPI service: incidents, temporary mitigations, an audit
timeline, accounts with invites and roles, JWT access tokens with a denylist.
All its state is in PostgreSQL. A request is one coroutine with one database
session (`core/database.py` `get_db`), and its statements interleave with those
of every other request, in one process or in several. That interleaving is what
the modules below are about. Paths are relative to `src/src/` unless they say
otherwise.

## 1. Inventory

| component | state | operations | what is hard | what makes it correct |
|---|---|---|---|---|
| Incident lifecycle: `api/v1/incidents.py`, `services/incidents.py` | `incidents` rows: status, version | create, PATCH, resolve; list, get | checks are made on rows read statements earlier; optimistic concurrency by `version`; waiting for row locks; crashes | no lost update; RESOLVED is final and without mitigation; every request ends |
| Mitigations: `api/v1/mitigations.py`, `services/mitigations.py` | `mitigation_state`, one row per incident (unique index) | create, get, clear | row and status are written by different statements; concurrent clears; delete by primary key; `db.refresh` after the commit | MITIGATED if and only if a row is there, as far as the code keeps it; the timeline explains every row |
| Audit log: `services/audit.py`, `api/v1/audit.py` | `audit_logs`, append only | record (inside the caller's transaction); three read endpoints | an entry without its change, or a change without its entry | exactly one entry per committed change |
| Access tokens: `core/security.py`, logout in `api/v1/auth.py` | `revoked_tokens`, the clock | issue, decode, revoke with purge | purge against concurrent inserts, lookups and the clock; row-lock deadlock | a revoked live token stays denied; logouts end |
| Authentication and roles: `api/deps.py`, `PATCH /auth/users/{id}/role`, `GET /auth/users` | `users.role`, `users.is_active` | authenticate, require a role, change a role, list users | role and account are read once and used statements later; the token names a role that may be old; ORM writes based on a row loaded earlier | nobody acts on a role older than the request; nothing crosses accounts |
| Accounts, users, invites: `api/v1/auth.py`, `services/email.py` | `accounts`, `users` (unique email), `invites` | register, create and accept invite; list, preview, me, login | check-then-insert; mail sent inside the transaction | one user per invite; no orphan account; answers true of the rows |
| Database session: `core/database.py` | open transactions | commit, rollback at close | a request that dies anywhere | nothing uncommitted survives |
| Rate limit: `core/rate_limit.py` | counters in slowapi's memory | limit register and login | external library | - |
| Migrations: `src/migrations/` | schema, rows, `alembic_version` | six scripts, up and down, in one transaction per run | every container upgrades before it serves (`src/Dockerfile`), while others serve; crashes; rows inserted during a run; down and up again | schema fits revision; no script stops by itself; rows survive |
| Configuration, wiring, schemas | none | start-up, validation | - | - |

Interactions: every handler authenticates through `deps.get_current_user`
(tokens, then the user row), scopes its queries by the caller's `account_id`,
and calls `record_audit_log`, which only adds a row to the caller's open
transaction. Incidents and mitigations meet in two tables that no single
statement updates together; the only guards across them are the version column
and the unique index. The hazards are listed one by one, with their lines, in
`PROJECT.json`.

## 2. Modules

| module | models | extends |
|---|---|---|
| `IncidentLedger` | abstract: each committed change of an incident is one atomic step with one audit entry | |
| `Incidents` | PATCH, resolve, create and clear mitigation, statement by statement | `IncidentLedger` |
| `IncidentsProofs` | the proofs about `Incidents` | `Incidents` |
| `TokenPromise` | abstract: logout and the check of a token as atomic steps, without clock or locks | |
| `Sessions` | token issue, decode and lookup, logout with purge, row locks, deadlock detection | instance of `TokenPromise` |
| `SessionsProofs` | the proofs about `Sessions` | `Sessions` |
| `Membership` | abstract: register, invite and accept as atomic steps, refused only when that is deserved | |
| `Accounts` | register, invites, accept | instance of `Membership` |
| `AccountsProofs` | the proofs about `Accounts` | `Accounts` |
| `Tenancy` | abstract: the rows, requests and answers of one account; of others it knows the addresses that are taken, no more | |
| `Access` | authentication and role check composed with the handlers behind them, over several accounts: create, PATCH, role change, invite; the audit, incident, user and invite readers | an instance of `Tenancy` per account |
| `AccessProofs` | the proofs about the invariants of `Access` | `Access` |
| `TenancyProofs` | the proof that each account is isolated | `AccessProofs` |
| `RevisionPromise` | abstract: a run takes the database, every row included, from one revision to another in one step | |
| `Migrations` | the six scripts up and down, and concurrent runs of alembic over a database in use | instance of `RevisionPromise` |
| `MigrationsProofs` | the proofs about `Migrations` | `Migrations` |
| `MCIncidents`, `MCSessions`, `MCAccounts`, `MCAccess`, `MCMigrations` | TLC instances: symmetry sets and small value sets | |

### Incidents

`status`, `version`, `mitigation`, `audit` are the committed rows. A mitigation
row is named after the request that inserted it, an incident after its POST. A
request `r` has a place `pc[r]` and what it remembers: `seenVersion` (the
version its UPDATE will expect) and `seenMitigation` (the row object a clear
will delete). One action is one database statement with the Python code up to
the next one; a commit and the flush it triggers are one action, since nobody
can see between them. What a transaction has written and not committed is not
stored: it follows from `pc`. At `"held"` the incident row is updated and
locked; a `create_mitigation` at `"update"` or `"held"` has inserted its row.

PostgreSQL is modelled at READ COMMITTED, as the engine is configured by
default: a SELECT sees committed rows; `UPDATE ... WHERE version = v`
(`UpdateWins`) waits for a holder of the row and then looks again; an INSERT
that meets an uncommitted row in the unique index waits, and fails if that
commits. A DELETE by primary key that matches nothing is a warning in
SQLAlchemy, not an error (`AfterDelete`). `Fail` lets a request die at any
statement, which also stands for uncaught database errors (an explicit null in
a PATCH, a version beyond int32): the session closes and rolls back.

`IncidentLedger` says what the rows promise without requests and locks. Its two
odd actions, `LateUnwind` and `UnwindLeftover`, are exactly what concurrent
clears can do wrong (findings 1 and 2 below); everything else is what one would
want. The refinement is by identity on the rows: `Spec => LedgerSpec`.

Three properties are for whoever reads a timeline or meets a conflict.
`TimelineTellsStatus`: the status, which the code stores beside the log, is the
one the entries tell; finding 1 leaves an incident OPEN with a live mitigation,
but then one deletion is logged twice, so a reader can see it.
`VersionsAccounted`: every version left behind was expected by a request whose
entry is in the timeline. `ConflictsAreReal`: a resolve, create or clear that is
answered 409 by `apply_optimistic_update` has met such a request, never just a
lock, a rollback or a crash. A PATCH brings its version along, so its client may
be told of a conflict with nobody.

### Sessions

`denylist` is the committed `revoked_tokens`. A logout purges row by row
(`PurgesRow`) in any order, keeping a lock on each deleted row until it commits;
its `INSERT ... ON CONFLICT DO NOTHING` waits for a logout that has deleted the
same key. So logouts can wait for each other in a cycle, and `DeadlockVictim`
is the database's answer to it. A commit takes the rows it deleted from every
other purge under way: a row that is then inserted anew is not one those have
seen. The clock is a variable; `decode` compares with
it at one moment and looks at the table at a later one. `late` is a history
variable for `TableBounded`: the rows that were inserted when their token had
expired already, which the insert allows (`LateRow`). All other expired rows are
gone after a committed logout, also those that its purge left to another one,
or met after another one had rolled back.

`TokenPromise` is what a client may rely on: a logout revokes in one step, the
denylist forgets dead tokens only, a request is decided by the denylist of one
moment. The mapping takes `live` from the clock, joins the places of a logout
into `pending`, and leaves the denylist as it is. A crash after the commit is
`Lose` from `revoked`: the token is denied although nobody was told.

### Accounts

Users, accounts and invites are named after the request that created them.
Each check-then-act pair is two actions. `send_invite_email` is a step of its
own between the flush and the commit, since it may raise.

`Membership` keeps members, accounts and invites and lets each request take
effect in one step. It says what the checks that lie before that step are worth
when it comes: an accept needs an invite that nobody has accepted and an email
that nobody has, at that very moment, though `accept_invite` looks at neither
then (the unique email decides for it); an invite that has expired since it was
looked at is accepted all the same; the email of an invite may have been taken
since `create_invite` found it free. The mapping joins the places of a handler
into `asked` and `pending` and is the identity on the rows.

### Access

One request is an arrival with a token, the read of the caller's row
(`Authenticates`, which is `get_current_user` and `RequireRole`), and the
statements of its handler. What it read is kept in `call[r]`; roles change and
users are deactivated at any moment. `claims[u]` holds every role a token of
`u` may name: tokens outlive roles. An answer is kept in `seen[r]` as the kinds
of rows it holds with their account; filters and pages only make it smaller.
`held[r]` is a history variable for `AuthorityIsFresh`: the roles the caller
had, while active, since the request arrived. `SetRoleLoads` keeps the role the
ORM loaded: `SetRoleCommits` emits an UPDATE only if the assigned role differs
from it, as SQLAlchemy does, and appends the audit entry in either case. When
an admin changes the own role, the loaded role is the one read at
authentication, since the session already holds that row (`LoadedRole`). So the
last entry may name a role the user does not have (finding 4);
`RoleHistoryLogged` says what does hold: the log and one first role are all the
roles a user ever had.

A refusal is kept as its kind and the id, or the address, it is about; ids and
addresses may be those of another account, or of `Nobody`. An UPDATE that
matches no row (`UpdateMatchesNone`: wrong version, wrong account, no such id)
is explained by a second SELECT (`ExplainsNone`), which answers 409 for a row of
the account and 404 for any other. `create_invite` looks the address up in all
accounts (`ChecksEmail`); its answer of 400 is the one that depends on them.
Users are fixed here, how they join is in `Accounts`, and so are the addresses
that are taken. `Calls` are the operations of `Ops` that are called.

`Tenancy` is the program as one account knows it: members, incidents, log,
invites, and requests that are let in by the role of one moment, take effect in
one step and are answered from the account's own rows, all of them and no
others. What the account does not have is not found, and only what it has can be
in conflict (`Refusable`). It has no other accounts but for one constant,
`Elsewhere`: who has an account somewhere else, because an invite to such an
address is refused. So a program that implements it for each of its accounts is
one where accounts cannot influence each other in any other way. The mapping for
account `a` (`Tenant(a)`) keeps the rows whose `account_id` is `a` and the
requests whose caller belongs to `a`. `Isolation` says more than the two
invariants about accounts: those would let a request of A for the timeline of an
incident of B answer 200 with nothing in it, or a PATCH of it answer 409
(`src/tests/unit/test_incidents.py:273-289`), which tells A that it exists.

Not under `Isolation`: resolve and the mitigation endpoints. Their races are in
`Incidents`, which has no accounts. Resolve and create find their incident with
the helpers modelled here; `GET` and `DELETE` of a mitigation, which
`src/tests/unit/test_mitigations.py:168-171` asks about, rely on the mitigation
row's own `account_id` (`services/mitigations.py:10-19`), and no module has that
column. Nor are register and accept, which create users.

### Migrations

A database is a record: revision, tables, enum types, the two columns added
later, the name of the one constraint that b620b2c86e1b renames, accounts and
rows. Each script is an operator from the database it finds to the one it
leaves, or `None` when a statement of it fails. A run reads the revision
(`Begins`), then takes turns between a script and alembic's stamp (`UPDATE
alembic_version ... WHERE version_num = <what it had>`, which fails when it
matches no row), and commits once. Transactions that change the schema are taken
one at a time (`holder`): two of them can both have begun, but the second waits
at the first common object, at the latest at the row of `alembic_version`, so
its scripts take effect after the first has ended; where it would wait holding
locks the first one needs, PostgreSQL breaks the deadlock, which is `Crash`. So
is an upgrade that PostgreSQL stops because it and a request of the application
wait for each other: alembic exits with an error then, and the database is as if
it had not begun. "Fails" in `FailsOnlyIfOvertaken` is narrower: a statement of
a script, or the stamp, that cannot succeed on the database it finds. A script
is one step. That no row can be inserted between its statements rests on the
locks that the first ALTER TABLE of each table takes and keeps until the commit
(`Locks`): an assumption, of which the properties show nothing. They are about
rows inserted before a script has its locks and after the commit. The
application inserts rows in any table that is not locked: before tenancy without
an account (the program of that time), after it with one. `Init` allows an empty
database or one made by the initial schema before `models/base.py` had its
naming convention.

`RevisionPromise` knows neither scripts nor stamps nor locks: a run reads a
revision, and its effect is one step that moves the revision to the goal and
each row to what `Moved` says: gone with its table, in the legacy account at the
latest revision, in nobody's below it. The mapping drops the holder's working
copy, so every script is a stutter and the commit is the step. That a downgrade
followed by an upgrade puts all tenants' rows into the legacy account is part of
the promise: it is what the scripts do, in one step of which no row gets lost.

## 3. Runs

| run | instance | shows |
|---|---|---|
| `incidents` | 5 requests, 1 incident, client version 2 | rows, versions and timelines agree; RESOLVED is final; conflicts are real; the refinement of `IncidentLedger` |
| `incidents_live` | 3 requests, 2 incidents, client versions 1 and 2 | every request is answered, and why: who waits, waits for one that does not; answers and timelines agree and do not mix |
| `sessions` | 1 request, 4 logouts, 2 tokens, clock to 2 | purge safety, that the table stays bounded, that a logout waits for a running one and a deadlock can always be broken, that none goes back, acceptance after revocation only by expiry in between, and the refinement of `TokenPromise` |
| `sessions_live` | 3 logouts, 2 tokens, starting with both revoked and expired | every logout is answered |
| `accounts` | 4 requests, 1 email, 2 accounts to start, 2 roles | invite and registration races; answers match rows; the refinement of `Membership` |
| `access` | 3 requests, 2 accounts (one with 2 users), one user may be deactivated, every operation but PATCH | scoping of rows and answers; freshness of authority; what a VIEWER sees; that the log has every role |
| `access_isolated` | 2 requests, the same accounts and users, every operation | the refinement of `Tenancy`, for both accounts |
| `migrations` | 4 runs, any goal, 1 row in `users` or `invites`, 1 tenant | schema against revision, rows, that no run stops by itself, and the refinement of `RevisionPromise` |

Bounds. Requests are one-shot: a retry is another request. Five on one incident
are enough for the longest known pattern (mitigate, clear, mitigate again, with
a clear that spans them, and a fifth that resolves or edits). A client version
of 2 is stale, current or early depending on what ran before it. A wait cycle
takes two expired rows, so two logouts that put them there and two that purge
them: four logouts from an empty table, or three (a cycle and a bystander) from
a table that already has the rows. Four account requests cover two invites for
one email, both accepted at once. Three requests in `access` are an admin who
changes a role, a caller whose role changes, and a third that left the entry
they meet. PATCH is left out there: its assignee check and its entry are those
of create, and the proofs have it for any number of requests. In
`access_isolated`, which has it, two are enough, since what an account must not
notice is one request of another (a PATCH and the create whose incident it
names), and what two requests do to each other inside an account is in it, too.
Four runs of alembic are two that race, a downgrade and a second upgrade; a goal
may be any revision, and one row is enough since no script or property relates
two rows. `LastTick` bounds the clock and nothing else; `Quiescent` stands for a
system with no request left, so that TLC's deadlock check would report any other
stop. Symmetry is used for safety only.

Violation runs state what the repository says and the code does not do:

1. `open_has_no_mitigation`: after a clear the incident is OPEN and has no
   mitigation (`src/tests/unit/test_mitigations.py:224-230`). A clear reads
   mitigation A; another clear removes A; B is applied; the first clear reads
   the incident, MITIGATED by B, reopens it and deletes A, which is not there.
2. `deletion_logged_once`: one MITIGATION_DELETED entry per mitigation
   (`src/tests/unit/test_mitigations.py:244-250`). Two clears that read the same
   row both answer 204 and both log.
3. `email_failure_keeps_invite`: the raw link is there "if email delivery isn't
   configured or fails" (`schemas/invite.py:15`). When it fails the handler
   answers 500 and the invite is rolled back.
4. `log_shows_role`: "full audit logging" (`src/README.md:3`). Two concurrent
   role changes can leave a last entry that names a role the user does not have.

Two more disagreements show without a run of their own. The downgrade of
b620b2c86e1b "Reverses the rename, but only if this migration actually performed
it" (line 43); `RenameDown` looks for the name, as the script does, and a
database created under the naming convention has that name from the start. A
later upgrade renames the constraint back, and nothing depends on it. A revoked
token "can no longer be used" (`core/security.py:56`), and an expired one is
rejected "before ever checking this table" (line 72); yet a token that expires,
and is purged, between the two statements of one `decode_access_token` is let
through. `RevokedRejectedWhileLive` says that this is the only way.

## 4. Fairness

`Incidents.Fairness`: once a request has arrived, its next statement runs if it
stays possible (the event loop and the database do not starve a request), and a
waiter gets the lock if it stays free. Weak fairness is enough because the only
guards that wait are the row lock and the unique index, each held by a request
that has itself only unconditional steps left: an insert waits for a transaction
that is past its insert, an update for one that is past its update. Nothing is
assumed about clients arriving or failing. `Sessions.Fairness` is the same for
lookups and logouts, and includes the deadlock detector, which PostgreSQL runs
after `deadlock_timeout`.

## 5. Proofs

All for every value of the constants, from the named assumptions of each module:
names of different kinds differ, neither a row nor a role is `None`, client
versions are integers, users have accounts. Liveness is left to TLC. The
inductive invariants stand at the head of the proof modules. They are no
properties of the runs, since what they say about the program is in the
properties that follow from them.

`IncidentsProofs`: `Invariance` proves `IInv` inductive. None of the safety
properties is inductive alone: that a commit may act on what its request read
long before needs to say what an unchanged version guarantees (`CheckedOK`,
`ClearOK`: nobody updated the row since, so it is still not RESOLVED, still
without a row, still MITIGATED), that at most one request holds the row
(`LockOK`), that at most one uncommitted row is in the index (`IndexOK`), and
that a committed update's version is past (`HistoryOK`). It holds one plain fact
that the runs do not repeat, because `TimelineTellsStatus` and
`RowUntilDeletionLogged` imply it: a MITIGATED incident has a row
(`MitigatedSafe`). Steps that write no row go through one lemma
(`LocalStepKeeps`), the four commits under the lock through another
(`CommitHeldKeeps`). From it: `ResolvedSafe`, `MitigatedSafe`, `UpdatesSafe`,
`TypeCorrect`; `ImplementsLedger` (every step maps to a ledger step or a
stutter); and `ResolvedForever`, which is proved of the ledger and carried over.

`LogInvariance` adds the timelines (`LogInv`): a ledger step changes a
mitigation row only with the entry that says so, creates only what was never
logged as deleted (`TimelineOK`; the creation is its request's only entry), and
a request's entry is on its own incident's timeline exactly if it committed,
or maybe if it is lost (`WriterOK`). The first part is proved of the ledger's
five steps (`WriteKeepsTimelines`), the second of the handlers'. From it:
`TimelineSound`, `ErrorExplained`, and `AnswersLogged`, which counts entries.

`TimelineTells` needs one more fact of each incident (`StatusTold`), proved of
the ledger like the timelines, since a ledger step decides it: an entry changes
what the log tells exactly as it changes the row (`AppendTells`, `WriteTells`).
That an OPEN incident has no live mitigation unless a deletion is logged twice
rests on `LateUnwind` being the only step that reopens beside one.
`VersionsExplained` is about requests, not rows: a commit under the lock makes
one new version, and the holder expected the old one (`CommitSupersedes`);
`VersionInv` adds that a version that was read is one the row has had: at least
1, and with `CheckedOK` and `ClearOK` at most the present one.
With it `ConflictsExplained` follows: a request whose update loses had read a
version that is now past, so somebody has superseded it, and it was not the
request itself, which has no entry yet.

`SessionsProofs`: what a purge visits or locks had expired at its cutoff, and
the cutoff is past (`PurgeOK`); hence a commit takes only expired rows off the
denylist: `RevokedDenied`, `RevokedRejected` for the lookup, and
`ImplementsPromise`, where the forgotten rows of `Revoke` are the locked ones.
`TableStaysBounded` is the converse. It needs `PurgeCovers`: a row with an
earlier expiry than the cutoff of a purge under way is still to be visited, or
locked by it, or late. A row that comes in meanwhile keeps that, since it is
late or expires after every cutoff that was read.

`AccountsProofs`: emails are unique, and an invite keeps its email, account and
role once a request has read it (`InviteOK`, `RequestOK`). So a second accept,
by the same invite or another one for the same email, meets the first one's
user: `InvitesSafe`, which counts the users of an invite, follows.

`AccessProofs`: the place of a request tells who calls, under which role it was
let in, and what it has checked (`RequestOK`); the caller's present role is
always among those held since the arrival (`HeldNow`), which is what makes the
read of the row, and not the token's claim, decisive. `RoleHistory` needs
`RolesKnown` besides: the role a row has, the role a session loaded and the role
a caller was let in with are all roles that the user's tokens may name, so a
write that is left out because nothing seems to change logs no role the user
never had.

`TenancyProofs` proves `Isolation` and, for every account, `Spec =>
Tenant(a)!Spec` (`ImplementsTenancy`). A step of one request changes an
account's view of that request only (`OneInView`); statements before the last,
and arrivals, are not seen (`MovesAside`, `ArrivesAside`); a commit changes the
incidents, the log, the roles and the invites of the caller's account as
`Tenancy` says and leaves those of any other (`CreateInView`, `UpdateInView`,
`SetRoleInView`, `InviteInView`, which need `RequestOK`: the user whose role is
written was found in the caller's account); a refusal is seen by its own account
only, and is one that account could get if the others' rows were not there
(`RefusedInView` and the lemmas after it: `AssigneeRefused`, `ExplainedInView`
and so on, `EmailRefused` by `Elsewhere`); and what the readers show is what
their abstract counterparts do (`EntriesInView`). The timeline needs an
invariant of its own, `FoundInv`: the incident that `get_incident_or_404` found
is still in the account a statement later.

`MigrationsProofs`: six lemmas, one per script, say what it does to rows, and
that it works on the schema of its revision and leaves that of the next
(`ScriptsRight` joins them). The invariant then speaks of the holder only: its
work fits the revision it has reached, or the database was no longer at the
revision it read and its stamp will not match (`HolderOK`); it carries every
row of the database whose table it keeps, and sees every row inserted until it
locks the table. `SchemaFits` is the commit, `NoRunStopsByItself` the failing
script or stamp, `RowsKept` the commit again.

The refinements of the two other abstract modules are proved action by action,
too. `AccountsProofs.ImplementsPromise` needs the uniqueness of emails for
`Accept` and `Register`, and for `Refuse` that a collision in the index means
the email is taken by a committed user. `MigrationsProofs.ImplementsPromise`
needs a second inductive invariant, `MovedInv`: as long as the database is at
the revision the holder read, its working copy of each row is `Moved` of the
revision it has reached, once it has reached another one (`MovedInvariance`; up
by `Backfill`, down by the dropped columns and tables, and a chain of scripts
because moving a row twice is moving it once, `MovedTwice`).

Liveness cannot be proved here, but what it rests on can. For requests:
`RequestsNotStuck` (a request that cannot go on waits for one that can, at most
one further away: no wait cycle exists) and `RequestsAdvancing` (every step of
a request brings it nearer to its answer, so there are at most five). For
logouts: `LogoutsNotStuck` (a running one can go on, or there is a cycle for the
deadlock detector; the proof takes the set of all running logouts as the
cycle) and `LogoutsAdvancing`.

Only model-checked: the two liveness properties (the prover does not do liveness
under fairness).

## 6. Not modelled

The content of titles, summaries and changes, hashing and signatures; mitigation
TTL (a read-time property that no handler consults); order and pages of the
readers (`list_incidents` pages without an ORDER BY, and the trails order by a
`created_at` stamped at flush, not at commit: no answer promises more); the
read-only `preview_invite` and `me`; which of an account's invites
`list_invites` returns (its docstring says "pending and expired", it returns
accepted ones, too); the accounts in resolve and the mitigation endpoints, see
section 2; alembic's offline mode, which prints SQL; slowapi's counters, an
external library; settings, routers and Pydantic schemas, which have no state.
What is left of the code has no state that steps change. Next steps would be
resolve and the mitigation endpoints in `Access`, and the pages of a timeline
that grows while it is read.
