--------------------------- MODULE MigrationsProofs ---------------------------
(***************************************************************************)
(* Proofs about Migrations: however many runs of alembic race, die or are  *)
(* used meanwhile, the schema is that of its revision, no run stops by     *)
(* itself, and no row is lost but with its table.                          *)
(***************************************************************************)
EXTENDS Migrations, TLAPS

(* The inductive invariant. A run under way has stayed between what it     *)
(* read and what it was asked for, and has changed nothing unless it is    *)
(* the holder.                                                             *)
RunOK(m) ==
  pc[m] \in {"script", "stamp"} =>
    /\ IF goal[m] > start[m] THEN start[m] <= at[m] /\ at[m] <= goal[m]
                             ELSE goal[m] <= at[m] /\ at[m] <= start[m]
    /\ goal[m] # start[m]
    /\ holder # m => pc[m] = "script" /\ at[m] = start[m]

\* A row of db that the holder's transaction has, in the same table.
Carried(x) == work.row[x] # None /\ work.row[x].table = db.row[x].table
RowsCarried(m) ==
  \A x \in Rows :
    /\ db.row[x] # None
    /\ goal[m] > start[m] \/ db.row[x].table \in work.tables
    => Carried(x)

\* The holder's work fits the revision it has reached, unless the database
\* was no longer at the one it had read: then the stamp will not match.
HolderOK(m) ==
  /\ pc[m] \in {"script", "stamp"}
  /\ pc[m] = "script" => /\ start[m] = db.rev /\ work.rev = at[m]
                         /\ Fits(work, at[m])
  /\ pc[m] = "stamp" =>
       /\ at[m] # goal[m]
       /\ IF start[m] = db.rev THEN work.rev = at[m] /\ Fits(work, Target(m))
                               ELSE work.rev = db.rev /\ at[m] = start[m]
  /\ RowsCarried(m)
  /\ (TenantTables \cap db.tables) \ locked \subseteq work.tables
  /\ TenantTables \subseteq locked \/ ("account_id" \in db.columns <=> "account_id" \in work.columns)

IInv == /\ TypeOK /\ SchemaFitsRevision
        /\ \A m \in Migrators : RunOK(m)
        /\ holder = None => locked = {}
        /\ holder # None => HolderOK(holder)

\* What the holder has made of the rows is what its commit is to make of
\* them, had it been asked for the revision it has reached.
Reached(m) == IF pc[m] = "script" THEN at[m] ELSE Target(m)
WorkMoved(m) == /\ Reached(m) # start[m]
                /\ \A x \in Rows : work.row[x] = Promise!Moved(Reached(m), db.row[x])
MovedInv == IInv /\ (holder # None /\ start[holder] = db.rev => WorkMoved(holder))

---------------------------------------------------------------------------
(* What a script may do to a database s, leaving t.                        *)
KeepsRow(s, t, x) == t.row[x] # None /\ t.row[x].table = s.row[x].table
Ascends(s, t) == /\ t \in Database /\ t.rev = s.rev
                 /\ \A x \in Rows : s.row[x] # None => KeepsRow(s, t, x)
Descends(s, t) == /\ t \in Database /\ t.rev = s.rev /\ t.tables \subseteq s.tables
                  /\ \A x \in Rows : s.row[x] # None /\ s.row[x].table \in t.tables
                       => KeepsRow(s, t, x)
Guarded(n, s, t) ==
  /\ (TenantTables \cap s.tables) \ Locks(n) \subseteq t.tables
  /\ TenantTables \subseteq Locks(n) \/ ("account_id" \in s.columns <=> "account_id" \in t.columns)

---------------------------------------------------------------------------
(* The scripts, one by one *)

(* 21f84f2f9c09                                                            *)
LEMMA InitialScripts ==
  ASSUME NEW s \in Database
  PROVE  /\ InitialUp(s) # None => Ascends(s, InitialUp(s)) /\ Guarded(1, s, InitialUp(s))
         /\ InitialDown(s) # None => Descends(s, InitialDown(s)) /\ Guarded(1, s, InitialDown(s))
         /\ Fits(s, 0) => InitialUp(s) # None /\ Fits(InitialUp(s), 1)
         /\ Fits(s, 1) => InitialDown(s) # None /\ Fits(InitialDown(s), 0)
<1> USE DEF Core, EnumTypes, TenantTables, Locks
<1>1. PICK up : up = [s EXCEPT !.tables = @ \cup Core, !.types = @ \cup EnumTypes,
                               !.unique = "convention"]
  OBVIOUS
<1>2. up \in Database /\ up # None /\ up.tables = s.tables \cup Core
      /\ up.types = s.types \cup EnumTypes /\ up.columns = s.columns /\ up.rev = s.rev
      /\ up.row = s.row /\ up.unique = "convention"
  <2>1. up \in Database
    BY <1>1 DEF Database, Names
  <2>2. up # None
    BY <2>1, NoneIsNoRow
  <2> QED BY <1>1, <2>1, <2>2 DEF Database
<1>3. InitialUp(s) # None => InitialUp(s) = up
  BY <1>1 DEF InitialUp, Script
<1>4. InitialUp(s) # None => Ascends(s, InitialUp(s)) /\ Guarded(1, s, InitialUp(s))
  BY <1>2, <1>3 DEF Ascends, Guarded, KeepsRow
<1>5. ASSUME Fits(s, 0) PROVE InitialUp(s) # None /\ Fits(InitialUp(s), 1)
  <2>1. s.tables = {} /\ s.types = {} /\ s.columns = {} /\ \A x \in Rows : s.row[x] = None
    BY <1>5 DEF Fits, RowFits
  <2>2. InitialUp(s) = up
    BY <1>1, <2>1 DEF InitialUp, Script
  <2> QED BY <1>2, <2>1, <2>2 DEF Fits, RowFits, Head
<1>6. PICK down : down = [WithoutTables(s, Core) EXCEPT !.types = {}, !.unique = "none"]
  OBVIOUS
<1>7. /\ down \in Database /\ down.rev = s.rev /\ down.tables = s.tables \ Core
      /\ down.types = {} /\ down.columns = s.columns /\ down.unique = "none"
      /\ \A x \in Rows : down.row[x] = IF s.row[x] # None /\ s.row[x].table \in Core
                                       THEN None ELSE s.row[x]
  <2>1. WithoutTables(s, Core) \in Database
    BY DEF WithoutTables, Database
  <2>2. down \in Database
    BY <1>6, <2>1 DEF Database, Names
  <2> QED BY <1>6, <2>1, <2>2 DEF WithoutTables, Database
<1>8. InitialDown(s) # None => InitialDown(s) = down
  BY <1>6 DEF InitialDown, Script
<1>9. InitialDown(s) # None => Descends(s, InitialDown(s)) /\ Guarded(1, s, InitialDown(s))
  BY <1>7, <1>8 DEF Descends, Guarded, KeepsRow
<1>10. ASSUME Fits(s, 1) PROVE InitialDown(s) # None /\ Fits(InitialDown(s), 0)
  <2>1. s.tables = Core /\ s.columns = {} /\ \A x \in Rows : s.row[x] # None => s.row[x].table \in Core
    BY <1>10 DEF Fits, RowFits, Head
  <2>2. InitialDown(s) = down
    BY <1>6, <2>1 DEF InitialDown, Script
  <2> QED BY <1>7, <2>1, <2>2, NoneIsNoRow DEF Fits, RowFits, Head
<1> QED BY <1>4, <1>5, <1>9, <1>10

(* 43b79a424fe2                                                            *)
LEMMA RevokedScripts ==
  ASSUME NEW s \in Database
  PROVE  /\ RevokedUp(s) # None => Ascends(s, RevokedUp(s)) /\ Guarded(2, s, RevokedUp(s))
         /\ RevokedDown(s) # None => Descends(s, RevokedDown(s)) /\ Guarded(2, s, RevokedDown(s))
         /\ Fits(s, 1) => RevokedUp(s) # None /\ Fits(RevokedUp(s), 2)
         /\ Fits(s, 2) => RevokedDown(s) # None /\ Fits(RevokedDown(s), 1)
<1> USE DEF Core, TenantTables, Locks
<1>1. PICK up : up = [s EXCEPT !.tables = @ \cup {"revoked_tokens"}]
  OBVIOUS
<1>2. PICK down : down = [s EXCEPT !.tables = @ \ {"revoked_tokens"}]
  OBVIOUS
<1>3. up \in Database /\ down \in Database
  BY <1>1, <1>2 DEF Database
<1>4. /\ up # None /\ up.tables = s.tables \cup {"revoked_tokens"} /\ up.types = s.types
      /\ up.columns = s.columns /\ up.rev = s.rev /\ up.row = s.row /\ up.unique = s.unique
  BY <1>1, <1>3, NoneIsNoRow DEF Database
<1>5. /\ down # None /\ down.tables = s.tables \ {"revoked_tokens"} /\ down.types = s.types
      /\ down.columns = s.columns /\ down.rev = s.rev /\ down.row = s.row
      /\ down.unique = s.unique
  BY <1>2, <1>3, NoneIsNoRow DEF Database
<1>6. RevokedUp(s) \in {up, None} /\ RevokedDown(s) \in {down, None}
  BY <1>1, <1>2 DEF RevokedUp, RevokedDown, Script
<1>7. /\ RevokedUp(s) # None => Ascends(s, RevokedUp(s)) /\ Guarded(2, s, RevokedUp(s))
      /\ RevokedDown(s) # None => Descends(s, RevokedDown(s)) /\ Guarded(2, s, RevokedDown(s))
  BY <1>3, <1>4, <1>5, <1>6 DEF Ascends, Descends, Guarded, KeepsRow
<1>8. ASSUME Fits(s, 1) PROVE RevokedUp(s) # None /\ Fits(RevokedUp(s), 2)
  <2>1. RevokedUp(s) = up
    BY <1>1, <1>8 DEF RevokedUp, Script, Fits
  <2> QED BY <1>4, <1>8, <2>1 DEF Fits, RowFits, Head
<1>9. ASSUME Fits(s, 2) PROVE RevokedDown(s) # None /\ Fits(RevokedDown(s), 1)
  <2>1. RevokedDown(s) = down
    BY <1>2, <1>9 DEF RevokedDown, Script, Fits
  <2>2. down.tables = Core /\ s.tables = Core \cup {"revoked_tokens"}
    BY <1>5, <1>9 DEF Fits
  <2>3. ASSUME NEW x \in Rows PROVE RowFits(down, 1, x)
    <3>1. RowFits(s, 2, x) /\ (s.row[x] # None => s.row[x] \in Row)
      BY <1>9 DEF Fits, Database
    <3> QED BY <1>5, <2>2, <3>1 DEF RowFits, Head, Row
  <2> QED BY <1>5, <1>9, <2>1, <2>2, <2>3 DEF Fits
<1> QED BY <1>7, <1>8, <1>9

(* bce7ac2167ea                                                            *)
LEMMA IncidentIdScripts ==
  ASSUME NEW s \in Database
  PROVE  /\ IncidentIdUp(s) # None => Ascends(s, IncidentIdUp(s)) /\ Guarded(3, s, IncidentIdUp(s))
         /\ IncidentIdDown(s) # None =>
              Descends(s, IncidentIdDown(s)) /\ Guarded(3, s, IncidentIdDown(s))
         /\ Fits(s, 2) => IncidentIdUp(s) # None /\ Fits(IncidentIdUp(s), 3)
         /\ Fits(s, 3) => IncidentIdDown(s) # None /\ Fits(IncidentIdDown(s), 2)
<1> USE DEF Core, TenantTables, Locks
<1>1. PICK up : up = [s EXCEPT !.columns = @ \cup {"incident_id"}]
  OBVIOUS
<1>2. PICK down : down = [s EXCEPT !.columns = @ \ {"incident_id"}]
  OBVIOUS
<1>3. up \in Database /\ down \in Database
  BY <1>1, <1>2 DEF Database
<1>4. /\ up # None /\ up.tables = s.tables /\ up.types = s.types /\ up.rev = s.rev
      /\ up.columns = s.columns \cup {"incident_id"} /\ up.row = s.row /\ up.unique = s.unique
  BY <1>1, <1>3, NoneIsNoRow DEF Database
<1>5. /\ down # None /\ down.tables = s.tables /\ down.types = s.types /\ down.rev = s.rev
      /\ down.columns = s.columns \ {"incident_id"} /\ down.row = s.row
      /\ down.unique = s.unique
  BY <1>2, <1>3, NoneIsNoRow DEF Database
<1>6. IncidentIdUp(s) \in {up, None} /\ IncidentIdDown(s) \in {down, None}
  BY <1>1, <1>2 DEF IncidentIdUp, IncidentIdDown, Script
<1>7. /\ IncidentIdUp(s) # None => Ascends(s, IncidentIdUp(s)) /\ Guarded(3, s, IncidentIdUp(s))
      /\ IncidentIdDown(s) # None =>
           Descends(s, IncidentIdDown(s)) /\ Guarded(3, s, IncidentIdDown(s))
  BY <1>3, <1>4, <1>5, <1>6 DEF Ascends, Descends, Guarded, KeepsRow
<1>8. ASSUME Fits(s, 2) PROVE IncidentIdUp(s) # None /\ Fits(IncidentIdUp(s), 3)
  <2>1. IncidentIdUp(s) = up
    BY <1>1, <1>8 DEF IncidentIdUp, Script, Fits
  <2> QED BY <1>4, <1>8, <2>1 DEF Fits, RowFits, Head
<1>9. ASSUME Fits(s, 3) PROVE IncidentIdDown(s) # None /\ Fits(IncidentIdDown(s), 2)
  <2>1. IncidentIdDown(s) = down
    BY <1>2, <1>9 DEF IncidentIdDown, Script, Fits
  <2> QED BY <1>5, <1>9, <2>1 DEF Fits, RowFits, Head
<1> QED BY <1>7, <1>8, <1>9

(* b620b2c86e1b: only the name of a constraint changes, if at all.         *)
LEMMA RenameScripts ==
  ASSUME NEW s \in Database
  PROVE  /\ Ascends(s, RenameUp(s)) /\ Guarded(4, s, RenameUp(s))
         /\ Descends(s, RenameDown(s)) /\ Guarded(4, s, RenameDown(s))
         /\ RenameUp(s) # None /\ RenameDown(s) # None
         /\ Fits(s, 3) => Fits(RenameUp(s), 4)
         /\ Fits(s, 4) => Fits(RenameDown(s), 3)
<1>1. ASSUME NEW u \in Names, NEW t, t = [s EXCEPT !.unique = u]
      PROVE  /\ t \in Database /\ t.rev = s.rev /\ t.tables = s.tables /\ t.types = s.types
             /\ t.columns = s.columns /\ t.row = s.row /\ t.accounts = s.accounts
             /\ t.unique = u
  <2>1. t \in Database
    BY <1>1 DEF Database
  <2> QED BY <1>1, <2>1 DEF Database
<1>2. ASSUME NEW t, t \in {s, RenameUp(s), RenameDown(s)}
      PROVE  /\ t \in Database /\ t.rev = s.rev /\ t.tables = s.tables /\ t.types = s.types
             /\ t.columns = s.columns /\ t.row = s.row /\ t.accounts = s.accounts
  BY <1>1, <1>2 DEF RenameUp, RenameDown, Names
<1>3. ASSUME NEW t, t \in {RenameUp(s), RenameDown(s)}
      PROVE  Ascends(s, t) /\ Descends(s, t) /\ Guarded(4, s, t) /\ t # None
  BY <1>2, <1>3, NoneIsNoRow DEF Ascends, Descends, Guarded, KeepsRow
<1>4. ASSUME Fits(s, 3) PROVE Fits(RenameUp(s), 4)
  <2>1. s.unique \in {"default", "convention"}
    BY <1>4 DEF Fits, Database, Names
  <2>2. RenameUp(s).unique = "convention"
    BY <1>1, <2>1 DEF RenameUp, Names
  <2> QED BY <1>2, <1>4, <2>2 DEF Fits, RowFits, Head
<1>5. ASSUME Fits(s, 4) PROVE Fits(RenameDown(s), 3)
  <2>1. RenameDown(s).unique # "none"
    BY <1>1, <1>5 DEF RenameDown, Names, Fits
  <2> QED BY <1>2, <1>5, <2>1 DEF Fits, RowFits, Head
<1> QED BY <1>3, <1>4, <1>5

(* 6f42612b6673                                                            *)
LEMMA InvitesScripts ==
  ASSUME NEW s \in Database
  PROVE  /\ InvitesUp(s) # None => Ascends(s, InvitesUp(s)) /\ Guarded(5, s, InvitesUp(s))
         /\ InvitesDown(s) # None => Descends(s, InvitesDown(s)) /\ Guarded(5, s, InvitesDown(s))
         /\ Fits(s, 4) => InvitesUp(s) # None /\ Fits(InvitesUp(s), 5)
         /\ Fits(s, 5) => InvitesDown(s) # None /\ Fits(InvitesDown(s), 4)
<1> USE DEF Core, TenantTables, Locks
<1>1. PICK up : up = [s EXCEPT !.tables = @ \cup {"invites"}]
  OBVIOUS
<1>2. PICK down : down = WithoutTables(s, {"invites"})
  OBVIOUS
<1>3. up \in Database /\ down \in Database
  BY <1>1, <1>2 DEF WithoutTables, Database
<1>4. /\ up # None /\ up.tables = s.tables \cup {"invites"} /\ up.types = s.types
      /\ up.columns = s.columns /\ up.rev = s.rev /\ up.row = s.row /\ up.unique = s.unique
  BY <1>1, <1>3, NoneIsNoRow DEF Database
<1>5. /\ down # None /\ down.tables = s.tables \ {"invites"} /\ down.types = s.types
      /\ down.columns = s.columns /\ down.rev = s.rev /\ down.unique = s.unique
      /\ \A x \in Rows : down.row[x] = IF s.row[x] # None /\ s.row[x].table = "invites"
                                       THEN None ELSE s.row[x]
  BY <1>2, <1>3, NoneIsNoRow DEF WithoutTables, Database
<1>6. InvitesUp(s) \in {up, None} /\ InvitesDown(s) \in {down, None}
  BY <1>1, <1>2 DEF InvitesUp, InvitesDown, Script
<1>7. /\ InvitesUp(s) # None => Ascends(s, InvitesUp(s)) /\ Guarded(5, s, InvitesUp(s))
      /\ InvitesDown(s) # None => Descends(s, InvitesDown(s)) /\ Guarded(5, s, InvitesDown(s))
  BY <1>3, <1>4, <1>5, <1>6 DEF Ascends, Descends, Guarded, KeepsRow
<1>8. ASSUME Fits(s, 4) PROVE InvitesUp(s) # None /\ Fits(InvitesUp(s), 5)
  <2>1. InvitesUp(s) = up
    BY <1>1, <1>8 DEF InvitesUp, Script, Fits, EnumTypes
  <2> QED BY <1>4, <1>8, <2>1 DEF Fits, RowFits, Head
<1>9. ASSUME Fits(s, 5) PROVE InvitesDown(s) # None /\ Fits(InvitesDown(s), 4)
  <2>1. InvitesDown(s) = down
    BY <1>2, <1>9 DEF InvitesDown, Script, Fits
  <2>2. down.tables = Core \cup {"revoked_tokens"}
    BY <1>5, <1>9 DEF Fits, Head
  <2> QED BY <1>5, <1>9, <2>1, <2>2 DEF Fits, RowFits, Head
<1> QED BY <1>7, <1>8, <1>9

(* 55fd7ae9828b: the backfill leaves no row that NOT NULL would refuse.    *)
LEMMA TenancyScripts ==
  ASSUME NEW s \in Database
  PROVE  /\ TenancyUp(s) # None => Ascends(s, TenancyUp(s)) /\ Guarded(6, s, TenancyUp(s))
         /\ TenancyDown(s) # None => Descends(s, TenancyDown(s)) /\ Guarded(6, s, TenancyDown(s))
         /\ Fits(s, 5) => TenancyUp(s) # None /\ Fits(TenancyUp(s), 6)
         /\ Fits(s, 6) => TenancyDown(s) # None /\ Fits(TenancyDown(s), 5)
<1> USE DEF Core, TenantTables, Locks
<1>1. ASSUME NEW a \in {Legacy, None},
             NEW f, f = [x \in Rows |-> IF s.row[x] = None THEN None
                                        ELSE [s.row[x] EXCEPT !.account = a]]
      PROVE  /\ f \in [Rows -> Row \cup {None}]
             /\ \A x \in Rows : s.row[x] = None <=> f[x] = None
             /\ \A x \in Rows : f[x] # None => f[x].table = s.row[x].table /\ f[x].account = a
  <2>1. ASSUME NEW x \in Rows, s.row[x] # None
        PROVE  /\ f[x] \in Row /\ f[x] # None /\ f[x].table = s.row[x].table
               /\ f[x].account = a
    <3>1. s.row[x] \in Row
      BY <2>1 DEF Database
    <3>2. f[x] = [s.row[x] EXCEPT !.account = a]
      BY <1>1, <2>1
    <3> QED BY <3>1, <3>2, NoneIsNoRow DEF Row
  <2> QED BY <1>1, <2>1
<1>2. PICK up : up = [s EXCEPT !.tables = @ \cup {"accounts"}, !.columns = @ \cup {"account_id"},
                               !.accounts = {Legacy}, !.row = Backfill(s)]
  OBVIOUS
<1>3. PICK g : g = [x \in Rows |-> IF s.row[x] = None THEN None
                                   ELSE [s.row[x] EXCEPT !.account = None]]
  OBVIOUS
<1>4. PICK down : down = [s EXCEPT !.tables = @ \ {"accounts"}, !.columns = @ \ {"account_id"},
                                   !.accounts = {}, !.row = g]
  OBVIOUS
<1>5. /\ Backfill(s) \in [Rows -> Row \cup {None}]
      /\ \A x \in Rows : s.row[x] = None <=> Backfill(s)[x] = None
      /\ \A x \in Rows : Backfill(s)[x] # None =>
           Backfill(s)[x].table = s.row[x].table /\ Backfill(s)[x].account = Legacy
  BY <1>1 DEF Backfill
<1>6. /\ g \in [Rows -> Row \cup {None}]
      /\ \A x \in Rows : s.row[x] = None <=> g[x] = None
      /\ \A x \in Rows : g[x] # None => g[x].table = s.row[x].table /\ g[x].account = None
  BY <1>1, <1>3
<1>7. up \in Database /\ down \in Database
  BY <1>2, <1>4, <1>5, <1>6 DEF Database
<1>8. /\ up # None /\ up.tables = s.tables \cup {"accounts"} /\ up.types = s.types
      /\ up.columns = s.columns \cup {"account_id"} /\ up.rev = s.rev
      /\ up.row = Backfill(s) /\ up.unique = s.unique /\ up.accounts = {Legacy}
  BY <1>2, <1>7, NoneIsNoRow DEF Database
<1>9. /\ down # None /\ down.tables = s.tables \ {"accounts"} /\ down.types = s.types
      /\ down.columns = s.columns \ {"account_id"} /\ down.rev = s.rev
      /\ down.row = g /\ down.unique = s.unique
  BY <1>4, <1>7, NoneIsNoRow DEF Database
<1>10. TenancyUp(s) \in {up, None} /\ TenancyDown(s) \in {down, None}
  BY <1>2, <1>3, <1>4 DEF TenancyUp, TenancyDown, Script
<1>11. /\ TenancyUp(s) # None => Ascends(s, TenancyUp(s)) /\ Guarded(6, s, TenancyUp(s))
       /\ TenancyDown(s) # None => Descends(s, TenancyDown(s)) /\ Guarded(6, s, TenancyDown(s))
  BY <1>5, <1>6, <1>7, <1>8, <1>9, <1>10 DEF Ascends, Descends, Guarded, KeepsRow
<1>12. ASSUME Fits(s, 5) PROVE TenancyUp(s) # None /\ Fits(TenancyUp(s), 6)
  <2>1. TenancyUp(s) = up
    BY <1>2, <1>5, <1>12 DEF TenancyUp, Script, Fits
  <2>2. \A x \in Rows : RowFits(up, 6, x)
    BY <1>5, <1>8, <1>12 DEF Fits, RowFits, Head
  <2> QED BY <1>8, <1>12, <2>1, <2>2 DEF Fits
<1>13. ASSUME Fits(s, 6) PROVE TenancyDown(s) # None /\ Fits(TenancyDown(s), 5)
  <2>1. TenancyDown(s) = down
    BY <1>3, <1>4, <1>13 DEF TenancyDown, Script, Fits
  <2>2. down.tables = Core \cup {"revoked_tokens", "invites"} /\ down.columns = {"incident_id"}
    BY <1>9, <1>13 DEF Fits
  <2>3. \A x \in Rows : RowFits(down, 5, x)
    BY <1>6, <1>9, <1>13, <2>2, NoneIsNoRow DEF Fits, RowFits, Head, Database, Row
  <2> QED BY <1>9, <1>13, <2>1, <2>2, <2>3 DEF Fits
<1> QED BY <1>11, <1>12, <1>13

---------------------------------------------------------------------------
(* Runs *)

(* What a script may do it does, and on the schema it was written for it   *)
(* neither fails nor leaves another schema than the next.                  *)
LEMMA ScriptsRight ==
  ASSUME NEW n \in 1 .. Head, NEW s \in Database
  PROVE  /\ Upgrade(n, s) # None => Ascends(s, Upgrade(n, s)) /\ Guarded(n, s, Upgrade(n, s))
         /\ Downgrade(n, s) # None =>
              Descends(s, Downgrade(n, s)) /\ Guarded(n, s, Downgrade(n, s))
         /\ Fits(s, n - 1) => Upgrade(n, s) # None /\ Fits(Upgrade(n, s), n)
         /\ Fits(s, n) => Downgrade(n, s) # None /\ Fits(Downgrade(n, s), n - 1)
<1>1. CASE n = 1
  <2>1. Upgrade(n, s) = InitialUp(s) /\ Downgrade(n, s) = InitialDown(s) /\ n - 1 = 0
    BY <1>1 DEF Upgrade, Downgrade
  <2> QED BY <1>1, <2>1, InitialScripts
<1>2. CASE n = 2
  <2>1. Upgrade(n, s) = RevokedUp(s) /\ Downgrade(n, s) = RevokedDown(s) /\ n - 1 = 1
    BY <1>2 DEF Upgrade, Downgrade
  <2> QED BY <1>2, <2>1, RevokedScripts
<1>3. CASE n = 3
  <2>1. Upgrade(n, s) = IncidentIdUp(s) /\ Downgrade(n, s) = IncidentIdDown(s) /\ n - 1 = 2
    BY <1>3 DEF Upgrade, Downgrade
  <2> QED BY <1>3, <2>1, IncidentIdScripts
<1>4. CASE n = 4
  <2>1. Upgrade(n, s) = RenameUp(s) /\ Downgrade(n, s) = RenameDown(s) /\ n - 1 = 3
    BY <1>4 DEF Upgrade, Downgrade
  <2> QED BY <1>4, <2>1, RenameScripts
<1>5. CASE n = 5
  <2>1. Upgrade(n, s) = InvitesUp(s) /\ Downgrade(n, s) = InvitesDown(s) /\ n - 1 = 4
    BY <1>5 DEF Upgrade, Downgrade
  <2> QED BY <1>5, <2>1, InvitesScripts
<1>6. CASE n = 6
  <2>1. Upgrade(n, s) = TenancyUp(s) /\ Downgrade(n, s) = TenancyDown(s) /\ n - 1 = 5
    BY <1>6 DEF Upgrade, Downgrade
  <2> QED BY <1>6, <2>1, TenancyScripts
<1> QED BY <1>1, <1>2, <1>3, <1>4, <1>5, <1>6 DEF Head

(* The databases the program starts from.                                  *)
LEMMA InitInv == Init => IInv
<1> SUFFICES ASSUME Init PROVE IInv
  OBVIOUS
<1>1. Empty \in Database /\ Fits(Empty, 0) /\ Empty.rev = 0
  BY DEF Empty, Database, Fits, RowFits, NoRows, Names, Head
<1>2. ASSUME NEW n \in 1 .. 3
      PROVE  Old(n) \in Database /\ Fits(Old(n), n) /\ Old(n).rev = n
  <2>1. Old(n) \in Database
    <3>1. /\ Core \cup (IF n > 1 THEN {"revoked_tokens"} ELSE {})
               \in SUBSET (TenantTables \cup {"revoked_tokens", "accounts"})
          /\ (IF n > 2 THEN {"incident_id"} ELSE {}) \in SUBSET {"incident_id", "account_id"}
      BY DEF Core, TenantTables
    <3>2. n \in 0 .. Head /\ "default" \in Names
      BY DEF Head, Names
    <3> QED BY <1>1, <3>1, <3>2 DEF Old, Database
  <2>2. /\ Old(n).rev = n /\ Old(n).types = EnumTypes /\ Old(n).unique = "default"
        /\ Old(n).tables = Core \cup (IF n > 1 THEN {"revoked_tokens"} ELSE {})
        /\ Old(n).columns = IF n > 2 THEN {"incident_id"} ELSE {}
        /\ Old(n).row = NoRows
    BY DEF Old, Empty
  <2> QED BY <2>1, <2>2 DEF Fits, RowFits, Head, NoRows
<1>3. db \in Database /\ Fits(db, db.rev)
  BY <1>1, <1>2 DEF Init
<1>4. TypeOK
  BY <1>1, <1>3 DEF Init, TypeOK, Head
<1> QED BY <1>3, <1>4 DEF Init, IInv, SchemaFitsRevision, RunOK

(* Where a run under way stands, and the script it runs next.              *)
LEMMA NextScript ==
  ASSUME IInv, NEW m \in Migrators, pc[m] \in {"script", "stamp"}, at[m] # goal[m]
  PROVE  /\ ScriptNumber(m) \in 1 .. Head /\ Target(m) \in 0 .. Head
         /\ Up(m) <=> goal[m] > start[m]
         /\ IF Up(m) THEN at[m] = ScriptNumber(m) - 1 /\ Target(m) = ScriptNumber(m)
                     ELSE at[m] = ScriptNumber(m) /\ Target(m) = ScriptNumber(m) - 1
         /\ IF goal[m] > start[m] THEN start[m] <= Target(m) /\ Target(m) <= goal[m]
                                  ELSE goal[m] <= Target(m) /\ Target(m) <= start[m]
BY DEF IInv, TypeOK, RunOK, ScriptNumber, Target, Up, Head

(* A run begins and has changed nothing yet.                               *)
LEMMA BeginsKeeps ==
  ASSUME IInv, NEW m \in Migrators, NEW g \in 0 .. Head, Begins(m, g)
  PROVE  IInv'
<1>1. db.rev \in 0 .. Head /\ holder # m
  BY NamesAreDistinct DEF Begins, IInv, TypeOK, Database, HolderOK
<1>2. TypeOK'
  BY <1>1 DEF Begins, IInv, TypeOK
<1>3. \A k \in Migrators : RunOK(k)'
  BY <1>1, <1>2 DEF Begins, IInv, TypeOK, RunOK, Head
<1>4. ASSUME holder # None PROVE HolderOK(holder)'
  <2>1. holder \in Migrators \ {m} /\ HolderOK(holder)
    BY <1>1, <1>4 DEF IInv, TypeOK
  <2>2. pc'[holder] = pc[holder] /\ goal'[holder] = goal[holder]
        /\ start'[holder] = start[holder] /\ at'[holder] = at[holder]
    BY <2>1 DEF Begins, IInv, TypeOK
  <2> QED BY <2>1, <2>2 DEF Begins, HolderOK, RowsCarried, Carried, Target, Up
<1> QED BY <1>2, <1>3, <1>4 DEF Begins, IInv, SchemaFitsRevision

(* The transaction of a run is over; it has committed only as the holder.  *)
LEMMA EndsKeeps ==
  ASSUME IInv, NEW m \in Migrators, NEW how \in {"done", "failed", "crashed"},
         Ends(m, how), db' \in Database, SchemaFitsRevision', holder = m \/ db' = db
  PROVE  IInv'
<1>1. Empty \in Database
  BY DEF Empty, Database, NoRows, Names, Head
<1>2. TypeOK'
  BY <1>1 DEF Ends, IInv, TypeOK
<1>3. \A k \in Migrators : RunOK(k)'
  BY NamesAreDistinct DEF Ends, IInv, TypeOK, RunOK
<1>4. ASSUME holder' # None PROVE HolderOK(holder)' /\ holder' = holder
  <2>1. holder \in Migrators \ {m} /\ HolderOK(holder) /\ holder' = holder /\ db' = db
        /\ work' = work /\ locked' = locked
    BY <1>4 DEF Ends, IInv, TypeOK
  <2>2. pc'[holder] = pc[holder]
    BY <2>1 DEF Ends, IInv, TypeOK
  <2> QED BY <2>1, <2>2 DEF Ends, HolderOK, RowsCarried, Carried, Target, Up
<1> QED BY <1>2, <1>3, <1>4 DEF Ends, IInv

(* A script by run m of whatever revision, on whatever database it finds.  *)
LEMMA ScriptKeeps ==
  ASSUME IInv, NEW m \in Migrators, RunsScript(m), After(m) # None
  PROVE  IInv'
<1> DEFINE n == ScriptNumber(m)
<1>1. /\ pc[m] = "script" /\ at[m] # goal[m] /\ holder \in {None, m} /\ db' = db
      /\ holder' = m /\ work' = After(m) /\ locked' = locked \cup Locks(n)
      /\ pc' = [pc EXCEPT ![m] = "stamp"] /\ UNCHANGED <<goal, start, at>>
  BY DEF RunsScript
<1>2. /\ n \in 1 .. Head /\ (Up(m) <=> goal[m] > start[m])
      /\ IF Up(m) THEN at[m] = n - 1 /\ Target(m) = n ELSE at[m] = n /\ Target(m) = n - 1
  BY <1>1, NextScript
<1>3. PICK s \in Database : s = Before(m)
  BY DEF Before, IInv, TypeOK
<1>4. PICK t : t = After(m)
  OBVIOUS
<1>5. /\ t \in Database /\ t.rev = s.rev /\ Guarded(n, s, t)
      /\ IF Up(m) THEN Ascends(s, t) ELSE Descends(s, t)
      /\ Fits(s, at[m]) => Fits(t, Target(m))
  BY <1>2, <1>3, <1>4, ScriptsRight DEF After, Ascends, Descends
<1>6. /\ m # None /\ holder' # None
      /\ holder = m => HolderOK(m)
      /\ holder = None => s = db /\ locked = {} /\ at[m] = start[m]
  BY <1>1, <1>3, NamesAreDistinct DEF IInv, Before, RunOK
<1>7. TypeOK'
  <2>1. Locks(n) \subseteq TenantTables
    BY <1>2 DEF Locks, TenantTables, Core, Head
  <2> QED BY <1>1, <1>4, <1>5, <2>1 DEF IInv, TypeOK
<1>8. ASSUME NEW k \in Migrators PROVE RunOK(k)'
  <2>1. RunOK(k) /\ RunOK(m)
    BY DEF IInv
  <2>2. CASE k = m
    BY <1>1, <2>1, <2>2 DEF IInv, TypeOK, RunOK
  <2>3. CASE k # m
    <3>1. holder # k /\ holder' # k /\ pc'[k] = pc[k]
      BY <1>1, <2>3, NamesAreDistinct DEF IInv, TypeOK
    <3> QED BY <1>1, <2>1, <3>1 DEF RunOK
  <2> QED BY <2>2, <2>3
<1>9. pc'[m] = "stamp" /\ Target(m)' = Target(m) /\ work' = t
  BY <1>1, <1>4 DEF IInv, TypeOK, Target, Up
<1>10. IF start[m] = db.rev THEN t.rev = at[m] /\ Fits(t, Target(m))
                            ELSE t.rev = db.rev /\ at[m] = start[m]
  <2>1. CASE holder = m
    BY <1>1, <1>3, <1>5, <1>6, <2>1 DEF HolderOK, Before
  <2>2. CASE holder = None
    BY <1>5, <1>6, <2>2 DEF IInv, SchemaFitsRevision
  <2> QED BY <1>1, <2>1, <2>2
<1>11. RowsCarried(m)'
  <2>1. ASSUME NEW x \in Rows, db.row[x] # None,
               goal[m] > start[m] \/ db.row[x].table \in t.tables
        PROVE  t.row[x] # None /\ t.row[x].table = db.row[x].table
    <3>1. Up(m) \/ db.row[x].table \in s.tables
      BY <1>2, <1>5, <2>1 DEF Descends
    <3>2. s.row[x] # None /\ s.row[x].table = db.row[x].table
      BY <1>1, <1>2, <1>3, <1>6, <2>1, <3>1 DEF HolderOK, RowsCarried, Carried, Before
    <3> QED BY <1>2, <1>5, <2>1, <3>2 DEF Ascends, Descends, KeepsRow
  <2> QED BY <1>1, <1>9, <2>1 DEF RowsCarried, Carried
<1>12. /\ (TenantTables \cap db.tables) \ locked' \subseteq t.tables
       /\ TenantTables \subseteq locked'
            \/ ("account_id" \in db.columns <=> "account_id" \in t.columns)
  <2>1. CASE holder = m
    BY <1>1, <1>3, <1>5, <1>6, <2>1 DEF HolderOK, Before, Guarded
  <2>2. CASE holder = None
    BY <1>1, <1>5, <1>6, <2>2 DEF Guarded
  <2> QED BY <1>1, <2>1, <2>2
<1>13. HolderOK(m)'
  BY <1>1, <1>9, <1>10, <1>11, <1>12 DEF HolderOK
<1> QED BY <1>1, <1>6, <1>7, <1>8, <1>13 DEF IInv, SchemaFitsRevision

(* The stamp: the revision it replaces has to be the one the run read.     *)
LEMMA StampsKeeps ==
  ASSUME IInv, NEW m \in Migrators, Stamps(m)
  PROVE  IInv'
<1>1. pc[m] = "stamp" /\ db' = db /\ RunOK(m)
  BY DEF Stamps, IInv
<1>2. holder = m /\ HolderOK(m) /\ m # None
  BY <1>1, NamesAreDistinct DEF RunOK, IInv
<1>3. CASE work.rev # at[m]
  <2>1. Ends(m, "failed")
    BY <1>3 DEF Stamps
  <2>2. db' \in Database /\ SchemaFitsRevision'
    BY <1>1 DEF IInv, TypeOK, SchemaFitsRevision
  <2> QED BY <1>2, <2>1, <2>2, EndsKeeps
<1>4. CASE work.rev = at[m]
  <2>1. /\ work' = [work EXCEPT !.rev = Target(m)]
        /\ at' = [at EXCEPT ![m] = Target(m)]
        /\ pc' = [pc EXCEPT ![m] = "script"]
        /\ UNCHANGED <<holder, locked, goal, start>>
    BY <1>4 DEF Stamps
  <2>2. /\ start[m] = db.rev /\ Fits(work, Target(m)) /\ at[m] # goal[m]
        /\ RowsCarried(m) /\ (TenantTables \cap db.tables) \ locked \subseteq work.tables
        /\ \/ TenantTables \subseteq locked
           \/ "account_id" \in db.columns <=> "account_id" \in work.columns
    BY <1>1, <1>2, <1>4 DEF HolderOK
  <2>3. /\ Target(m) \in 0 .. Head
        /\ IF goal[m] > start[m] THEN start[m] <= Target(m) /\ Target(m) <= goal[m]
                                 ELSE goal[m] <= Target(m) /\ Target(m) <= start[m]
    BY <1>1, <2>2, NextScript
  <2>4. PICK t : t = [work EXCEPT !.rev = Target(m)]
    OBVIOUS
  <2>5. t \in Database
    BY <2>3, <2>4 DEF IInv, TypeOK, Database
  <2>6. /\ t.rev = Target(m) /\ t.tables = work.tables /\ t.types = work.types
        /\ t.columns = work.columns /\ t.unique = work.unique /\ t.row = work.row
        /\ t.accounts = work.accounts
    BY <2>3, <2>4 DEF IInv, TypeOK, Database
  <2>7. TypeOK'
    BY <1>1, <2>1, <2>3, <2>4, <2>5 DEF IInv, TypeOK
  <2>8. ASSUME NEW k \in Migrators PROVE RunOK(k)'
    <3>1. CASE k = m
      BY <1>1, <1>2, <2>1, <2>3, <3>1 DEF IInv, TypeOK, RunOK
    <3>2. CASE k # m
      <4>1. pc'[k] = pc[k] /\ at'[k] = at[k] /\ RunOK(k)
        BY <2>1, <3>2 DEF IInv, TypeOK
      <4> QED BY <2>1, <4>1 DEF RunOK
    <3> QED BY <3>1, <3>2
  <2>9. pc'[m] = "script" /\ at'[m] = Target(m) /\ work' = t
    BY <2>1, <2>4 DEF IInv, TypeOK
  <2>10. Fits(t, Target(m)) /\ RowsCarried(m)'
    BY <1>1, <2>1, <2>2, <2>6, <2>9 DEF Fits, RowFits, RowsCarried, Carried
  <2>11. HolderOK(m)'
    BY <1>1, <2>1, <2>2, <2>6, <2>9, <2>10 DEF HolderOK
  <2> QED BY <1>1, <1>2, <2>1, <2>7, <2>8, <2>11 DEF IInv, SchemaFitsRevision
<1> QED BY <1>3, <1>4

(* The holder commits what fits the revision it has reached.               *)
LEMMA CommitsKeeps ==
  ASSUME IInv, NEW m \in Migrators, Commits(m)
  PROVE  IInv' /\ holder = m /\ HolderOK(m) /\ start[m] = db.rev /\ db' = work
<1>1. /\ pc[m] = "script" /\ at[m] = goal[m] /\ db' = work /\ Ends(m, "done")
      /\ RunOK(m)
  BY DEF Commits, IInv
<1>2. holder = m /\ HolderOK(m)
  BY <1>1, NamesAreDistinct DEF RunOK, IInv
<1>3. start[m] = db.rev /\ db' \in Database /\ SchemaFitsRevision'
  BY <1>1, <1>2 DEF HolderOK, IInv, TypeOK, SchemaFitsRevision
<1> QED BY <1>1, <1>2, <1>3, EndsKeeps

(* A row inserted into a database that fits its revision.                  *)
LEMMA InsertedFits ==
  ASSUME NEW s \in Database, NEW x \in Rows, NEW t \in TenantTables, NEW a \in Tenants
  PROVE  /\ Inserted(s, x, t, a) \in Database /\ Inserted(s, x, t, a).rev = s.rev
         /\ Inserted(s, x, t, a).tables = s.tables /\ Inserted(s, x, t, a).columns = s.columns
         /\ Inserted(s, x, t, a).row[x] # None /\ Inserted(s, x, t, a).row[x].table = t
         /\ \A y \in Rows \ {x} : Inserted(s, x, t, a).row[y] = s.row[y]
         /\ \A n \in 0 .. Head : Fits(s, n) /\ t \in s.tables => Fits(Inserted(s, x, t, a), n)
<1>1. PICK new \in Row : /\ new.table = t
                         /\ new.account = IF "account_id" \in s.columns THEN a ELSE None
  <2>1. [table |-> t, account |-> IF "account_id" \in s.columns THEN a ELSE None] \in Row
    BY DEF Row
  <2> QED BY <2>1
<1>2. /\ [table |-> t, account |-> a] \in Row /\ [table |-> t, account |-> None] \in Row
      /\ new = [table |-> t, account |-> IF "account_id" \in s.columns THEN a ELSE None]
  BY <1>1 DEF Row
<1>3. PICK more : more = IF "account_id" \in s.columns THEN s.accounts \cup {a} ELSE s.accounts
  OBVIOUS
<1>4. PICK i : i = [s EXCEPT !.row = [s.row EXCEPT ![x] = new], !.accounts = more]
  OBVIOUS
<1>5. i \in Database
  BY <1>1, <1>3, <1>4 DEF Database
<1>6. /\ i.rev = s.rev /\ i.tables = s.tables /\ i.types = s.types /\ i.columns = s.columns
      /\ i.unique = s.unique /\ i.accounts = more /\ i.row[x] = new
      /\ \A y \in Rows \ {x} : i.row[y] = s.row[y]
  BY <1>4, <1>5 DEF Database
<1>7. Inserted(s, x, t, a) = i
  <2>1. CASE "account_id" \in s.columns
    BY <1>2, <1>3, <1>4, <2>1 DEF Inserted, Database
  <2>2. CASE "account_id" \notin s.columns
    BY <1>2, <1>3, <1>4, <2>2 DEF Inserted, Database
  <2> QED BY <2>1, <2>2
<1>8. ASSUME NEW n \in 0 .. Head, Fits(s, n), t \in s.tables PROVE Fits(i, n)
  <2>1. "account_id" \in s.columns <=> n = Head
    BY <1>8 DEF Fits, Head
  <2>2. ASSUME NEW y \in Rows PROVE RowFits(i, n, y)
    <3>1. CASE y = x
      BY <1>1, <1>3, <1>6, <1>8, <2>1, <3>1 DEF RowFits
    <3>2. CASE y # x
      <4>1. RowFits(s, n, y) /\ i.row[y] = s.row[y] /\ s.accounts \subseteq i.accounts
        BY <1>3, <1>6, <1>8, <3>2 DEF Fits
      <4> QED BY <1>6, <4>1 DEF RowFits
    <3> QED BY <3>1, <3>2
  <2> QED BY <1>6, <1>8, <2>2 DEF Fits
<1>9. new # None
  BY <1>1, NoneIsNoRow
<1> QED BY <1>1, <1>5, <1>6, <1>7, <1>8, <1>9

(* The application inserts a row, which an open migration sees, too.       *)
LEMMA InsertsKeeps ==
  ASSUME IInv, NEW x \in Rows, NEW t \in RowTables, NEW a \in Tenants, Inserts(x, t, a)
  PROVE  IInv'
<1>1. /\ t \in TenantTables /\ t \in db.tables \ locked /\ db' = Inserted(db, x, t, a)
      /\ work' = IF holder = None THEN work ELSE Inserted(work, x, t, a)
      /\ UNCHANGED <<holder, locked, pc, goal, start, at>>
  BY RowsHaveTables DEF Inserts
<1>2. db \in Database /\ work \in Database /\ db.rev \in 0 .. Head
  BY DEF IInv, TypeOK, Database
<1>3. PICK d : d = db'
  OBVIOUS
<1>4. /\ d \in Database /\ d.rev = db.rev /\ d.tables = db.tables /\ d.columns = db.columns
      /\ d.row[x].table = t /\ \A y \in Rows \ {x} : d.row[y] = db.row[y]
      /\ Fits(d, d.rev)
  BY <1>1, <1>2, <1>3, InsertedFits DEF IInv, SchemaFitsRevision
<1>5. PICK w : w = work'
  OBVIOUS
<1>6. w \in Database
  BY <1>1, <1>2, <1>5, InsertedFits
<1>7. TypeOK'
  BY <1>1, <1>3, <1>4, <1>5, <1>6 DEF IInv, TypeOK
<1>8. \A k \in Migrators : RunOK(k)'
  BY <1>1 DEF IInv, RunOK
<1>9. ASSUME holder # None PROVE HolderOK(holder)'
  <2>1. PICK m \in Migrators : m = holder
    BY <1>9 DEF IInv, TypeOK
  <2>2. HolderOK(m)
    BY <1>9, <2>1 DEF IInv
  <2>3. /\ w.rev = work.rev /\ w.tables = work.tables /\ w.columns = work.columns
        /\ w.row[x] # None /\ w.row[x].table = t /\ \A y \in Rows \ {x} : w.row[y] = work.row[y]
        /\ \A k \in 0 .. Head : Fits(work, k) /\ t \in work.tables => Fits(w, k)
    BY <1>1, <1>2, <1>5, <1>9, InsertedFits
  <2>4. t \in work.tables
    BY <1>1, <2>2 DEF HolderOK
  <2>5. Target(m)' = Target(m)
    BY <1>1 DEF Target, Up
  <2>6. at[m] \in 0 .. Head /\ (at[m] # goal[m] => Target(m) \in 0 .. Head)
    BY <2>2, NextScript DEF IInv, TypeOK, HolderOK
  <2>7. RowsCarried(m)'
    <3>1. ASSUME NEW y \in Rows, d.row[y] # None,
                 goal[m] > start[m] \/ d.row[y].table \in w.tables
          PROVE  w.row[y] # None /\ w.row[y].table = d.row[y].table
      <4>1. CASE y = x
        BY <1>4, <2>3, <4>1
      <4>2. CASE y # x
        BY <1>4, <2>2, <2>3, <3>1, <4>2 DEF HolderOK, RowsCarried, Carried
      <4> QED BY <4>1, <4>2
    <3> QED BY <1>1, <1>3, <1>5, <3>1 DEF RowsCarried, Carried
  <2>8. pc[m] = "script" => start[m] = d.rev /\ w.rev = at[m] /\ Fits(w, at[m])
    BY <1>4, <2>2, <2>3, <2>4, <2>6 DEF HolderOK
  <2>9. pc[m] = "stamp" =>
          /\ at[m] # goal[m]
          /\ IF start[m] = d.rev THEN w.rev = at[m] /\ Fits(w, Target(m))
                                 ELSE w.rev = d.rev /\ at[m] = start[m]
    BY <1>4, <2>2, <2>3, <2>4, <2>6 DEF HolderOK
  <2>10. HolderOK(m)'
    BY <1>1, <1>3, <1>4, <1>5, <2>2, <2>3, <2>5, <2>7, <2>8, <2>9 DEF HolderOK
  <2> QED BY <1>1, <2>1, <2>10
<1> QED BY <1>1, <1>3, <1>4, <1>7, <1>8, <1>9 DEF IInv, SchemaFitsRevision

(* Every step keeps the inductive invariant.                               *)
LEMMA NextInv == IInv /\ [Next]_vars => IInv'
<1> SUFFICES ASSUME IInv, [Next]_vars PROVE IInv'
  OBVIOUS
<1>1. ASSUME NEW m \in Migrators, Run(m) PROVE IInv'
  <2>1. ASSUME NEW g \in 0 .. Head, Begins(m, g) PROVE IInv'
    BY <2>1, BeginsKeeps
  <2>2. CASE RunsScript(m)
    <3>1. CASE After(m) # None
      BY <2>2, <3>1, ScriptKeeps
    <3>2. CASE After(m) = None
      <4>1. Ends(m, "failed") /\ db' = db
        BY <2>2, <3>2 DEF RunsScript
      <4>2. db' \in Database /\ SchemaFitsRevision'
        BY <4>1 DEF IInv, TypeOK, SchemaFitsRevision
      <4> QED BY <4>1, <4>2, EndsKeeps
    <3> QED BY <3>1, <3>2
  <2>3. CASE Stamps(m)
    BY <2>3, StampsKeeps
  <2>4. CASE Commits(m)
    BY <2>4, CommitsKeeps
  <2>5. CASE Crash(m)
    <3>1. Ends(m, "crashed") /\ db' = db
      BY <2>5 DEF Crash
    <3>2. db' \in Database /\ SchemaFitsRevision'
      BY <3>1 DEF IInv, TypeOK, SchemaFitsRevision
    <3> QED BY <3>1, <3>2, EndsKeeps
  <2> QED BY <1>1, <2>1, <2>2, <2>3, <2>4, <2>5 DEF Run
<1>2. ASSUME NEW x \in Rows, NEW t \in RowTables, NEW a \in Tenants, Inserts(x, t, a)
      PROVE  IInv'
  BY <1>2, InsertsKeeps
<1>3. CASE UNCHANGED vars
  <2>1. ASSUME NEW k PROVE (RunOK(k)' <=> RunOK(k)) /\ (HolderOK(k)' <=> HolderOK(k))
    BY <1>3 DEF vars, RunOK, HolderOK, RowsCarried, Carried, Target, Up
  <2> QED BY <1>3, <2>1 DEF vars, IInv, TypeOK, SchemaFitsRevision
<1> QED BY <1>1, <1>2, <1>3 DEF Next, Quiescent

---------------------------------------------------------------------------
(* What follows of every behaviour *)

(* The inductive invariant holds always (migrations/env.py,                *)
(* migrations/versions).                                                   *)
THEOREM Invariance == Spec => []IInv
<1>1. Init => IInv
  BY InitInv
<1>2. IInv /\ [Next]_vars => IInv'
  BY NextInv
<1> QED BY <1>1, <1>2, PTL DEF Spec

(* Every variable keeps to its type.                                       *)
THEOREM TypeCorrect == Spec => []TypeOK
<1>1. IInv => TypeOK
  BY DEF IInv
<1> QED BY <1>1, Invariance, PTL

(* Whatever runs race, fail or die, the committed schema is that of the    *)
(* committed revision, and at the head every row has an account that       *)
(* exists (migrations/env.py:41-64).                                       *)
THEOREM SchemaFits == Spec => []SchemaFitsRevision
<1>1. IInv => SchemaFitsRevision
  BY DEF IInv
<1> QED BY <1>1, Invariance, PTL

(* A script that fails, or a stamp that matches nothing, means another     *)
(* run's commit in between.                                                *)
LEMMA FailsOvertaken ==
  ASSUME IInv, NEW m \in Migrators, Run(m), pc[m] # "failed", pc'[m] = "failed"
  PROVE  start[m] # db.rev
<1>0. pc \in [Migrators -> {"idle", "script", "stamp", "done", "failed", "crashed"}]
  BY DEF IInv, TypeOK
<1>1. ASSUME NEW g \in 0 .. Head, Begins(m, g) PROVE FALSE
  BY <1>0, <1>1 DEF Begins
<1>2. CASE RunsScript(m)
  <2>1. After(m) = None /\ pc[m] = "script" /\ at[m] # goal[m] /\ holder \in {None, m}
    BY <1>0, <1>2 DEF RunsScript
  <2>2. SUFFICES ASSUME start[m] = db.rev PROVE FALSE
    OBVIOUS
  <2>3. /\ ScriptNumber(m) \in 1 .. Head
        /\ IF Up(m) THEN at[m] = ScriptNumber(m) - 1 ELSE at[m] = ScriptNumber(m)
    BY <2>1, NextScript
  <2>4. Before(m) \in Database
    BY DEF Before, IInv, TypeOK
  <2>5. Fits(Before(m), at[m])
    <3>1. CASE holder = m
      BY <2>1, <3>1, NamesAreDistinct DEF IInv, HolderOK, Before
    <3>2. CASE holder # m
      BY <2>1, <2>2, <3>2 DEF IInv, RunOK, SchemaFitsRevision, Before
    <3> QED BY <3>1, <3>2
  <2>6. CASE Up(m)
    BY <2>1, <2>3, <2>4, <2>5, <2>6, ScriptsRight DEF After
  <2>7. CASE ~Up(m)
    BY <2>1, <2>3, <2>4, <2>5, <2>7, ScriptsRight DEF After
  <2> QED BY <2>6, <2>7
<1>3. CASE Stamps(m)
  <2>1. pc[m] = "stamp" /\ work.rev # at[m]
    BY <1>0, <1>3 DEF Stamps
  <2>2. HolderOK(m)
    BY <2>1, NamesAreDistinct DEF IInv, RunOK
  <2> QED BY <2>1, <2>2 DEF HolderOK
<1>4. CASE Commits(m)
  BY <1>0, <1>4 DEF Commits, Ends
<1>5. CASE Crash(m)
  BY <1>0, <1>5 DEF Crash, Ends
<1> QED BY <1>1, <1>2, <1>3, <1>4, <1>5 DEF Run

(* No upgrade or downgrade stops by itself, however far it goes            *)
(* (21f84f2f9c09:97-99, 6f42612b6673:27, 55fd7ae9828b:42-48).              *)
THEOREM NoRunStopsByItself == Spec => FailsOnlyIfOvertaken
<1>1. ASSUME IInv, [Next]_vars, NEW m \in Migrators, pc[m] # "failed", pc'[m] = "failed"
      PROVE  start[m] # db.rev
  <2>1. ASSUME NEW k \in Migrators, Run(k) PROVE start[m] # db.rev
    <3>1. CASE k = m
      BY <1>1, <2>1, <3>1, FailsOvertaken
    <3>2. CASE k # m
      <4>1. pc'[m] = pc[m]
        BY <1>1, <2>1, <3>2
        DEF Run, Begins, RunsScript, Stamps, Commits, Crash, Ends, IInv, TypeOK
      <4> QED BY <1>1, <4>1
    <3> QED BY <3>1, <3>2
  <2>2. ASSUME NEW x \in Rows, NEW t \in RowTables, NEW a \in Tenants, Inserts(x, t, a)
        PROVE  FALSE
    BY <1>1, <2>2 DEF Inserts
  <2>3. CASE UNCHANGED vars
    BY <1>1, <2>3 DEF vars
  <2> QED BY <1>1, <2>1, <2>2, <2>3 DEF Next, Quiescent
<1>2. IInv /\ [Next]_vars =>
        [\A m \in Migrators : pc[m] # "failed" /\ pc'[m] = "failed" => start[m] # db.rev]_vars
  BY <1>1
<1> QED BY <1>2, Invariance, PTL DEF Spec, FailsOnlyIfOvertaken

(* A row is lost only with its table, one inserted while a migration was   *)
(* open included (55fd7ae9828b:42-48).                                     *)
THEOREM RowsKept == Spec => RowsSurvive
<1> DEFINE Kept == \A x \in Rows : db.row[x] # None /\ db.row[x].table \in db'.tables
                     => db'.row[x] # None /\ db'.row[x].table = db.row[x].table
<1>1. ASSUME IInv, NEW m \in Migrators, Run(m) PROVE Kept
  <2>1. CASE Commits(m)
    <3>1. RowsCarried(m) /\ db' = work
      BY <1>1, <2>1, CommitsKeeps DEF HolderOK
    <3> QED BY <3>1 DEF RowsCarried, Carried
  <2>2. CASE db' = db
    BY <2>2
  <2> QED BY <1>1, <2>1, <2>2 DEF Run, Begins, RunsScript, Stamps, Crash
<1>2. ASSUME IInv, NEW x \in Rows, NEW t \in RowTables, NEW a \in Tenants, Inserts(x, t, a)
      PROVE  Kept
  <2>1. t \in TenantTables /\ db \in Database /\ db' = Inserted(db, x, t, a) /\ db.row[x] = None
    BY <1>2, RowsHaveTables DEF Inserts, IInv, TypeOK
  <2>2. \A y \in Rows \ {x} : db'.row[y] = db.row[y]
    BY <2>1, InsertedFits
  <2> QED BY <2>1, <2>2
<1>3. UNCHANGED vars => Kept
  BY DEF vars
<1>4. IInv /\ [Next]_vars => [Kept]_vars
  BY <1>1, <1>2, <1>3 DEF Next, Quiescent
<1> QED BY <1>4, Invariance, PTL DEF Spec, RowsSurvive

---------------------------------------------------------------------------
(* The promise: what scripts make of the rows, all at once                 *)

(* A row of a database that fits revision k.                               *)
LEMMA FittingRow ==
  ASSUME NEW k \in 0 .. Head, NEW s \in Database, Fits(s, k), NEW x \in Rows, s.row[x] # None
  PROVE  /\ s.row[x] \in Row /\ s.row[x].table \in Promise!TablesAt(k)
         /\ s.row[x] = [table |-> s.row[x].table, account |-> s.row[x].account]
         /\ k < Head => s.row[x].account = None
<1>1. s.row[x] \in Row
  BY DEF Database
<1>2. s.row[x] = [table |-> s.row[x].table, account |-> s.row[x].account]
  BY <1>1 DEF Row
<1>3. s.row[x].table \in TenantTables /\ s.row[x].table \in s.tables
  BY <1>1 DEF Row, Fits, RowFits
<1>4. s.row[x].table \in Promise!TablesAt(k)
  BY <1>3 DEF Fits, TenantTables, Core, Promise!TablesAt
<1>5. k < Head => s.row[x].account = None
  BY DEF Fits, RowFits, Head
<1> QED BY <1>1, <1>2, <1>4, <1>5

(* One script moves every row from its revision to the next.               *)
LEMMA RowsMove ==
  ASSUME NEW n \in 1 .. Head, NEW s \in Database, NEW x \in Rows
  PROVE  /\ Fits(s, n - 1) => Upgrade(n, s).row[x] = Promise!Moved(n, s.row[x])
         /\ Fits(s, n) => Downgrade(n, s).row[x] = Promise!Moved(n - 1, s.row[x])
<1> DEFINE c == s.row[x]
<1>1. ASSUME Fits(s, n - 1) PROVE Upgrade(n, s).row[x] = Promise!Moved(n, s.row[x])
  <2>1. Upgrade(n, s) # None
    BY <1>1, ScriptsRight
  <2>2. c # None => /\ c.table \in Promise!TablesAt(n - 1)
                    /\ c = [table |-> c.table, account |-> None] /\ c.account = None
    <3>1. n - 1 \in 0 .. Head /\ n - 1 < Head
      BY DEF Head
    <3> QED BY <1>1, <3>1, FittingRow
  <2>3. c # None => c.table \in Promise!TablesAt(n)
    BY <2>2 DEF Promise!TablesAt, Head
  <2>4. CASE n < Head
    <3>1. Upgrade(n, s).row[x] = c
      <4>1. CASE n = 1
        BY <2>1, <4>1 DEF Upgrade, InitialUp, Script, Database
      <4>2. CASE n = 2
        BY <2>1, <4>2 DEF Upgrade, RevokedUp, Script, Database
      <4>3. CASE n = 3
        BY <2>1, <4>3 DEF Upgrade, IncidentIdUp, Script, Database
      <4>4. CASE n = 4
        BY <2>1, <4>4 DEF Upgrade, RenameUp, Database
      <4>5. CASE n = 5
        BY <2>1, <4>5 DEF Upgrade, InvitesUp, Script, Database
      <4> QED BY <2>4, <4>1, <4>2, <4>3, <4>4, <4>5 DEF Head
    <3> QED BY <2>2, <2>3, <2>4, <3>1 DEF Promise!Moved, Promise!Latest, Head
  <2>5. CASE n = Head
    <3>1. Upgrade(n, s).row[x] = Backfill(s)[x]
      BY <2>1, <2>5 DEF Upgrade, TenancyUp, Script, Database, Head
    <3>2. c # None => [c EXCEPT !.account = Legacy] = [table |-> c.table, account |-> Legacy]
      BY <2>2
    <3> QED BY <2>3, <2>5, <3>1, <3>2 DEF Backfill, Promise!Moved, Promise!Latest, Head
  <2> QED BY <2>4, <2>5 DEF Head
<1>2. ASSUME Fits(s, n) PROVE Downgrade(n, s).row[x] = Promise!Moved(n - 1, s.row[x])
  <2>1. Downgrade(n, s) # None
    BY <1>2, ScriptsRight
  <2>2. c # None => /\ c.table \in Promise!TablesAt(n)
                    /\ c = [table |-> c.table, account |-> c.account]
                    /\ n < Head => c.account = None
    BY <1>2, FittingRow DEF Head
  <2>3. CASE n \in {2, 3, 4}
    <3>1. Downgrade(n, s).row[x] = c
      <4>1. CASE n = 2
        BY <2>1, <4>1 DEF Downgrade, RevokedDown, Script, Database
      <4>2. CASE n = 3
        BY <2>1, <4>2 DEF Downgrade, IncidentIdDown, Script, Database
      <4>3. CASE n = 4
        BY <2>1, <4>3 DEF Downgrade, RenameDown, Database
      <4> QED BY <2>3, <4>1, <4>2, <4>3
    <3>2. c # None => c.table \in Promise!TablesAt(n - 1)
      BY <2>2, <2>3 DEF Promise!TablesAt
    <3> QED BY <2>2, <2>3, <3>1, <3>2 DEF Promise!Moved, Promise!Latest, Head
  <2>4. CASE n \in {1, 5}
    <3>1. PICK T : T = IF n = 1 THEN Core ELSE {"invites"}
      OBVIOUS
    <3>2. Downgrade(n, s).row[x] = IF c # None /\ c.table \in T THEN None ELSE c
      <4>1. CASE n = 1
        BY <2>1, <3>1, <4>1 DEF Downgrade, InitialDown, WithoutTables, Script, Database
      <4>2. CASE n = 5
        BY <2>1, <3>1, <4>2 DEF Downgrade, InvitesDown, WithoutTables, Script, Database
      <4> QED BY <2>4, <4>1, <4>2
    <3>3. c # None => (c.table \in Promise!TablesAt(n - 1) <=> c.table \notin T)
      BY <2>2, <2>4, <3>1 DEF Promise!TablesAt, Core
    <3> QED BY <2>2, <2>4, <3>2, <3>3 DEF Promise!Moved, Promise!Latest, Head
  <2>5. CASE n = Head
    <3>1. Downgrade(n, s).row[x] = IF c = None THEN None ELSE [c EXCEPT !.account = None]
      BY <2>1, <2>5 DEF Downgrade, TenancyDown, Script, Database, Head
    <3>2. c # None => [c EXCEPT !.account = None] = [table |-> c.table, account |-> None]
      BY <2>2
    <3>3. c # None => c.table \in Promise!TablesAt(n - 1)
      BY <2>2, <2>5 DEF Promise!TablesAt, Head
    <3> QED BY <2>5, <3>1, <3>2, <3>3 DEF Promise!Moved, Promise!Latest, Head
  <2> QED BY <2>3, <2>4, <2>5 DEF Head
<1> QED BY <1>1, <1>2

(* Moving a row in two steps, up or down, is moving it in one.             *)
LEMMA MovedTwice ==
  ASSUME NEW i \in 0 .. Head, NEW j \in 0 .. Head, NEW c \in Row \cup {None},
         j < i \/ c = None \/ c.table \in Promise!TablesAt(i)
  PROVE  Promise!Moved(j, Promise!Moved(i, c)) = Promise!Moved(j, c)
<1>1. CASE c = None \/ c.table \notin Promise!TablesAt(i)
  <2>1. Promise!Moved(i, c) = None
    BY <1>1 DEF Promise!Moved
  <2>2. c = None \/ c.table \notin Promise!TablesAt(j)
    BY <1>1 DEF Promise!TablesAt
  <2> QED BY <2>1, <2>2 DEF Promise!Moved
<1>2. CASE c # None /\ c.table \in Promise!TablesAt(i)
  <2>1. PICK a \in {Legacy, None} : Promise!Moved(i, c) = [table |-> c.table, account |-> a]
    BY <1>2 DEF Promise!Moved
  <2>2. [table |-> c.table, account |-> a] \in Row
    BY <1>2 DEF Row
  <2>3. Promise!Moved(i, c) # None /\ Promise!Moved(i, c).table = c.table
    BY <2>1, <2>2, NoneIsNoRow
  <2> QED BY <1>2, <2>3 DEF Promise!Moved
<1> QED BY <1>1, <1>2

(* A step that leaves the holder and its transaction alone.                *)
LEMMA HolderAtRest ==
  ASSUME MovedInv, NEW h \in Migrators, holder = h,
         UNCHANGED <<db, work, holder>>, pc'[h] = pc[h], at'[h] = at[h],
         goal'[h] = goal[h], start'[h] = start[h]
  PROVE  start'[h] = db'.rev => WorkMoved(h)'
<1>1. h # None
  BY NamesAreDistinct
<1>2. start[h] = db.rev => WorkMoved(h)
  BY <1>1 DEF MovedInv
<1> QED BY <1>2 DEF WorkMoved, Reached, Target, Up, Promise!Moved

(* The holder's next script moves the rows one revision further.           *)
LEMMA ScriptMoves ==
  ASSUME MovedInv, NEW m \in Migrators, RunsScript(m), After(m) # None, start[m] = db.rev
  PROVE  WorkMoved(m)'
<1>1. /\ pc[m] = "script" /\ at[m] # goal[m] /\ holder \in {None, m} /\ db' = db
      /\ work' = After(m) /\ pc' = [pc EXCEPT ![m] = "stamp"]
      /\ UNCHANGED <<goal, start, at>>
  BY DEF RunsScript
<1>2. IInv /\ RunOK(m) /\ m # None
  BY NamesAreDistinct DEF MovedInv, IInv
<1>3. /\ ScriptNumber(m) \in 1 .. Head /\ Target(m) \in 0 .. Head
      /\ at[m] \in 0 .. Head /\ (Up(m) <=> goal[m] > start[m])
      /\ IF Up(m) THEN at[m] = ScriptNumber(m) - 1 /\ Target(m) = ScriptNumber(m)
                  ELSE at[m] = ScriptNumber(m) /\ Target(m) = ScriptNumber(m) - 1
      /\ start[m] \in 0 .. Head
  BY <1>1, <1>2, NextScript DEF IInv, TypeOK
<1>4. pc'[m] = "stamp" /\ Target(m)' = Target(m)
  BY <1>1, <1>2 DEF IInv, TypeOK, Target, Up
<1>5. Target(m) # start[m]
  BY <1>1, <1>2, <1>3 DEF RunOK
<1>6. PICK s \in Database : s = Before(m)
  BY <1>2 DEF Before, IInv, TypeOK
<1>7. db \in Database /\ Fits(db, start[m])
  BY <1>2 DEF IInv, TypeOK, SchemaFitsRevision
<1>8. Fits(s, at[m])
  <2>1. CASE holder = m
    BY <1>1, <1>2, <1>6, <2>1 DEF IInv, HolderOK, Before
  <2>2. CASE holder # m
    BY <1>1, <1>2, <1>6, <1>7, <2>2 DEF RunOK, Before
  <2> QED BY <2>1, <2>2
<1>9. ASSUME NEW x \in Rows
      PROVE  work'.row[x] = Promise!Moved(Target(m), db.row[x])
  <2>1. work'.row[x] = Promise!Moved(Target(m), s.row[x])
    <3>1. CASE Up(m)
      <4>1. ScriptNumber(m) - 1 = at[m] /\ work' = Upgrade(ScriptNumber(m), s)
        BY <1>1, <1>3, <1>6, <3>1 DEF After
      <4> QED BY <1>3, <1>8, <3>1, <4>1, RowsMove
    <3>2. CASE ~Up(m)
      <4>1. ScriptNumber(m) = at[m] /\ work' = Downgrade(ScriptNumber(m), s)
        BY <1>1, <1>3, <1>6, <3>2 DEF After
      <4> QED BY <1>3, <1>8, <3>2, <4>1, RowsMove
    <3> QED BY <3>1, <3>2
  <2>2. CASE holder # m
    <3>1. s = db
      BY <1>6, <2>2 DEF Before
    <3> QED BY <2>1, <3>1
  <2>3. CASE holder = m
    <3>1. s.row[x] = Promise!Moved(at[m], db.row[x])
      BY <1>1, <1>2, <1>6, <2>3 DEF MovedInv, WorkMoved, Reached, Before
    <3>2. db.row[x] \in Row \cup {None}
      BY <1>7 DEF Database
    <3>3. Target(m) < at[m] \/ db.row[x] = None \/ db.row[x].table \in Promise!TablesAt(at[m])
      <4>1. CASE Up(m) /\ db.row[x] # None
        <5>1. db.row[x].table \in Promise!TablesAt(start[m])
          BY <1>3, <1>7, <4>1, FittingRow
        <5>2. start[m] <= at[m]
          BY <1>1, <1>2, <1>3, <4>1 DEF RunOK
        <5> QED BY <1>3, <5>1, <5>2 DEF Promise!TablesAt
      <4> QED BY <1>3, <4>1
    <3> QED BY <1>3, <2>1, <3>1, <3>2, <3>3, MovedTwice
  <2> QED BY <2>2, <2>3
<1> QED BY <1>1, <1>4, <1>5, <1>9 DEF WorkMoved, Reached, Promise!Moved

(* A stamp says how far the rows have come.                                *)
LEMMA StampMoves ==
  ASSUME MovedInv, NEW m \in Migrators, Stamps(m), work.rev = at[m], start[m] = db.rev
  PROVE  WorkMoved(m)'
<1>1. /\ pc[m] = "stamp" /\ db' = db /\ work' = [work EXCEPT !.rev = Target(m)]
      /\ at' = [at EXCEPT ![m] = Target(m)] /\ pc' = [pc EXCEPT ![m] = "script"]
      /\ UNCHANGED <<goal, start>>
  BY DEF Stamps
<1>2. IInv /\ holder = m /\ m # None
  BY <1>1, NamesAreDistinct DEF MovedInv, IInv, RunOK
<1>3. Target(m) # start[m] /\ \A x \in Rows : work.row[x] = Promise!Moved(Target(m), db.row[x])
  BY <1>1, <1>2 DEF MovedInv, WorkMoved, Reached
<1>4. at'[m] = Target(m) /\ pc'[m] = "script"
  BY <1>1, <1>2 DEF IInv, TypeOK
<1>5. work'.row = work.row
  BY <1>1, <1>2 DEF IInv, TypeOK, Database
<1> QED BY <1>1, <1>3, <1>4, <1>5 DEF WorkMoved, Reached, Promise!Moved

(* A row inserted while the migration is open looks to it as if it had     *)
(* been there before the run.                                              *)
LEMMA InsertMoves ==
  ASSUME MovedInv, NEW m \in Migrators, holder = m, start[m] = db.rev,
         NEW x \in Rows, NEW t \in RowTables, NEW a \in Tenants, Inserts(x, t, a)
  PROVE  WorkMoved(m)'
<1>1. /\ t \in TenantTables /\ t \in db.tables \ locked /\ db' = Inserted(db, x, t, a)
      /\ db.row[x] = None /\ UNCHANGED <<holder, locked, pc, goal, start, at>>
  BY RowsHaveTables DEF Inserts
<1>2. work' = Inserted(work, x, t, a) /\ IInv /\ HolderOK(m) /\ WorkMoved(m)
  BY NamesAreDistinct DEF Inserts, MovedInv, IInv
<1>3. db \in Database /\ work \in Database /\ Fits(db, start[m])
  BY <1>2 DEF IInv, TypeOK, SchemaFitsRevision
<1>4. Reached(m) \in 0 .. Head /\ Fits(work, Reached(m))
  <2>1. pc[m] = "stamp" => Target(m) \in 0 .. Head
    BY <1>2, NextScript DEF HolderOK
  <2> QED BY <1>2, <2>1 DEF IInv, TypeOK, HolderOK, Reached
<1>5. t \in work.tables /\ ("account_id" \in db.columns <=> "account_id" \in work.columns)
  BY <1>1, <1>2 DEF HolderOK
<1>6. start[m] # Head /\ Reached(m) # Head
      /\ "account_id" \notin db.columns /\ "account_id" \notin work.columns
  <2>1. start[m] # Reached(m) /\ start[m] \in 0 .. Head
    BY <1>2 DEF WorkMoved, IInv, TypeOK
  <2> QED BY <1>3, <1>4, <1>5, <2>1 DEF Fits, Head
<1>7. t \in Promise!TablesAt(Reached(m))
  BY <1>1, <1>4, <1>5 DEF Fits, TenantTables, Core, Promise!TablesAt
<1>8. ASSUME NEW s \in Database, "account_id" \notin s.columns, NEW y \in Rows
      PROVE  Inserted(s, x, t, a).row[y] =
               IF y = x THEN [table |-> t, account |-> None] ELSE s.row[y]
  BY <1>8 DEF Inserted, Database
<1>9. ASSUME NEW y \in Rows
      PROVE  work'.row[y] = Promise!Moved(Reached(m), db'.row[y])
  <2>1. CASE y = x
    <3>1. PICK c : c = [table |-> t, account |-> None]
      OBVIOUS
    <3>2. c \in Row /\ c # None /\ c.table = t
      BY <1>1, <3>1, NoneIsNoRow DEF Row
    <3>3. work'.row[y] = c /\ db'.row[y] = c
      BY <1>1, <1>2, <1>3, <1>6, <1>8, <2>1, <3>1
    <3> QED BY <1>6, <1>7, <3>1, <3>2, <3>3 DEF Promise!Moved, Promise!Latest, Head
  <2>2. CASE y # x
    <3>1. work'.row[y] = work.row[y] /\ db'.row[y] = db.row[y]
      BY <1>1, <1>2, <1>3, <1>6, <1>8, <2>2
    <3> QED BY <1>2, <3>1 DEF WorkMoved
  <2> QED BY <2>1, <2>2
<1>10. Reached(m)' = Reached(m)
  BY <1>1 DEF Reached, Target, Up
<1> QED BY <1>1, <1>2, <1>9, <1>10 DEF WorkMoved, Promise!Moved

(* Every step keeps what the holder's transaction is worth.                *)
LEMMA MovedNext == MovedInv /\ [Next]_vars => MovedInv'
<1> SUFFICES ASSUME MovedInv, [Next]_vars PROVE MovedInv'
  OBVIOUS
<1>1. IInv /\ IInv'
  BY NextInv DEF MovedInv
<1>2. SUFFICES ASSUME NEW h \in Migrators, holder' = h, start'[h] = db'.rev
               PROVE  WorkMoved(h)'
  BY <1>1 DEF MovedInv, IInv, TypeOK
<1>3. pc \in [Migrators -> {"idle", "script", "stamp", "done", "failed", "crashed"}]
      /\ goal \in [Migrators -> 0 .. Head] /\ start \in [Migrators -> 0 .. Head]
      /\ at \in [Migrators -> 0 .. Head] /\ h # None
      /\ (holder = h => pc[h] \in {"script", "stamp"})
  BY <1>1, NamesAreDistinct DEF IInv, TypeOK, HolderOK
<1>4. ASSUME NEW m \in Migrators, NEW how, Ends(m, how), db' = db PROVE WorkMoved(h)'
  <2>1. holder = h /\ m # h
    BY <1>2, <1>3, <1>4 DEF Ends
  <2> QED BY <1>2, <1>3, <1>4, <2>1, HolderAtRest DEF Ends
<1>5. ASSUME NEW m \in Migrators, NEW g \in 0 .. Head, Begins(m, g) PROVE WorkMoved(h)'
  <2>1. holder = h /\ m # h
    BY <1>2, <1>3, <1>5 DEF Begins
  <2> QED BY <1>2, <1>3, <1>5, <2>1, HolderAtRest DEF Begins
<1>6. ASSUME NEW m \in Migrators, RunsScript(m) PROVE WorkMoved(h)'
  <2>1. CASE After(m) = None
    BY <1>4, <1>6, <2>1 DEF RunsScript
  <2>2. CASE After(m) # None
    <3>1. h = m /\ start[m] = db.rev
      BY <1>2, <1>6, <2>2 DEF RunsScript
    <3> QED BY <1>6, <2>2, <3>1, ScriptMoves
  <2> QED BY <2>1, <2>2
<1>7. ASSUME NEW m \in Migrators, Stamps(m) PROVE WorkMoved(h)'
  <2>1. CASE work.rev # at[m]
    BY <1>4, <1>7, <2>1 DEF Stamps
  <2>2. CASE work.rev = at[m]
    <3>1. holder = h /\ start[h] = db.rev
      BY <1>2, <1>7, <2>2 DEF Stamps
    <3>2. m = h
      BY <1>1, <1>3, <1>7, <3>1 DEF IInv, RunOK, Stamps
    <3> QED BY <1>7, <2>2, <3>1, <3>2, StampMoves
  <2> QED BY <2>1, <2>2
<1>8. ASSUME NEW m \in Migrators, Commits(m) PROVE WorkMoved(h)'
  <2>1. holder = m
    BY <1>1, <1>8, CommitsKeeps
  <2> QED BY <1>2, <1>3, <1>8, <2>1 DEF Commits, Ends
<1>9. ASSUME NEW m \in Migrators, Crash(m) PROVE WorkMoved(h)'
  BY <1>4, <1>9 DEF Crash
<1>10. ASSUME NEW x \in Rows, NEW t \in RowTables, NEW a \in Tenants, Inserts(x, t, a)
       PROVE  WorkMoved(h)'
  <2>1. db'.rev = db.rev
    BY <1>1, <1>10, RowsHaveTables, InsertedFits DEF Inserts, IInv, TypeOK
  <2>2. holder = h /\ start[h] = db.rev
    BY <1>2, <1>10, <2>1 DEF Inserts
  <2> QED BY <1>10, <2>2, InsertMoves
<1>11. CASE UNCHANGED vars
  BY <1>2, <1>11, HolderAtRest DEF vars
<1> QED BY <1>5, <1>6, <1>7, <1>8, <1>9, <1>10, <1>11 DEF Next, Run, Quiescent

(* The rows as the open migration sees them are the committed rows, moved  *)
(* to the revision it has reached (migrations/versions).                   *)
THEOREM MovedInvariance == Spec => []MovedInv
<1>1. Init => MovedInv
  BY InitInv DEF Init, MovedInv
<1> QED BY <1>1, MovedNext, PTL DEF Spec

(* What the places of a run mean to whoever started it.                    *)
LEMMA OutcomeValues ==
  /\ Outcome["idle"] = "none" /\ Outcome["script"] = "pending" /\ Outcome["stamp"] = "pending"
  /\ Outcome["done"] = "done" /\ Outcome["failed"] = "failed" /\ Outcome["crashed"] = "crashed"
BY DEF Outcome

(* The databases migrations find are those of the promise.                 *)
LEMMA PromiseInit == Init => Promise!Init
<1> SUFFICES ASSUME Init PROVE Promise!Init
  OBVIOUS
<1>1. \A n \in 1 .. 3 : Old(n).rev = n /\ Old(n).row = NoRows
  BY DEF Old, Empty
<1>2. db.rev \in 0 .. 3 /\ db.row = NoRows
  BY <1>1 DEF Init, Empty
<1> QED BY <1>2, OutcomeValues DEF Init, Promise!Init, NoRows

(* A run moves the database in its commit, and nowhere else.               *)
LEMMA PromiseRun ==
  ASSUME MovedInv, NEW m \in Migrators, Run(m)
  PROVE  [Promise!Next]_Promise!vars
<1> DEFINE outcomes == [k \in Migrators |-> Outcome[pc[k]]]
<1>1. IInv /\ pc \in [Migrators -> {"idle", "script", "stamp", "done", "failed", "crashed"}]
  BY DEF MovedInv, IInv, TypeOK
<1>2. ASSUME NEW how \in {"failed", "crashed"}, Ends(m, how), db' = db,
             pc[m] \in {"script", "stamp"}, how = "failed" => start[m] # db.rev
      PROVE  Promise!GiveUp(m, how)
  <2>1. outcomes[m] = "pending" /\ outcomes' = [outcomes EXCEPT ![m] = how]
    BY <1>1, <1>2, OutcomeValues DEF Ends
  <2> QED BY <1>2, <2>1 DEF Ends, Promise!GiveUp
<1>3. ASSUME NEW step \in {"script", "stamp"}, pc[m] \in {"script", "stamp"},
             pc' = [pc EXCEPT ![m] = step], UNCHANGED <<db, start, goal>>
      PROVE  UNCHANGED Promise!vars
  <2>1. outcomes' = outcomes
    BY <1>1, <1>3, OutcomeValues
  <2> QED BY <1>3, <2>1 DEF Promise!vars
<1>4. ASSUME NEW g \in 0 .. Head, Begins(m, g) PROVE Promise!Ask(m, g)
  <2>1. outcomes[m] = "none"
        /\ outcomes' = [outcomes EXCEPT ![m] = IF g = db.rev THEN "done" ELSE "pending"]
    BY <1>1, <1>4, OutcomeValues DEF Begins
  <2> QED BY <1>4, <2>1 DEF Begins, Promise!Ask, Promise!Latest, Head
<1>5. CASE RunsScript(m)
  <2>1. CASE After(m) = None
    <3>1. Ends(m, "failed") /\ db' = db /\ pc[m] = "script"
      BY <1>5, <2>1 DEF RunsScript
    <3>2. pc[m] # "failed" /\ pc'[m] = "failed"
      BY <1>1, <3>1 DEF Ends
    <3>3. start[m] # db.rev
      BY <1>1, <3>2, FailsOvertaken
    <3> QED BY <1>2, <3>1, <3>3 DEF Promise!Next
  <2>2. CASE After(m) # None
    BY <1>3, <1>5, <2>2 DEF RunsScript
  <2> QED BY <2>1, <2>2
<1>6. CASE Stamps(m)
  <2>1. CASE work.rev # at[m]
    <3>1. Ends(m, "failed") /\ db' = db /\ pc[m] = "stamp"
      BY <1>6, <2>1 DEF Stamps
    <3>2. pc[m] # "failed" /\ pc'[m] = "failed"
      BY <1>1, <3>1 DEF Ends
    <3>3. start[m] # db.rev
      BY <1>1, <3>2, FailsOvertaken
    <3> QED BY <1>2, <3>1, <3>3 DEF Promise!Next
  <2>2. CASE work.rev = at[m]
    BY <1>3, <1>6, <2>2 DEF Stamps
  <2> QED BY <2>1, <2>2
<1>7. CASE Commits(m)
  <2>1. /\ pc[m] = "script" /\ at[m] = goal[m] /\ db' = work /\ Ends(m, "done")
        /\ holder = m /\ HolderOK(m) /\ start[m] = db.rev
    BY <1>1, <1>7, CommitsKeeps DEF Commits
  <2>2. work.rev = goal[m] /\ \A x \in Rows : work.row[x] = Promise!Moved(goal[m], db.row[x])
    BY <2>1, NamesAreDistinct DEF HolderOK, MovedInv, WorkMoved, Reached
  <2>3. work.row = [x \in Rows |-> Promise!Moved(goal[m], db.row[x])]
    <3>1. work.row = [x \in Rows |-> work.row[x]]
      BY <1>1 DEF IInv, TypeOK, Database
    <3> QED BY <2>2, <3>1
  <2>4. outcomes[m] = "pending" /\ outcomes' = [outcomes EXCEPT ![m] = "done"]
    BY <1>1, <2>1, OutcomeValues DEF Ends
  <2>5. Promise!TakeEffect(m)
    BY <2>1, <2>2, <2>3, <2>4 DEF Ends, Promise!TakeEffect
  <2> QED BY <2>5 DEF Promise!Next
<1>8. CASE Crash(m)
  BY <1>2, <1>8 DEF Crash, Promise!Next
<1> QED BY <1>4, <1>5, <1>6, <1>7, <1>8 DEF Run, Promise!Next, Promise!Latest, Head

(* The application's inserts are those of the promise.                     *)
LEMMA PromiseInserts ==
  ASSUME IInv, NEW x \in Rows, NEW t \in RowTables, NEW a \in Tenants, Inserts(x, t, a)
  PROVE  Promise!Insert(x, t, a)
<1>1. /\ t \in TenantTables /\ t \in db.tables /\ db' = Inserted(db, x, t, a)
      /\ db.row[x] = None /\ UNCHANGED <<pc, goal, start>>
  BY RowsHaveTables DEF Inserts
<1>2. db \in Database /\ Fits(db, db.rev) /\ db.rev \in 0 .. Head
  BY DEF IInv, TypeOK, SchemaFitsRevision, Database
<1>3. t \in Promise!TablesAt(db.rev) /\ ("account_id" \in db.columns <=> db.rev = Head)
  BY <1>1, <1>2 DEF Fits, TenantTables, Core, Promise!TablesAt, Head
<1>4. db'.rev = db.rev
  BY <1>1, <1>2, InsertedFits
<1>5. db'.row = [db.row EXCEPT ![x] =
                   [table |-> t, account |-> IF db.rev = Head THEN a ELSE None]]
  <2>1. CASE db.rev = Head
    BY <1>1, <1>2, <1>3, <2>1 DEF Inserted, Database
  <2>2. CASE db.rev # Head
    BY <1>1, <1>2, <1>3, <2>2 DEF Inserted, Database
  <2> QED BY <2>1, <2>2
<1> QED BY <1>1, <1>3, <1>4, <1>5 DEF Promise!Insert, Promise!Latest, Head

(* However runs of alembic race, fail, die and are used meanwhile, the     *)
(* database goes from revision to revision in single steps that take every *)
(* row along (env.py:41-64, migrations/versions).                          *)
THEOREM ImplementsPromise == Spec => PromiseSpec
<1>1. ASSUME MovedInv, [Next]_vars PROVE [Promise!Next]_Promise!vars
  <2>1. CASE UNCHANGED vars
    BY <2>1 DEF vars, Promise!vars
  <2>2. ASSUME NEW m \in Migrators, Run(m) PROVE [Promise!Next]_Promise!vars
    BY <1>1, <2>2, PromiseRun
  <2>3. ASSUME NEW x \in Rows, NEW t \in RowTables, NEW a \in Tenants, Inserts(x, t, a)
        PROVE  Promise!Next
    BY <1>1, <2>3, PromiseInserts DEF MovedInv, Promise!Next
  <2> QED BY <1>1, <2>1, <2>2, <2>3 DEF Next, Quiescent
<1> QED BY <1>1, PromiseInit, MovedInvariance, PTL DEF Spec, PromiseSpec, Promise!Spec
=============================================================================
