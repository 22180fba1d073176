---------------------------- MODULE MCMigrations ----------------------------
(* Model-checking instance of Migrations: rows of a table that is there     *)
(* from the start and of one that comes later.                              *)
EXTENDS Migrations, TLC

MCRowTables == {"users", "invites"}
MCSymmetry == Permutations(Migrators) \cup Permutations(Rows) \cup Permutations(Tenants)
=============================================================================
