---------------------------- MODULE MCMigrations ----------------------------
(* Small instances of Migrations for TLC.                                  *)
EXTENDS Migrations

CONSTANTS old, new

\* A rolling deployment: one instance of the previous build, one of the next.
MCEmbedded == [i \in Instances |-> IF i = old THEN {1, 2} ELSE {1, 2, 3}]
=============================================================================
