---------------------------- MODULE MCMigration ----------------------------
(***************************************************************************)
(* Instances of opening a database file for TLC.                           *)
(***************************************************************************)
EXTENDS MigrationProperties, TLC

Symmetry == Permutations(Row)

=============================================================================
