------------------------- MODULE MigrationProperties -------------------------
(***************************************************************************)
(* What opening a database file must keep true, wherever it is cut short.  *)
(***************************************************************************)
EXTENDS SchemaMigration

TableStates == [exists : BOOLEAN, rows : SUBSET Row, cascades : BOOLEAN]
PcStates == {"pragma", "table", "version", "disable", "create", "fill", "drop", "rename",
             "enable", "record", "up"}

\* The variables have their types, and tables that do not exist have no rows.
MigrationTypeOK ==
  /\ table \in [Index -> TableStates] /\ copy \in [Index -> TableStates]
  /\ \A t \in Index : /\ ~table[t].exists => table[t] = Missing
                      /\ ~copy[t].exists => copy[t] = Missing
  /\ fk \in BOOLEAN /\ recorded \in BOOLEAN
  /\ pc \in PcStates /\ i \in Index
  /\ stored \in [Index -> SUBSET Row]
  /\ crashes \in 0..MaxCrashes

\* No row is lost: wherever the process dies, every stored row is still in its
\* table or in the half-built copy of it, where the next start finds it.
NoRowIsLost == \A t \in Index : stored[t] = table[t].rows \cup copy[t].rows

\* The server never runs on a half-migrated file: when it is up, every table has
\* exactly the stored rows, deleting a parent row removes its child rows, and
\* foreign keys are enforced.
ServesMigratedTables ==
  pc = "up" => /\ fk
               /\ \A t \in Index : /\ table[t].exists /\ table[t].cascades
                                   /\ table[t].rows = stored[t]
                                   /\ copy[t] = Missing

\* A start that is not cut short comes up, whatever earlier ones left behind.
StartComesUp == []<>(pc = "up")

=============================================================================
