--------------------------- MODULE SchemaMigration ---------------------------
(***************************************************************************)
(* Opening a database file: init creates the tables that are missing, and  *)
(* migrate rebuilds N tables an older version created without ON DELETE    *)
(* CASCADE.  Every statement commits by itself, so the process may die, or *)
(* a statement fail and New with it, between any two of them; the next     *)
(* start begins again with what the file holds.                            *)
(***************************************************************************)
EXTENDS Naturals

CONSTANTS
  N,            \* the number of tables to rebuild
  Row,          \* the rows a table can hold
  MaxCrashes    \* bound: how often opening the file is cut short

ASSUME NAssumption == N \in Nat \ {0}
ASSUME MaxCrashesAssumption == MaxCrashes \in Nat

VARIABLES
  table,      \* the N tables under their own names
  copy,       \* the N tables under their names with "_new" appended
  fk,         \* PRAGMA foreign_keys of the connection
  recorded,   \* schema_versions has the migration
  pc, i,      \* the next statement, and the table it is about
  stored,     \* history: the rows clients were told are stored
  crashes

vars == <<table, copy, fk, recorded, pc, i, stored, crashes>>

Index == 1..N
Missing == [exists |-> FALSE, rows |-> {}, cascades |-> FALSE]
Created == [exists |-> TRUE, rows |-> {}, cascades |-> TRUE]

(***************************************************************************)
(* The file is new, or an older version left some of the tables in it.     *)
(***************************************************************************)
Old(rows) == [exists |-> TRUE, rows |-> rows, cascades |-> FALSE]

Init ==
  /\ stored \in [Index -> SUBSET Row]
  /\ table \in [Index -> {Missing} \cup {Old(rows) : rows \in SUBSET Row}]
  /\ \A t \in Index : table[t].rows = stored[t]
  /\ copy = [t \in Index |-> Missing]
  /\ fk = FALSE /\ recorded = FALSE
  /\ pc = "pragma" /\ i = 1
  /\ crashes = 0

-----------------------------------------------------------------------------
(***************************************************************************)
(* init.                                                                   *)
(***************************************************************************)
Pragma ==
  /\ pc = "pragma"
  /\ fk' = TRUE
  /\ pc' = "table"
  /\ UNCHANGED <<table, copy, recorded, i, stored, crashes>>

\* CREATE TABLE IF NOT EXISTS, with the constraints of today.
CreateTable ==
  /\ pc = "table"
  /\ table' = [table EXCEPT ![i] = IF @.exists THEN @ ELSE Created]
  /\ IF i = N THEN pc' = "version" /\ i' = 1 ELSE pc' = pc /\ i' = i + 1
  /\ UNCHANGED <<copy, fk, recorded, stored, crashes>>

(***************************************************************************)
(* migrate.                                                                *)
(***************************************************************************)
CheckVersion ==
  /\ pc = "version"
  /\ pc' = IF recorded THEN "up" ELSE "disable"
  /\ UNCHANGED <<table, copy, fk, recorded, i, stored, crashes>>

\* Faulty DisableForeignKeys: records the version before the work is done.
DisableAndRecord ==
  /\ pc = "disable"
  /\ fk' = FALSE /\ recorded' = TRUE
  /\ pc' = "create"
  /\ UNCHANGED <<table, copy, i, stored, crashes>>

DisableForeignKeys ==
  /\ pc = "disable"
  /\ fk' = FALSE
  /\ pc' = "create"
  /\ UNCHANGED <<table, copy, recorded, i, stored, crashes>>

\* Faulty CreateCopy: drops what an earlier attempt left behind.
CreateCopyAfresh ==
  /\ pc = "create"
  /\ copy' = [copy EXCEPT ![i] = Created]
  /\ pc' = "fill"
  /\ UNCHANGED <<table, fk, recorded, i, stored, crashes>>

\* Faulty CreateCopy: without IF NOT EXISTS it fails on what is left behind.
CreateCopyOnce ==
  /\ pc = "create" /\ ~copy[i].exists
  /\ copy' = [copy EXCEPT ![i] = Created]
  /\ pc' = "fill"
  /\ UNCHANGED <<table, fk, recorded, i, stored, crashes>>

CreateCopy ==
  /\ pc = "create"
  /\ copy' = [copy EXCEPT ![i] = IF @.exists THEN @ ELSE Created]
  /\ pc' = "fill"
  /\ UNCHANGED <<table, fk, recorded, i, stored, crashes>>

\* INSERT OR IGNORE ... SELECT.
FillCopy ==
  /\ pc = "fill"
  /\ copy' = [copy EXCEPT ![i].rows = @ \cup table[i].rows]
  /\ pc' = "drop"
  /\ UNCHANGED <<table, fk, recorded, i, stored, crashes>>

DropTable ==
  /\ pc = "drop"
  /\ table' = [table EXCEPT ![i] = Missing]
  /\ pc' = "rename"
  /\ UNCHANGED <<copy, fk, recorded, i, stored, crashes>>

\* Faulty RenameCopy: the loop runs past its end.
RenameCopyPastEnd ==
  /\ pc = "rename"
  /\ table' = [table EXCEPT ![i] = copy[i]]
  /\ copy' = [copy EXCEPT ![i] = Missing]
  /\ IF i > N THEN pc' = "enable" /\ i' = 1 ELSE pc' = "create" /\ i' = i + 1
  /\ UNCHANGED <<fk, recorded, stored, crashes>>

RenameCopy ==
  /\ pc = "rename"
  /\ table' = [table EXCEPT ![i] = copy[i]]
  /\ copy' = [copy EXCEPT ![i] = Missing]
  /\ IF i = N THEN pc' = "enable" /\ i' = 1 ELSE pc' = "create" /\ i' = i + 1
  /\ UNCHANGED <<fk, recorded, stored, crashes>>

EnableForeignKeys ==
  /\ pc = "enable"
  /\ fk' = TRUE
  /\ pc' = "record"
  /\ UNCHANGED <<table, copy, recorded, i, stored, crashes>>

RecordVersion ==
  /\ pc = "record"
  /\ recorded' = TRUE
  /\ pc' = "up"
  /\ UNCHANGED <<table, copy, fk, i, stored, crashes>>

-----------------------------------------------------------------------------
(***************************************************************************)
(* The server runs: requests change the rows of a table.                   *)
(***************************************************************************)
Serve ==
  /\ pc = "up"
  /\ \E t \in Index, rows \in SUBSET Row :
       /\ table' = [table EXCEPT ![t].rows = rows]
       /\ stored' = [stored EXCEPT ![t] = rows]
  /\ UNCHANGED <<copy, fk, recorded, pc, i, crashes>>

(***************************************************************************)
(* The process dies and is started again; a new connection does not        *)
(* enforce foreign keys before the pragma.                                 *)
(***************************************************************************)
Crash ==
  /\ crashes < MaxCrashes
  /\ crashes' = crashes + 1
  /\ fk' = FALSE
  /\ pc' = "pragma" /\ i' = 1
  /\ UNCHANGED <<table, copy, recorded, stored>>

Open ==
  \/ Pragma \/ CreateTable
  \/ CheckVersion \/ DisableForeignKeys
  \/ CreateCopy \/ FillCopy \/ DropTable \/ RenameCopy
  \/ EnableForeignKeys \/ RecordVersion

Next == Open \/ Serve \/ Crash

Spec == Init /\ [][Next]_vars

\* Opening the file runs on one goroutine that nothing blocks.
FairSpec == Spec /\ WF_vars(Open)

=============================================================================
