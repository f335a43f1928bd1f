---------------------------- MODULE StorageProofs ----------------------------
(***************************************************************************)
(* What all services stand on.                                             *)
(*                                                                         *)
(* The database file: for any number of tables, any set of rows and any    *)
(* number of crashes, no row is lost, and the server runs on migrated      *)
(* tables only.                                                            *)
(*                                                                         *)
(* The abstract store: whatever its kinds and references are, as long as   *)
(* nothing refers to resources that others own, a resource that goes, with *)
(* what it owns, leaves nobody behind.                                     *)
(*                                                                         *)
(* The whole schema: for any number of rows, what a reset leaves when it   *)
(* is cut short, and what a dump shows when requests go on meanwhile.      *)
(***************************************************************************)
EXTENDS MigrationProperties, StateDump, ResetTables, ForeignKeysProofs

CONSTANTS Kinds, Owns, Detaches, Blocks, Listed, Nothing   \* of the abstract store
VARIABLE resources                                         \* of the abstract store

Store == INSTANCE ReferentialStore WITH rows <- resources

-----------------------------------------------------------------------------
(***************************************************************************)
(* The database file.                                                      *)
(***************************************************************************)
Rebuilding == {"create", "fill", "drop", "rename"}

Rebuilt(t) == table[t].exists /\ table[t].cascades /\ copy[t] = Missing

(***************************************************************************)
(* The inductive invariant.  NoRowIsLost alone is not inductive: that      *)
(* DropTable loses nothing needs the copy to be full by then, and that     *)
(* RenameCopy overwrites nothing needs the table to be gone.               *)
(***************************************************************************)
TablesExist ==
  \A t \in Index : \/ table[t].exists
                   \/ pc = "pragma"
                   \/ pc = "table" /\ t >= i
                   \/ pc = "rename" /\ t = i

CopyInProgress ==
  /\ \A t \in Index : copy[t].exists => copy[t].cascades
  /\ pc \in {"fill", "drop", "rename"} => copy[i].exists
  /\ pc = "drop" => table[i].rows \subseteq copy[i].rows
  /\ pc = "rename" => table[i] = Missing

RebuiltSoFar ==
  /\ pc \in Rebuilding => \A t \in Index : t < i => Rebuilt(t)
  /\ pc \in {"enable", "record"} \/ recorded => \A t \in Index : Rebuilt(t)

VersionIsLast ==
  /\ recorded => pc \in {"pragma", "table", "version", "up"}
  /\ pc = "up" => recorded
  /\ pc \in {"table", "version", "record", "up"} => fk
  /\ pc \in {"pragma", "version", "disable", "enable", "record", "up"} => i = 1

MInv == /\ MigrationTypeOK /\ NoRowIsLost
        /\ TablesExist /\ CopyInProgress /\ RebuiltSoFar /\ VersionIsLast

\* There is a first table: N is positive.
LEMMA FirstIndex == 1 \in Index
BY NAssumption DEF Index

\* A file of any age satisfies the invariant.
LEMMA InitMInv == Init => MInv
<1> SUFFICES ASSUME Init PROVE MInv
  OBVIOUS
<1> USE NAssumption, MaxCrashesAssumption
<1>1. /\ \A t \in Index : copy[t] = Missing
      /\ \A t \in Index : table[t] = Missing \/ \E rows \in SUBSET Row : table[t] = Old(rows)
  BY DEF Init
<1>2. table \in [Index -> TableStates] /\ copy \in [Index -> TableStates]
  <2>1. Missing \in TableStates
    BY DEF TableStates, Missing
  <2>2. \A rows \in SUBSET Row : Old(rows) \in TableStates
    BY DEF TableStates, Old
  <2>3. \A x \in {Missing} \cup {Old(rows) : rows \in SUBSET Row} : x \in TableStates
    BY <2>1, <2>2
  <2>4. QED BY <2>1, <2>3 DEF Init
<1>3. MigrationTypeOK
  <2>1. \A t \in Index : /\ ~table[t].exists => table[t] = Missing
                         /\ ~copy[t].exists => copy[t] = Missing
    <3>1. \A rows \in SUBSET Row : Old(rows).exists
      BY DEF Old
    <3>2. \A t \in Index : table[t] = Missing \/ table[t].exists
      BY <1>1, <3>1
    <3>3. QED BY <1>1, <3>2
  <2>2. fk \in BOOLEAN /\ recorded \in BOOLEAN
    BY Zenon DEF Init
  <2>3. pc \in PcStates /\ stored \in [Index -> SUBSET Row] /\ crashes \in 0..MaxCrashes
    BY DEF Init, PcStates
  <2>4. i \in Index
    BY FirstIndex DEF Init
  <2>5. QED BY <1>2, <2>1, <2>2, <2>3, <2>4 DEF MigrationTypeOK
<1>4. NoRowIsLost
  BY <1>1 DEF Init, NoRowIsLost, Missing
<1>5. TablesExist /\ CopyInProgress /\ RebuiltSoFar /\ VersionIsLast
  BY <1>1 DEF Init, TablesExist, CopyInProgress, RebuiltSoFar, VersionIsLast, Rebuilding, Missing
<1>6. QED BY <1>3, <1>4, <1>5 DEF MInv

\* Every statement of the migration, and every kill, keeps it.
LEMMA NextMInv == MInv /\ [Next]_vars => MInv'
<1> SUFFICES ASSUME MInv, [Next]_vars PROVE MInv'
  OBVIOUS
<1> USE NAssumption, MaxCrashesAssumption
<1> USE DEF MInv
<1>1. CASE Pragma
  BY <1>1 DEF Pragma, MigrationTypeOK, NoRowIsLost, TablesExist, CopyInProgress, RebuiltSoFar,
              VersionIsLast, Rebuilding, Rebuilt, PcStates, Index
<1>2. CASE CreateTable
  <2>1. i \in Index /\ table[i] \in TableStates
    BY DEF MigrationTypeOK
  <2>2. \A t \in Index : table'[t] = IF t = i /\ ~table[t].exists THEN Created ELSE table[t]
    BY <1>2, <2>1 DEF CreateTable, MigrationTypeOK
  <2>3. table' \in [Index -> TableStates]
    BY <1>2, <2>1 DEF CreateTable, MigrationTypeOK, TableStates, Created
  <2>4. pc' \in {"table", "version"} /\ i' \in Index
    BY <1>2, <2>1 DEF CreateTable, Index
  <2>5. MigrationTypeOK'
    BY <1>2, <2>2, <2>3, <2>4 DEF CreateTable, MigrationTypeOK, PcStates, Created, Missing
  <2>6. NoRowIsLost'
    BY <1>2, <2>2 DEF CreateTable, NoRowIsLost, MigrationTypeOK, Created, Missing
  <2>7. TablesExist'
    BY <1>2, <2>1, <2>2 DEF CreateTable, TablesExist, Created, Index
  <2>8. CopyInProgress' /\ RebuiltSoFar' /\ VersionIsLast'
    BY <1>2, <2>2, <2>4 DEF CreateTable, CopyInProgress, RebuiltSoFar, VersionIsLast,
                            Rebuilding, Rebuilt, Created
  <2>9. QED BY <2>5, <2>6, <2>7, <2>8
<1>3. CASE CheckVersion
  BY <1>3 DEF CheckVersion, MigrationTypeOK, NoRowIsLost, TablesExist, CopyInProgress,
              RebuiltSoFar, VersionIsLast, Rebuilding, Rebuilt, PcStates, Index
<1>4. CASE DisableForeignKeys
  <2>1. /\ pc = "disable" /\ pc' = "create" /\ fk' = FALSE
        /\ UNCHANGED <<table, copy, recorded, i, stored, crashes>>
        /\ i = 1 /\ ~recorded
    BY <1>4 DEF DisableForeignKeys, VersionIsLast
  <2>2. MigrationTypeOK'
    BY <2>1 DEF MigrationTypeOK, PcStates
  <2>3. NoRowIsLost' /\ TablesExist' /\ CopyInProgress' /\ VersionIsLast'
    BY <2>1 DEF NoRowIsLost, TablesExist, CopyInProgress, VersionIsLast
  <2>4. RebuiltSoFar'
    BY <2>1 DEF RebuiltSoFar, Rebuilding, Rebuilt, Index
  <2>5. QED BY <2>2, <2>3, <2>4
<1>5. CASE CreateCopy
  <2>1. i \in Index /\ copy[i] \in TableStates
    BY DEF MigrationTypeOK
  <2>2. \A t \in Index : copy'[t] = IF t = i /\ ~copy[t].exists THEN Created ELSE copy[t]
    BY <1>5, <2>1 DEF CreateCopy, MigrationTypeOK
  <2>3. copy' \in [Index -> TableStates]
    BY <1>5, <2>1 DEF CreateCopy, MigrationTypeOK, TableStates, Created
  <2>4. MigrationTypeOK'
    BY <1>5, <2>2, <2>3 DEF CreateCopy, MigrationTypeOK, PcStates, Created, Missing
  <2>5. NoRowIsLost'
    BY <1>5, <2>2 DEF CreateCopy, NoRowIsLost, MigrationTypeOK, Created, Missing
  <2>6. TablesExist' /\ CopyInProgress' /\ VersionIsLast'
    BY <1>5, <2>1, <2>2 DEF CreateCopy, TablesExist, CopyInProgress, VersionIsLast, Created
  <2>7. RebuiltSoFar'
    BY <1>5, <2>1, <2>2 DEF CreateCopy, RebuiltSoFar, VersionIsLast, Rebuilding, Rebuilt, Index
  <2>8. QED BY <2>4, <2>5, <2>6, <2>7
<1>6. CASE FillCopy
  <2>1. i \in Index /\ copy[i] \in TableStates /\ copy[i].exists /\ table[i] \in TableStates
    BY <1>6 DEF FillCopy, MigrationTypeOK, CopyInProgress
  <2>2. \A t \in Index : copy'[t] = IF t = i THEN [copy[i] EXCEPT !.rows = @ \cup table[i].rows]
                                             ELSE copy[t]
    BY <1>6, <2>1 DEF FillCopy, MigrationTypeOK
  <2>3. /\ [copy[i] EXCEPT !.rows = @ \cup table[i].rows] \in TableStates
        /\ copy'[i].exists /\ copy'[i].cascades
        /\ copy'[i].rows = copy[i].rows \cup table[i].rows
    BY <2>1, <2>2 DEF TableStates, CopyInProgress
  <2>4. copy' \in [Index -> TableStates]
    BY <1>6, <2>1, <2>3 DEF FillCopy, MigrationTypeOK
  <2>5. MigrationTypeOK'
    BY <1>6, <2>2, <2>3, <2>4 DEF FillCopy, MigrationTypeOK, PcStates
  <2>6. NoRowIsLost'
    BY <1>6, <2>1, <2>2, <2>3 DEF FillCopy, NoRowIsLost
  <2>7. TablesExist' /\ CopyInProgress' /\ VersionIsLast'
    BY <1>6, <2>1, <2>2, <2>3 DEF FillCopy, TablesExist, CopyInProgress, VersionIsLast
  <2>8. RebuiltSoFar'
    BY <1>6, <2>1, <2>2 DEF FillCopy, RebuiltSoFar, VersionIsLast, Rebuilding, Rebuilt, Index
  <2>9. QED BY <2>5, <2>6, <2>7, <2>8
<1>7. CASE DropTable
  <2>1. i \in Index /\ copy[i].exists /\ table[i].rows \subseteq copy[i].rows
    BY <1>7 DEF DropTable, MigrationTypeOK, CopyInProgress
  <2>2. \A t \in Index : table'[t] = IF t = i THEN Missing ELSE table[t]
    BY <1>7, <2>1 DEF DropTable, MigrationTypeOK
  <2>3. table' \in [Index -> TableStates]
    BY <1>7 DEF DropTable, MigrationTypeOK, TableStates, Missing
  <2>4. MigrationTypeOK'
    BY <1>7, <2>2, <2>3 DEF DropTable, MigrationTypeOK, PcStates
  <2>5. NoRowIsLost'
    BY <1>7, <2>1, <2>2 DEF DropTable, NoRowIsLost, Missing
  <2>6. TablesExist' /\ CopyInProgress' /\ VersionIsLast'
    BY <1>7, <2>1, <2>2 DEF DropTable, TablesExist, CopyInProgress, VersionIsLast
  <2>7. RebuiltSoFar'
    BY <1>7, <2>1, <2>2 DEF DropTable, RebuiltSoFar, VersionIsLast, Rebuilding, Rebuilt, Index
  <2>8. QED BY <2>4, <2>5, <2>6, <2>7
<1>8. CASE RenameCopy
  <2>1. i \in Index /\ copy[i] \in TableStates /\ copy[i].exists /\ copy[i].cascades
        /\ table[i] = Missing
    BY <1>8 DEF RenameCopy, MigrationTypeOK, CopyInProgress
  <2>2. \A t \in Index : /\ table'[t] = IF t = i THEN copy[i] ELSE table[t]
                         /\ copy'[t] = IF t = i THEN Missing ELSE copy[t]
    BY <1>8, <2>1 DEF RenameCopy, MigrationTypeOK
  <2>3. table' \in [Index -> TableStates] /\ copy' \in [Index -> TableStates]
    BY <1>8, <2>1 DEF RenameCopy, MigrationTypeOK, TableStates, Missing
  <2>4. \/ i = N /\ pc' = "enable" /\ i' = 1
        \/ i # N /\ pc' = "create" /\ i' = i + 1
    BY <1>8 DEF RenameCopy
  <2>5. i' \in Index
    BY <2>1, <2>4 DEF Index
  <2>6. MigrationTypeOK'
    BY <1>8, <2>1, <2>2, <2>3, <2>4, <2>5 DEF RenameCopy, MigrationTypeOK, PcStates
  <2>7. NoRowIsLost'
    BY <1>8, <2>1, <2>2 DEF RenameCopy, NoRowIsLost, Missing
  <2>8. TablesExist' /\ CopyInProgress' /\ VersionIsLast'
    BY <1>8, <2>1, <2>2, <2>4 DEF RenameCopy, TablesExist, CopyInProgress, VersionIsLast, Missing
  <2>9. RebuiltSoFar'
    BY <1>8, <2>1, <2>2, <2>4
       DEF RenameCopy, RebuiltSoFar, VersionIsLast, Rebuilding, Rebuilt, Index
  <2>10. QED BY <2>6, <2>7, <2>8, <2>9
<1>9. CASE EnableForeignKeys
  BY <1>9 DEF EnableForeignKeys, MigrationTypeOK, NoRowIsLost, TablesExist, CopyInProgress,
              RebuiltSoFar, VersionIsLast, Rebuilding, Rebuilt, PcStates, Index
<1>10. CASE RecordVersion
  BY <1>10 DEF RecordVersion, MigrationTypeOK, NoRowIsLost, TablesExist, CopyInProgress,
               RebuiltSoFar, VersionIsLast, Rebuilding, Rebuilt, PcStates, Index
<1>11. CASE Serve
  <2>1. PICK t \in Index, rows \in SUBSET Row :
          /\ table' = [table EXCEPT ![t].rows = rows]
          /\ stored' = [stored EXCEPT ![t] = rows]
    BY <1>11 DEF Serve
  <2>2. /\ pc = "up" /\ UNCHANGED <<copy, fk, recorded, pc, i, crashes>>
        /\ \A u \in Index : table[u].exists /\ table[u].cascades /\ copy[u] = Missing
        /\ table[t] \in TableStates
    BY <1>11 DEF Serve, RebuiltSoFar, VersionIsLast, Rebuilt, MigrationTypeOK
  <2>3. /\ [table[t] EXCEPT !.rows = rows] \in TableStates
        /\ [table[t] EXCEPT !.rows = rows].rows = rows
        /\ [table[t] EXCEPT !.rows = rows].exists
        /\ [table[t] EXCEPT !.rows = rows].cascades
    BY <2>2 DEF TableStates
  <2>4. \A u \in Index :
          /\ table'[u] = IF u = t THEN [table[t] EXCEPT !.rows = rows] ELSE table[u]
          /\ stored'[u] = IF u = t THEN rows ELSE stored[u]
    BY <2>1 DEF MigrationTypeOK
  <2>5. table' \in [Index -> TableStates] /\ stored' \in [Index -> SUBSET Row]
    BY <2>1, <2>3 DEF MigrationTypeOK
  <2>6. MigrationTypeOK'
    BY <2>2, <2>3, <2>4, <2>5 DEF MigrationTypeOK
  <2>7. NoRowIsLost'
    <3>1. \A u \in Index : copy'[u].rows = {}
      BY <2>2 DEF Missing
    <3>2. \A u \in Index : stored[u] = table[u].rows \cup copy[u].rows /\ copy[u].rows = {}
      BY <2>2 DEF NoRowIsLost, Missing
    <3>3. \A u \in Index : stored'[u] = table'[u].rows
      BY <2>3, <2>4, <3>2
    <3>4. QED BY <3>1, <3>3 DEF NoRowIsLost
  <2>8. TablesExist' /\ CopyInProgress' /\ RebuiltSoFar' /\ VersionIsLast'
    BY <2>2, <2>3, <2>4 DEF TablesExist, CopyInProgress, RebuiltSoFar, VersionIsLast, Rebuilt,
                            Rebuilding
  <2>9. QED BY <2>6, <2>7, <2>8
<1>12. CASE Crash
  <2>1. /\ pc' = "pragma" /\ i' = 1 /\ fk' = FALSE
        /\ crashes' \in 0..MaxCrashes
        /\ UNCHANGED <<table, copy, recorded, stored>>
    BY <1>12 DEF Crash, MigrationTypeOK
  <2>2. MigrationTypeOK'
    BY <2>1, FirstIndex DEF MigrationTypeOK, PcStates
  <2>3. NoRowIsLost' /\ TablesExist' /\ CopyInProgress'
    BY <2>1 DEF NoRowIsLost, TablesExist, CopyInProgress
  <2>4. RebuiltSoFar' /\ VersionIsLast'
    BY <2>1 DEF RebuiltSoFar, VersionIsLast, Rebuilding, Rebuilt
  <2>5. QED BY <2>2, <2>3, <2>4
<1>13. CASE UNCHANGED vars
  BY <1>13 DEF vars, MigrationTypeOK, NoRowIsLost, TablesExist, CopyInProgress,
               RebuiltSoFar, VersionIsLast, Rebuilt
<1>14. QED
  BY <1>1, <1>2, <1>3, <1>4, <1>5, <1>6, <1>7, <1>8, <1>9, <1>10, <1>11, <1>12, <1>13
     DEF Next, Open

\* The invariant holds throughout.
LEMMA MigrationInvariant == Spec => []MInv
BY InitMInv, NextMInv, PTL DEF Spec

\* The variables keep their types, and a table that does not exist has no rows.
THEOREM MigrationTypeCorrect == Spec => []MigrationTypeOK
BY MigrationInvariant, PTL DEF MInv

\* Whatever the number of tables and of crashes, opening a database file never
\* loses a stored row.
THEOREM RowsSurviveMigration == Spec => []NoRowIsLost
BY MigrationInvariant, PTL DEF MInv

\* The server never runs on a file that is not wholly migrated.
THEOREM MigrationIsComplete == Spec => []ServesMigratedTables
<1>1. ASSUME MInv, pc = "up"
      PROVE  /\ fk
             /\ \A t \in Index : /\ table[t].exists /\ table[t].cascades
                                 /\ table[t].rows = stored[t]
                                 /\ copy[t] = Missing
  <2>1. fk /\ recorded
    BY <1>1 DEF MInv, VersionIsLast
  <2>2. \A t \in Index : Rebuilt(t)
    BY <1>1, <2>1 DEF MInv, RebuiltSoFar
  <2>3. \A t \in Index : table[t].rows = stored[t]
    <3>1. \A t \in Index : copy[t].rows = {}
      BY <2>2 DEF Rebuilt, Missing
    <3>2. QED BY <1>1, <3>1 DEF MInv, NoRowIsLost
  <2>4. QED BY <2>1, <2>2, <2>3 DEF Rebuilt
<1>2. MInv => ServesMigratedTables
  BY <1>1 DEF ServesMigratedTables
<1>3. QED BY <1>2, MigrationInvariant, PTL

-----------------------------------------------------------------------------
(***************************************************************************)
(* The abstract store.                                                     *)
(***************************************************************************)

Shallow ==
  /\ \A ref \in Store!References : ref.child \in Kinds /\ ref.parent \in Kinds
  /\ \A ref \in Owns : \A other \in Store!References : other.parent # ref.child
  /\ Listed \subseteq Owns

\* A resource that appears, or refers to others from now on, takes nothing away.
LEMMA AppearAddsOnly ==
  ASSUME NEW t \in Kinds, NEW k, Shallow, Store!NothingDangles,
         Store!Appear(t, k) \/ Store!Relink(t, k)
  PROVE  Store!NothingDangles'
<1>1. \A u \in Kinds : Store!Live(u) \subseteq DOMAIN resources'[u]
  BY DEF Store!Appear, Store!Relink, Store!Unchanged, Store!Live
<1>2. ASSUME NEW u \in Kinds, NEW x \in DOMAIN resources'[u]
      PROVE  Store!Settled(u, resources'[u][x])
  BY DEF Store!NothingDangles, Store!Appear, Store!Relink, Store!Unchanged, Store!Live
<1>3. ASSUME NEW u \in Kinds, NEW x \in DOMAIN resources'[u]
      PROVE  Store!Settled(u, resources[u][x])'
  BY <1>1, <1>2 DEF Store!Settled, Store!Live, Shallow
<1>4. QED BY <1>3 DEF Store!NothingDangles, Store!Live

\* A list that is replaced belongs to its owner alone: nothing refers to what is in it.
LEMMA ReplaceKeepsParents ==
  ASSUME NEW ref \in Listed, NEW owner, Shallow, Store!NothingDangles, Store!Replace(ref, owner)
  PROVE  Store!NothingDangles'
<1> DEFINE t == ref.child
<1>1. t \in Kinds /\ \A other \in Store!References : other.parent # t
  BY DEF Shallow, Store!References
<1>2. \A u \in Kinds \ {t} : resources'[u] = resources[u]
  BY DEF Store!Replace, Store!Unchanged
<1>3. ASSUME NEW u \in Kinds, NEW x \in DOMAIN resources'[u]
      PROVE  Store!Settled(u, resources'[u][x])
  <2>1. CASE u # t
    BY <1>2, <2>1 DEF Store!NothingDangles, Store!Live
  <2>2. CASE u = t
    BY <1>1, <2>2 DEF Store!Replace, Store!NothingDangles, Store!Live
  <2>3. QED BY <2>1, <2>2
<1>4. ASSUME NEW u \in Kinds, NEW x \in DOMAIN resources'[u]
      PROVE  Store!Settled(u, resources[u][x])'
  BY <1>1, <1>2, <1>3 DEF Store!Settled, Store!Live, Shallow
<1>5. QED BY <1>4 DEF Store!NothingDangles, Store!Live

\* Who referred to the resource is gone with it, detached, or would have kept it.
LEMMA DisappearLeavesNobodyBehind ==
  ASSUME NEW t \in Kinds, NEW k, Shallow, Store!NothingDangles, Store!Disappear(t, k)
  PROVE  Store!NothingDangles'
<1>1. SUFFICES ASSUME NEW u \in Kinds, NEW x \in DOMAIN resources'[u],
                      NEW ref \in Store!References, ref.child = u
               PROVE  /\ ref.col \in DOMAIN resources'[u][x]
                      /\ resources'[u][x][ref.col] \in DOMAIN resources'[ref.parent] \cup {Nothing}
  BY DEF Store!NothingDangles, Store!Settled, Store!Live
<1> DEFINE old == resources[u][x]
           v == old[ref.col]
<1>2. /\ x \in Store!Live(u) \ Store!Goes(t, k, u)
      /\ resources'[u][x] = Store!Detached(t, k, u, old)
  BY DEF Store!Disappear
<1>3. ref.col \in DOMAIN old /\ v \in Store!Live(ref.parent) \cup {Nothing}
  BY <1>1, <1>2 DEF Store!NothingDangles, Store!Settled
<1>4. /\ ref.col \in DOMAIN resources'[u][x]
      /\ resources'[u][x][ref.col] \in {v, Nothing}
  BY <1>2, <1>3 DEF Store!Detached
<1>5. CASE resources'[u][x][ref.col] = Nothing
  BY <1>4, <1>5
<1>6. CASE resources'[u][x][ref.col] = v /\ v # Nothing
  <2>1. ref.parent \in Kinds /\ v \in Store!Live(ref.parent)
    BY <1>3, <1>6 DEF Shallow
  <2>2. SUFFICES ASSUME v \in Store!Goes(t, k, ref.parent) PROVE FALSE
    BY <1>4, <1>6, <2>1 DEF Store!Disappear
  <2>3. ref.parent = t /\ v = k
    BY <2>2 DEF Store!Goes, Shallow
  <2>4. ref \notin Blocks
    BY <1>1, <1>2, <2>3 DEF Store!Disappear
  <2>5. ref \notin Owns
    BY <1>1, <1>2, <2>3 DEF Store!Goes
  <2>6. ref \notin Detaches
    BY <1>1, <1>2, <1>3, <1>6, <2>3 DEF Store!Detached
  <2>7. QED BY <2>4, <2>5, <2>6 DEF Store!References
<1>7. QED BY <1>4, <1>5, <1>6

\* Nothing refers to a resource that is not there, in every store whose resources that
\* are owned are referred to by nobody, and so in every service that implements one.
THEOREM NothingEverDangles ==
  ASSUME Shallow PROVE Store!Spec => []Store!NothingDangles
<1>1. Store!Init => Store!NothingDangles
  BY DEF Store!Init, Store!NothingDangles, Store!Live
<1>2. Store!NothingDangles /\ [Store!Next]_resources => Store!NothingDangles'
  <2>1. CASE UNCHANGED resources
    BY <2>1 DEF Store!NothingDangles, Store!Settled, Store!Live
  <2>2. CASE Store!Next
    BY <2>2, AppearAddsOnly, ReplaceKeepsParents, DisappearLeavesNobodyBehind DEF Store!Next
  <2>3. QED BY <2>1, <2>2
<1>3. QED BY <1>1, <1>2, PTL DEF Store!Spec

-----------------------------------------------------------------------------
(***************************************************************************)
(* The database with all its tables.                                       *)
(***************************************************************************)

\* Every foreign key is between two tables, with one of the three actions.
LEMMA KeysOfSchema ==
  /\ \A g \in AllKeys : /\ g.child \in Tables /\ g.parent \in Tables
                        /\ g.action \in {NoAction, Cascade, SetNull}
  /\ CascadesEndAtOnce(AllKeys)
<1>1. \A g \in AllKeys : /\ g.child \in Tables /\ g.parent \in Tables
                         /\ g.action \in {NoAction, Cascade, SetNull}
  BY DEF AllKeys, VpcKeys, InstanceKeys, LbKeys, K8sKeys, RdbKeys, IamKeys, BlockKeys,
         RdbCopyKeys, VpcGatewayKeys, LbDetailKeys, ForeignKey, Tables
<1>2. QED BY <1>1, SchemaCascadesEndAtOnce

\* The tables hold rows of the schema, and every reference is live.
Whole ==
  /\ db = [t \in Tables |-> db[t]]
  /\ \A t \in Tables : \A k \in DOMAIN db[t] : k \in Ids /\ db[t][k] \in Rows(t)
  /\ RefIntegrity(AllKeys, db)

\* Such a database has the columns the keys speak of.
LEMMA WholeIsLaidOut == Whole => LaidOutFor(AllKeys, db)
<1>1. SUFFICES ASSUME Whole, NEW g \in AllKeys, NEW c \in DOMAIN db[g.child]
               PROVE  g.col \in DOMAIN db[g.child][c]
  BY KeysOfSchema DEF LaidOutFor, Whole
<1>2. db[g.child][c] \in Rows(g.child)
  BY <1>1, KeysOfSchema DEF Whole
<1>3. QED BY <1>2 DEF Rows, Columns

\* An empty one is such a database.
LEMMA InitWhole == InitTables => Whole
<1>1. SUFFICES ASSUME InitTables PROVE Whole
  OBVIOUS
<1>2. db = [t \in Tables |-> db[t]] /\ \A t \in Tables : DOMAIN db[t] = {}
  BY <1>1 DEF InitTables, EmptyTable
<1>3. QED BY <1>2, KeysOfSchema DEF Whole, RefIntegrity

\* An accepted statement of a request leaves such a database.
LEMMA StatementKeepsWhole == Whole /\ Statement(Tables) => Whole'
<1>1. SUFFICES ASSUME Whole, NEW t \in Tables, NEW k \in Ids,
                 \/ \E row \in Rows(t) :
                      /\ RowOK(AllKeys, db, t, row)
                      /\ db' = IF k \in DOMAIN db[t] THEN UpdateRow(db, t, k, row)
                                                     ELSE InsertRow(db, t, k, row)
                 \/ /\ k \in DOMAIN db[t] /\ ~Blocked(AllKeys, db, t, k)
                    /\ db' = DeleteRow(AllKeys, db, t, k)
               PROVE  Whole'
  BY DEF Statement
<1>2. /\ db = [u \in Tables |-> db[u]] /\ LaidOutFor(AllKeys, db) /\ RefIntegrity(AllKeys, db)
      /\ CascadesEndAtOnce(AllKeys)
      /\ \A u \in Tables : \A x \in DOMAIN db[u] : x \in Ids /\ db[u][x] \in Rows(u)
  BY <1>1, WholeIsLaidOut, KeysOfSchema DEF Whole
<1>3. ASSUME NEW row \in Rows(t), RowOK(AllKeys, db, t, row), k \in DOMAIN db[t],
             db' = UpdateRow(db, t, k, row)
      PROVE  Whole'
  <2>1. RefIntegrity(AllKeys, UpdateRow(db, t, k, row))
    BY <1>2, <1>3, UpdateKeepsIntegrity
  <2>2. /\ db' = [u \in Tables |-> db'[u]]
        /\ \A u \in Tables : \A x \in DOMAIN db'[u] : x \in Ids /\ db'[u][x] \in Rows(u)
    BY <1>2, <1>3, UpdateChangesOneRow DEF UpdateRow
  <2>3. QED BY <1>3, <2>1, <2>2 DEF Whole
<1>4. ASSUME NEW row \in Rows(t), RowOK(AllKeys, db, t, row), k \notin DOMAIN db[t],
             db' = InsertRow(db, t, k, row)
      PROVE  Whole'
  <2>1. RefIntegrity(AllKeys, InsertRow(db, t, k, row))
    BY <1>2, <1>4, InsertKeepsIntegrity
  <2>2. /\ db' = [u \in Tables |-> db'[u]]
        /\ \A u \in Tables : \A x \in DOMAIN db'[u] : x \in Ids /\ db'[u][x] \in Rows(u)
    BY <1>2, <1>4, InsertAddsOneRow DEF InsertRow
  <2>3. QED BY <1>4, <2>1, <2>2 DEF Whole
<1>5. ASSUME ~Blocked(AllKeys, db, t, k), db' = DeleteRow(AllKeys, db, t, k) PROVE Whole'
  <2>1. RefIntegrity(AllKeys, DeleteRow(AllKeys, db, t, k))
    BY <1>2, <1>5, DeleteKeepsIntegrity
  <2>2. db' = [u \in Tables |-> db'[u]] /\ \A u \in Tables : DOMAIN db'[u] \subseteq DOMAIN db[u]
    BY <1>2, <1>5 DEF DeleteRow
  <2>3. ASSUME NEW u \in Tables, NEW x \in DOMAIN db'[u] PROVE db'[u][x] \in Rows(u)
    <3>1. db'[u][x] = ClearedRow(AllKeys, t, k, u, db[u][x]) /\ db[u][x] \in Rows(u)
      BY <1>2, <1>5, <2>2, <2>3 DEF DeleteRow
    <3>2. QED BY <3>1 DEF ClearedRow, Rows
  <2>4. QED BY <1>2, <1>5, <2>1, <2>2, <2>3 DEF Whole
<1>6. QED BY <1>1, <1>3, <1>4, <1>5

-----------------------------------------------------------------------------
(***************************************************************************)
(* Resets.                                                                 *)
(***************************************************************************)

\* The keys of the schema, child and parent.
KeyPairs ==
  { <<"private_networks", "vpcs">>,
    <<"instance_servers", "instance_security_groups">>,
    <<"instance_ips", "instance_servers">>,
    <<"instance_private_nics", "instance_servers">>,
    <<"instance_private_nics", "private_networks">>,
    <<"lb_frontends", "lbs">>,
    <<"lb_backends", "lbs">>,
    <<"lb_private_networks", "lbs">>,
    <<"lb_private_networks", "private_networks">>,
    <<"k8s_clusters", "private_networks">>,
    <<"k8s_pools", "k8s_clusters">>,
    <<"rdb_databases", "rdb_instances">>,
    <<"rdb_users", "rdb_instances">>,
    <<"rdb_privileges", "rdb_instances">>,
    <<"rdb_read_replicas", "rdb_instances">>,
    <<"rdb_snapshots", "rdb_instances">>,
    <<"rdb_acls", "rdb_instances">>,
    <<"rdb_backups", "rdb_instances">>,
    <<"iam_api_keys", "iam_applications">>,
    <<"iam_policies", "iam_applications">>,
    <<"iam_rules", "iam_policies">>,
    <<"iam_group_members", "iam_groups">>,
    <<"iam_group_members", "iam_users">>,
    <<"block_snapshots", "block_volumes">>,
    <<"vpc_routes", "vpcs">>,
    <<"vpc_gateway_networks", "vpc_public_gateways">>,
    <<"vpc_gateway_networks", "private_networks">>,
    <<"lb_acls", "lb_frontends">>,
    <<"lb_routes", "lbs">>,
    <<"lb_certificates", "lbs">> }

\* These are all.
LEMMA KeyPairsOfSchema == \A g \in AllKeys : <<g.child, g.parent>> \in KeyPairs
BY DEF AllKeys, VpcKeys, InstanceKeys, LbKeys, K8sKeys, RdbKeys, IamKeys, BlockKeys,
       RdbCopyKeys, VpcGatewayKeys, LbDetailKeys, ForeignKey, KeyPairs

\* Reset empties every table once, and children before what they refer to.
LEMMA ResetOrderIs ==
  /\ Len(ResetOrder) = 44
  /\ \A t \in Tables : \E x \in 1..44 : ResetOrder[x] = t
  /\ \A x \in 1..44 : ResetOrder[x] \in Tables
  /\ \A g \in AllKeys : \A x, y \in 1..44 :
       ResetOrder[x] = g.child /\ ResetOrder[y] = g.parent => x < y
<1>1. Len(ResetOrder) = 44
  BY DEF ResetOrder
<1>2. \A t \in Tables : \E x \in 1..44 : ResetOrder[x] = t
  BY DEF ResetOrder, Tables
<1>3. \A x \in 1..44 : ResetOrder[x] \in Tables
  BY DEF ResetOrder, Tables
<1>4. \A x \in 1..44 :
        /\ ResetOrder[x] = "lb_acls" => x = 1
        /\ ResetOrder[x] = "lb_routes" => x = 2
        /\ ResetOrder[x] = "lb_certificates" => x = 3
        /\ ResetOrder[x] = "lb_private_networks" => x = 4
        /\ ResetOrder[x] = "lb_frontends" => x = 5
        /\ ResetOrder[x] = "lb_backends" => x = 6
        /\ ResetOrder[x] = "lbs" => x = 7
        /\ ResetOrder[x] = "block_snapshots" => x = 9
        /\ ResetOrder[x] = "block_volumes" => x = 10
        /\ ResetOrder[x] = "instance_private_nics" => x = 12
        /\ ResetOrder[x] = "instance_ips" => x = 13
        /\ ResetOrder[x] = "instance_servers" => x = 14
        /\ ResetOrder[x] = "instance_security_groups" => x = 15
        /\ ResetOrder[x] = "k8s_pools" => x = 16
        /\ ResetOrder[x] = "k8s_clusters" => x = 17
        /\ ResetOrder[x] = "rdb_backups" => x = 18
        /\ ResetOrder[x] = "rdb_snapshots" => x = 19
        /\ ResetOrder[x] = "rdb_read_replicas" => x = 20
        /\ ResetOrder[x] = "rdb_acls" => x = 23
        /\ ResetOrder[x] = "rdb_privileges" => x = 24
        /\ ResetOrder[x] = "rdb_databases" => x = 25
        /\ ResetOrder[x] = "rdb_users" => x = 26
        /\ ResetOrder[x] = "rdb_instances" => x = 27
        /\ ResetOrder[x] = "iam_rules" => x = 30
        /\ ResetOrder[x] = "iam_api_keys" => x = 31
        /\ ResetOrder[x] = "iam_policies" => x = 32
        /\ ResetOrder[x] = "iam_group_members" => x = 34
        /\ ResetOrder[x] = "iam_groups" => x = 35
        /\ ResetOrder[x] = "iam_users" => x = 36
        /\ ResetOrder[x] = "iam_applications" => x = 37
        /\ ResetOrder[x] = "vpc_gateway_networks" => x = 40
        /\ ResetOrder[x] = "vpc_public_gateways" => x = 41
        /\ ResetOrder[x] = "vpc_routes" => x = 42
        /\ ResetOrder[x] = "private_networks" => x = 43
        /\ ResetOrder[x] = "vpcs" => x = 44
  BY DEF ResetOrder
<1>5. ASSUME NEW g \in AllKeys, NEW x \in 1..44, NEW y \in 1..44,
             ResetOrder[x] = g.child, ResetOrder[y] = g.parent
      PROVE  x < y
  BY <1>4, <1>5, KeyPairsOfSchema DEF KeyPairs
<1>6. QED BY <1>1, <1>2, <1>3, <1>5

\* Foreign keys are off in a reset, but what it has emptied refers to nothing, and what it
\* empties next is referred to by nobody any more.
Emptied == \A x \in 1..cleared : db[ResetOrder[x]] = EmptyTable

ResetInv ==
  /\ Whole
  /\ resetting \in BOOLEAN /\ cleared \in 0..44
  /\ resetting => Emptied

\* Emptying the next table leaves nobody behind.
LEMMA ClearKeepsWhole ==
  ASSUME ResetInv, ClearTable
  PROVE  Whole' /\ Emptied' /\ cleared' \in 0..44
<1> DEFINE t == ResetOrder[cleared + 1]
<1>1. /\ cleared \in 0..43 /\ cleared' = cleared + 1 /\ t \in Tables
      /\ db' = [db EXCEPT ![t] = EmptyTable]
  BY ResetOrderIs DEF ResetInv, ClearTable
<1>2. /\ db = [u \in Tables |-> db[u]] /\ Emptied
      /\ \A u \in Tables : \A k \in DOMAIN db[u] : k \in Ids /\ db[u][k] \in Rows(u)
      /\ RefIntegrity(AllKeys, db)
  BY DEF ResetInv, Whole, ClearTable
<1>3. /\ db' = [u \in Tables |-> db'[u]]
      /\ db'[t] = EmptyTable /\ DOMAIN db'[t] = {}
      /\ \A u \in Tables \ {t} : db'[u] = db[u]
  BY <1>1, <1>2 DEF EmptyTable
<1>4. Emptied'
  <2>1. ASSUME NEW x \in 1..cleared + 1 PROVE db'[ResetOrder[x]] = EmptyTable
    <3>1. x \in 1..44 /\ (x = cleared + 1 \/ x \in 1..cleared)
      BY <1>1
    <3>2. CASE ResetOrder[x] = t
      BY <1>3, <3>2
    <3>3. CASE ResetOrder[x] # t
      BY <1>2, <1>3, <3>1, <3>3, ResetOrderIs DEF Emptied
    <3>4. QED BY <3>2, <3>3
  <2>2. QED BY <1>1, <2>1 DEF Emptied
<1>5. RefIntegrity(AllKeys, db')
  <2>1. SUFFICES ASSUME NEW g \in AllKeys, NEW c \in DOMAIN db'[g.child]
                 PROVE  db'[g.child][c][g.col] \in DOMAIN db'[g.parent] \cup {Null}
    BY DEF RefIntegrity
  <2>2. g.child \in Tables /\ g.parent \in Tables /\ g.child # t
    BY <1>3, <2>1, KeysOfSchema
  <2>3. db'[g.child] = db[g.child]
    BY <1>3, <2>2
  <2>4. CASE g.parent = t
    <3>1. PICK x \in 1..44 : ResetOrder[x] = g.child
      BY <2>2, ResetOrderIs
    <3>2. PICK y \in 1..44 : y = cleared + 1
      BY <1>1
    <3>3. x < y
      BY <2>4, <3>1, <3>2, ResetOrderIs
    <3>4. x \in 1..cleared
      BY <1>1, <3>1, <3>2, <3>3
    <3>5. DOMAIN db[g.child] = {}
      BY <1>2, <3>1, <3>4 DEF Emptied, EmptyTable
    <3>6. QED BY <2>1, <2>3, <3>5
  <2>5. CASE g.parent # t
    BY <1>2, <1>3, <2>1, <2>2, <2>3, <2>5 DEF RefIntegrity
  <2>6. QED BY <2>4, <2>5
<1>6. \A u \in Tables : \A k \in DOMAIN db'[u] : k \in Ids /\ db'[u][k] \in Rows(u)
  BY <1>2, <1>3
<1>7. QED BY <1>1, <1>3, <1>4, <1>5, <1>6 DEF Whole

\* This is so in every behaviour.
LEMMA ResetInvHolds == ResetSpec => []ResetInv
<1>1. ResetInit => ResetInv
  <2>1. InitTables => Whole
    BY InitWhole DEF InitTables
  <2>2. cleared = 0 => cleared \in 0..44
    OBVIOUS
  <2>3. QED BY <2>1, <2>2, Zenon DEF ResetInit, ResetInv
<1>2. ResetInv /\ [ResetNext]_resetVars => ResetInv'
  <2>1. SUFFICES ASSUME ResetInv, [ResetNext]_resetVars PROVE ResetInv'
    OBVIOUS
  <2>2. CASE UNCHANGED resetVars
    BY <2>1, <2>2 DEF ResetInv, Whole, Emptied, RefIntegrity, resetVars
  <2>3. CASE BeginReset \/ EndReset \/ Abandon
    <3>1. db' = db /\ resetting' \in BOOLEAN /\ cleared' = 0
      BY <2>3 DEF BeginReset, EndReset, Abandon
    <3>2. Whole' /\ Emptied'
      BY <2>1, <3>1 DEF ResetInv, Whole, Emptied, RefIntegrity
    <3>3. QED BY <3>1, <3>2 DEF ResetInv
  <2>4. CASE ClearTable
    BY <2>1, <2>4, ClearKeepsWhole DEF ResetInv, ClearTable
  <2>5. CASE RequestBetweenResets(Tables)
    <3>1. Statement(Tables) /\ ~resetting /\ UNCHANGED <<resetting, cleared>>
      BY <2>5 DEF RequestBetweenResets
    <3>2. QED BY <2>1, <3>1, StatementKeepsWhole DEF ResetInv
  <2>6. QED BY <2>1, <2>2, <2>3, <2>4, <2>5 DEF ResetNext
<1>3. QED BY <1>1, <1>2, PTL DEF ResetSpec

\* Reset works with foreign keys off and may be killed between any two of its DELETEs: no
\* row of any of the 44 tables is ever left that refers to one that is gone.
THEOREM ResetsLeaveNoOrphans == ResetSpec => []ResetLeavesNoOrphans
<1>1. ResetInv => ResetLeavesNoOrphans
  BY DEF ResetInv, Whole, ResetLeavesNoOrphans
<1>2. QED BY <1>1, ResetInvHolds, PTL

\* A reset that ends has emptied all 44 tables: none that the schema has is forgotten.
THEOREM ResetsForgetNoTable == ResetSpec => ResetForgetsNoTable
<1>1. ResetInv /\ EndReset => db' = [t \in Tables |-> EmptyTable]
  <2>1. SUFFICES ASSUME ResetInv, EndReset PROVE db' = [t \in Tables |-> EmptyTable]
    OBVIOUS
  <2>2. db' = db /\ db = [t \in Tables |-> db[t]] /\ Emptied /\ cleared = 44
    BY <2>1, ResetOrderIs DEF ResetInv, Whole, EndReset
  <2>3. ASSUME NEW t \in Tables PROVE db[t] = EmptyTable
    <3>1. PICK x \in 1..44 : ResetOrder[x] = t
      BY ResetOrderIs
    <3>2. x \in 1..cleared
      BY <2>2
    <3>3. QED BY <2>2, <3>1, <3>2 DEF Emptied
  <2>4. QED BY <2>2, <2>3
<1>2. QED BY <1>1, ResetInvHolds, PTL DEF ResetSpec, ResetForgetsNoTable

-----------------------------------------------------------------------------
(***************************************************************************)
(* Dumps.                                                                  *)
(***************************************************************************)
Orders == ServiceOrders \cup {FullOrder}

\* The one reference whose children FullState reads first is that of private NICs.
InOrder(tables) ==
  \A g \in ShownKeys : \A x, y \in 1..Len(tables) :
    tables[x] = g.child /\ tables[y] = g.parent =>
      IF g \in ChildFirst THEN x < y ELSE y < x

\* The keys a dump can rely on, child and parent.
LEMMA ShownPairs ==
  ASSUME NEW g \in ShownKeys
  PROVE  /\ <<g.child, g.parent>> \in
              KeyPairs \ {<<"instance_servers", "instance_security_groups">>}
         /\ g \in AllKeys
         /\ g \in ChildFirst
              <=> <<g.child, g.parent>> = <<"instance_private_nics", "private_networks">>
BY KeyPairsOfSchema DEF ShownKeys, ChildFirst, KeyPairs

\* FullState reads 41 tables.
LEMMA FullOrderIs ==
  /\ Len(FullOrder) = 41
  /\ \A x \in 1..41 : FullOrder[x] \in Tables
  /\ InOrder(FullOrder)
<1>1. Len(FullOrder) = 41
  BY DEF FullOrder
<1>2. \A x \in 1..41 : FullOrder[x] \in Tables
  BY DEF FullOrder, Tables
<1>3. \A x \in 1..41 :
        /\ FullOrder[x] = "instance_servers" => x = 1
        /\ FullOrder[x] = "instance_ips" => x = 2
        /\ FullOrder[x] = "instance_private_nics" => x = 3
        /\ FullOrder[x] = "vpcs" => x = 6
        /\ FullOrder[x] = "private_networks" => x = 7
        /\ FullOrder[x] = "lbs" => x = 9
        /\ FullOrder[x] = "lb_frontends" => x = 10
        /\ FullOrder[x] = "lb_backends" => x = 11
        /\ FullOrder[x] = "lb_private_networks" => x = 12
        /\ FullOrder[x] = "k8s_clusters" => x = 13
        /\ FullOrder[x] = "k8s_pools" => x = 14
        /\ FullOrder[x] = "rdb_instances" => x = 15
        /\ FullOrder[x] = "rdb_databases" => x = 16
        /\ FullOrder[x] = "rdb_users" => x = 17
        /\ FullOrder[x] = "rdb_privileges" => x = 18
        /\ FullOrder[x] = "iam_applications" => x = 21
        /\ FullOrder[x] = "iam_api_keys" => x = 22
        /\ FullOrder[x] = "iam_policies" => x = 23
        /\ FullOrder[x] = "iam_users" => x = 26
        /\ FullOrder[x] = "iam_groups" => x = 27
        /\ FullOrder[x] = "iam_group_members" => x = 28
        /\ FullOrder[x] = "block_volumes" => x = 29
        /\ FullOrder[x] = "block_snapshots" => x = 30
        /\ FullOrder[x] = "rdb_read_replicas" => x = 32
        /\ FullOrder[x] = "rdb_snapshots" => x = 33
        /\ FullOrder[x] = "rdb_backups" => x = 34
        /\ FullOrder[x] = "lb_acls" => x = 35
        /\ FullOrder[x] = "lb_routes" => x = 36
        /\ FullOrder[x] = "lb_certificates" => x = 37
        /\ FullOrder[x] = "vpc_routes" => x = 39
        /\ FullOrder[x] = "vpc_public_gateways" => x = 40
        /\ FullOrder[x] = "vpc_gateway_networks" => x = 41
        /\ FullOrder[x] \notin {"iam_rules", "rdb_acls"}
  BY DEF FullOrder
<1>4. ASSUME NEW g \in ShownKeys,
             NEW x \in 1..41, NEW y \in 1..41,
             FullOrder[x] = g.child, FullOrder[y] = g.parent
      PROVE  IF g \in ChildFirst THEN x < y ELSE y < x
  BY <1>3, <1>4, ShownPairs DEF KeyPairs
<1>5. QED BY <1>1, <1>2, <1>4 DEF InOrder

\* ServiceState reads those of one service.
LEMMA ServiceOrderIs ==
  ASSUME NEW tables \in ServiceOrders
  PROVE  /\ Len(tables) \in 1..8
         /\ \A x \in 1..Len(tables) : tables[x] \in Tables
         /\ InOrder(tables)
<1>1. Len(tables) \in 1..8 /\ \A x \in 1..Len(tables) : tables[x] \in Tables
  BY DEF ServiceOrders, Tables
<1> SUFFICES ASSUME NEW g \in ShownKeys,
                    NEW x \in 1..Len(tables), NEW y \in 1..Len(tables),
                    tables[x] = g.child, tables[y] = g.parent
             PROVE  IF g \in ChildFirst THEN x < y ELSE y < x
  BY <1>1 DEF InOrder
<1>2. CASE tables = <<"instance_servers", "instance_ips", "instance_private_nics",
                   "instance_security_groups", "instance_volumes">>
  <2>1. Len(tables) = 5
    BY <1>2
  <2>2. \A z \in 1..5 :
          /\ tables[z] = "instance_servers" => z = 1
          /\ tables[z] = "instance_ips" => z = 2
          /\ tables[z] = "instance_private_nics" => z = 3
          /\ tables[z] = "instance_security_groups" => z = 4
          /\ tables[z] = "instance_volumes" => z = 5
          /\ tables[z] \in {"instance_servers", "instance_ips",
                "instance_private_nics", "instance_security_groups", "instance_volumes"}
    BY <1>2
  <2>3. QED BY <2>1, <2>2, ShownPairs DEF KeyPairs
<1>3. CASE tables = <<"vpcs", "private_networks", "vpc_routes", "vpc_public_gateways",
                   "vpc_gateway_networks">>
  <2>1. Len(tables) = 5
    BY <1>3
  <2>2. \A z \in 1..5 :
          /\ tables[z] = "vpcs" => z = 1
          /\ tables[z] = "private_networks" => z = 2
          /\ tables[z] = "vpc_routes" => z = 3
          /\ tables[z] = "vpc_public_gateways" => z = 4
          /\ tables[z] = "vpc_gateway_networks" => z = 5
          /\ tables[z] \in {"vpcs", "private_networks", "vpc_routes",
                "vpc_public_gateways", "vpc_gateway_networks"}
    BY <1>3
  <2>3. QED BY <2>1, <2>2, ShownPairs DEF KeyPairs
<1>4. CASE tables = <<"lb_ips", "lbs", "lb_frontends", "lb_backends",
                   "lb_private_networks", "lb_acls", "lb_routes", "lb_certificates">>
  <2>1. Len(tables) = 8
    BY <1>4
  <2>2. \A z \in 1..8 :
          /\ tables[z] = "lb_ips" => z = 1
          /\ tables[z] = "lbs" => z = 2
          /\ tables[z] = "lb_frontends" => z = 3
          /\ tables[z] = "lb_backends" => z = 4
          /\ tables[z] = "lb_private_networks" => z = 5
          /\ tables[z] = "lb_acls" => z = 6
          /\ tables[z] = "lb_routes" => z = 7
          /\ tables[z] = "lb_certificates" => z = 8
          /\ tables[z] \in {"lb_ips", "lbs", "lb_frontends", "lb_backends",
                "lb_private_networks", "lb_acls", "lb_routes", "lb_certificates"}
    BY <1>4
  <2>3. QED BY <2>1, <2>2, ShownPairs DEF KeyPairs
<1>5. CASE tables = <<"k8s_clusters", "k8s_pools">>
  <2>1. Len(tables) = 2
    BY <1>5
  <2>2. \A z \in 1..2 :
          /\ tables[z] = "k8s_clusters" => z = 1
          /\ tables[z] = "k8s_pools" => z = 2
          /\ tables[z] \in {"k8s_clusters", "k8s_pools"}
    BY <1>5
  <2>3. QED BY <2>1, <2>2, ShownPairs DEF KeyPairs
<1>6. CASE tables = <<"rdb_instances", "rdb_databases", "rdb_users", "rdb_privileges",
                   "rdb_read_replicas", "rdb_snapshots", "rdb_backups">>
  <2>1. Len(tables) = 7
    BY <1>6
  <2>2. \A z \in 1..7 :
          /\ tables[z] = "rdb_instances" => z = 1
          /\ tables[z] = "rdb_databases" => z = 2
          /\ tables[z] = "rdb_users" => z = 3
          /\ tables[z] = "rdb_privileges" => z = 4
          /\ tables[z] = "rdb_read_replicas" => z = 5
          /\ tables[z] = "rdb_snapshots" => z = 6
          /\ tables[z] = "rdb_backups" => z = 7
          /\ tables[z] \in {"rdb_instances", "rdb_databases", "rdb_users",
                "rdb_privileges", "rdb_read_replicas", "rdb_snapshots", "rdb_backups"}
    BY <1>6
  <2>3. QED BY <2>1, <2>2, ShownPairs DEF KeyPairs
<1>7. CASE tables = <<"iam_applications", "iam_api_keys", "iam_policies",
                   "iam_ssh_keys", "iam_users", "iam_groups", "iam_group_members">>
  <2>1. Len(tables) = 7
    BY <1>7
  <2>2. \A z \in 1..7 :
          /\ tables[z] = "iam_applications" => z = 1
          /\ tables[z] = "iam_api_keys" => z = 2
          /\ tables[z] = "iam_policies" => z = 3
          /\ tables[z] = "iam_ssh_keys" => z = 4
          /\ tables[z] = "iam_users" => z = 5
          /\ tables[z] = "iam_groups" => z = 6
          /\ tables[z] = "iam_group_members" => z = 7
          /\ tables[z] \in {"iam_applications", "iam_api_keys", "iam_policies",
                "iam_ssh_keys", "iam_users", "iam_groups", "iam_group_members"}
    BY <1>7
  <2>3. QED BY <2>1, <2>2, ShownPairs DEF KeyPairs
<1>8. CASE tables = <<"block_volumes", "block_snapshots">>
  <2>1. Len(tables) = 2
    BY <1>8
  <2>2. \A z \in 1..2 :
          /\ tables[z] = "block_volumes" => z = 1
          /\ tables[z] = "block_snapshots" => z = 2
          /\ tables[z] \in {"block_volumes", "block_snapshots"}
    BY <1>8
  <2>3. QED BY <2>1, <2>2, ShownPairs DEF KeyPairs
<1>9. CASE tables = <<"dns_zones", "domain_records">>
  <2>1. Len(tables) = 2
    BY <1>9
  <2>2. \A z \in 1..2 :
          /\ tables[z] = "dns_zones" => z = 1
          /\ tables[z] = "domain_records" => z = 2
          /\ tables[z] \in {"dns_zones", "domain_records"}
    BY <1>9
  <2>3. QED BY <2>1, <2>2, ShownPairs DEF KeyPairs
<1>10. CASE Len(tables) = 1
  <2>1. g.child # g.parent
    BY ShownPairs DEF KeyPairs
  <2>2. QED BY <1>10, <2>1
<1>11. QED BY <1>1, <1>2, <1>3, <1>4, <1>5, <1>6, <1>7, <1>8, <1>9, <1>10 DEF ServiceOrders

\* Every list of tables that a dump reads is in order.
LEMMA OrdersAre ==
  ASSUME NEW tables \in Orders
  PROVE  /\ Len(tables) \in Nat
         /\ \A x \in 1..Len(tables) : tables[x] \in Tables
         /\ InOrder(tables)
<1>1. CASE tables = FullOrder
  BY <1>1, FullOrderIs
<1>2. CASE tables \in ServiceOrders
  BY <1>2, ServiceOrderIs
<1>3. QED BY <1>1, <1>2 DEF Orders

\* DumpsAreClosed is not inductive: it takes that what has been read of a table lacks
\* nothing but what came since, and that what was read of the NICs refers to networks that
\* are there or went since.
NothingMissed == \A t \in DOMAIN seen : DOMAIN db[t] \subseteq DOMAIN seen[t] \cup came[t]

ParentsAccounted ==
  \A g \in ChildFirst : g.child \in DOMAIN seen =>
    \A k \in DOMAIN seen[g.child] :
      seen[g.child][k][g.col] \in DOMAIN db[g.parent] \cup gone[g.parent] \cup {Null}

DumpInv ==
  /\ Whole
  /\ order \in Orders \cup {<<>>} /\ pos \in 0..Len(order)
  /\ DOMAIN seen = {order[x] : x \in 1..pos}
  /\ NothingMissed /\ ParentsAccounted /\ DumpsAreClosed

\* While no table has been read there is nothing to be wrong about.
NothingRead ==
  Whole /\ order \in Orders \cup {<<>>} /\ pos = 0 /\ DOMAIN seen = {}

LEMMA NothingSeenYet ==
  /\ NothingRead => DumpInv
  /\ NothingRead' => DumpInv'
<1>1. NothingRead => DumpInv
  <2>1. SUFFICES ASSUME NothingRead PROVE DumpInv
    OBVIOUS
  <2>2. pos \in 0..Len(order)
    BY <2>1, OrdersAre DEF NothingRead
  <2>3. DOMAIN seen = {order[x] : x \in 1..pos}
    BY <2>1 DEF NothingRead
  <2>4. NothingMissed /\ ParentsAccounted /\ DumpsAreClosed
    BY <2>1 DEF NothingRead, NothingMissed, ParentsAccounted, DumpsAreClosed
  <2>5. QED BY <2>1, <2>2, <2>3, <2>4 DEF NothingRead, DumpInv
<1>2. QED BY <1>1, PTL

\* Reading a table: of what refers to it or is referred to by it, the order of the tables
\* says whether it has been read.
LEMMA ReadKeepsDumps ==
  ASSUME DumpInv, ReadTable
  PROVE  DumpInv'
<1> DEFINE t == order[pos + 1]
<1>1. /\ pos < Len(order) /\ pos' = pos + 1
      /\ seen' = [u \in DOMAIN seen \cup {t} |-> IF u = t THEN db[t] ELSE seen[u]]
      /\ UNCHANGED <<db, order, came, gone>>
  BY DEF ReadTable
<1>2. /\ order \in Orders /\ Len(order) \in Nat /\ InOrder(order)
      /\ pos \in Nat /\ pos + 1 \in 1..Len(order)
  <2>1. order # <<>>
    BY <1>1 DEF DumpInv
  <2>2. order \in Orders
    BY <2>1 DEF DumpInv
  <2>3. QED BY <1>1, <2>2, OrdersAre DEF DumpInv
<1>3. /\ DOMAIN seen' = DOMAIN seen \cup {t}
      /\ seen'[t] = db[t]
      /\ \A u \in DOMAIN seen \ {t} : seen'[u] = seen[u]
  BY <1>1
<1>4. DOMAIN seen' = {order[x] : x \in 1..pos + 1}
  <2>1. {order[x] : x \in 1..pos + 1} = {order[x] : x \in 1..pos} \cup {order[pos + 1]}
    BY <1>2
  <2>2. QED BY <1>3, <2>1 DEF DumpInv
<1>5. ASSUME NEW g \in ShownKeys
      PROVE  /\ ~(g.child = t /\ g.parent = t)
             /\ g.child = t /\ g \in ChildFirst => g.parent \notin DOMAIN seen
             /\ g.parent = t /\ g \notin ChildFirst => g.child \notin DOMAIN seen
  <2>1. \A u \in DOMAIN seen : \E x \in 1..Len(order) : order[x] = u /\ x < pos + 1
    BY <1>2 DEF DumpInv
  <2>2. \A x, y \in 1..Len(order) :
          order[x] = g.child /\ order[y] = g.parent =>
            IF g \in ChildFirst THEN x < y ELSE y < x
    BY <1>2 DEF InOrder
  <2>3. PICK z \in 1..Len(order) : z = pos + 1 /\ order[z] = t
    BY <1>2
  <2>4. ~(g.child = t /\ g.parent = t)
    BY <2>2, <2>3
  <2>5. ASSUME g.child = t, g \in ChildFirst, g.parent \in DOMAIN seen PROVE FALSE
    <3>1. PICK x \in 1..Len(order) : order[x] = g.parent /\ x < pos + 1
      BY <2>1, <2>5
    <3>2. z < x
      BY <2>2, <2>3, <2>5, <3>1
    <3>3. QED BY <2>3, <3>1, <3>2, <1>2
  <2>6. ASSUME g.parent = t, g \notin ChildFirst, g.child \in DOMAIN seen PROVE FALSE
    <3>1. PICK x \in 1..Len(order) : order[x] = g.child /\ x < pos + 1
      BY <2>1, <2>6
    <3>2. z < x
      BY <2>2, <2>3, <2>6, <3>1
    <3>3. QED BY <2>3, <3>1, <3>2, <1>2
  <2>7. QED BY <2>4, <2>5, <2>6
<1>6. \A g \in AllKeys : g.child = t => \A k \in DOMAIN db[t] :
        db[t][k][g.col] \in DOMAIN db[g.parent] \cup {Null}
  BY DEF DumpInv, Whole, RefIntegrity
<1>7. db' = db /\ came' = came /\ gone' = gone /\ order' = order /\ pos' = pos + 1
  BY <1>1
<1> HIDE DEF t
<1>8. NothingMissed'
  BY <1>3, <1>7 DEF DumpInv, NothingMissed
<1>9. ParentsAccounted'
  <2>1. SUFFICES ASSUME NEW g \in ChildFirst, g.child \in DOMAIN seen',
                        NEW k \in DOMAIN seen'[g.child]
                 PROVE  seen'[g.child][k][g.col]
                          \in DOMAIN db[g.parent] \cup gone[g.parent] \cup {Null}
    BY <1>7 DEF ParentsAccounted
  <2>2. CASE g.child = t
    BY <1>3, <1>6, <2>1, <2>2, ShownPairs DEF ChildFirst
  <2>3. CASE g.child # t
    BY <1>3, <2>1, <2>3 DEF DumpInv, ParentsAccounted
  <2>4. QED BY <2>2, <2>3
<1>10. DumpsAreClosed'
  <2>1. SUFFICES ASSUME NEW g \in ShownKeys,
                        g.child \in DOMAIN seen', g.parent \in DOMAIN seen',
                        NEW k \in DOMAIN seen'[g.child]
                 PROVE  seen'[g.child][k][g.col] \in DOMAIN seen'[g.parent] \cup {Null}
                          \cup (IF g \in ChildFirst THEN gone[g.parent] ELSE came[g.parent])
    BY <1>7 DEF DumpsAreClosed
  <2>2. CASE g.child = t
    <3>1. g.parent # t /\ g \notin ChildFirst
      BY <1>3, <1>5, <2>1, <2>2
    <3>2. DOMAIN db[g.parent] \subseteq DOMAIN seen'[g.parent] \cup came[g.parent]
      BY <1>3, <2>1, <3>1 DEF DumpInv, NothingMissed
    <3>3. QED BY <1>3, <1>6, <2>1, <2>2, <3>1, <3>2, ShownPairs
  <2>3. CASE g.child # t /\ g.parent = t
    <3>1. g \in ChildFirst /\ seen'[g.child] = seen[g.child] /\ g.child \in DOMAIN seen
      BY <1>3, <1>5, <2>1, <2>3
    <3>2. QED BY <1>3, <2>1, <2>3, <3>1 DEF DumpInv, ParentsAccounted
  <2>4. CASE g.child # t /\ g.parent # t
    BY <1>3, <2>1, <2>4 DEF DumpInv, DumpsAreClosed
  <2>5. QED BY <2>2, <2>3, <2>4
<1>11. Whole'
  BY <1>7 DEF DumpInv, Whole, RefIntegrity
<1>12. QED BY <1>2, <1>4, <1>7, <1>8, <1>9, <1>10, <1>11 DEF DumpInv

\* A request that is handled meanwhile: the rows it adds came, those it deletes went.
LEMMA RequestKeepsDumps ==
  ASSUME DumpInv, RequestDuringDump(Tables)
  PROVE  DumpInv'
<1>1. Statement(Tables) /\ UNCHANGED <<order, pos, seen>>
  BY DEF RequestDuringDump
<1>2. Whole'
  BY <1>1, StatementKeepsWhole DEF DumpInv
<1>3. CASE order = <<>>
  <2>1. pos = 0 /\ DOMAIN seen = {}
    BY <1>3 DEF DumpInv
  <2>2. order' = <<>> /\ pos' = 0 /\ DOMAIN seen' = {}
    BY <1>1, <1>3, <2>1
  <2>3. NothingMissed' /\ ParentsAccounted' /\ DumpsAreClosed'
    BY <2>2 DEF NothingMissed, ParentsAccounted, DumpsAreClosed
  <2>4. QED BY <1>1, <1>2, <2>3 DEF DumpInv
<1>4. CASE order # <<>>
  <2>1. \A u \in Tables : /\ came'[u] = came[u] \cup (DOMAIN db'[u] \ DOMAIN db[u])
                          /\ gone'[u] = gone[u] \cup (DOMAIN db[u] \ DOMAIN db'[u])
    BY <1>4 DEF RequestDuringDump
  <2>2. DOMAIN seen \subseteq Tables
    BY <1>4, OrdersAre DEF DumpInv
  <2>3. NothingMissed'
    BY <1>1, <2>1, <2>2 DEF DumpInv, NothingMissed
  <2>4. \A g \in ShownKeys : g.parent \in Tables
    BY ShownPairs, KeysOfSchema
  <2>5. ParentsAccounted'
    <3>1. \A g \in ChildFirst :
            DOMAIN db[g.parent] \cup gone[g.parent]
              \subseteq DOMAIN db'[g.parent] \cup gone'[g.parent]
      BY <2>1, <2>4 DEF ChildFirst
    <3>2. QED BY <1>1, <3>1 DEF DumpInv, ParentsAccounted
  <2>6. DumpsAreClosed'
    BY <1>1, <2>1, <2>4 DEF DumpInv, DumpsAreClosed
  <2>7. QED BY <1>1, <1>2, <2>3, <2>5, <2>6 DEF DumpInv
<1>5. QED BY <1>3, <1>4

\* GET /mock/state reads 41 tables, one statement after the other, while requests of all
\* services go on.  However those interleave and for any number of rows, what the dump shows
\* refers to what it shows, or else to a row that came (of networks that NICs name: that
\* went) while the dump was taken.
THEOREM DumpsShowWhatTheyReferTo == DumpSpec => []DumpsAreClosed
<1>1. DumpInit => DumpInv
  <2>1. SUFFICES ASSUME DumpInit PROVE DumpInv
    OBVIOUS
  <2>2. Whole
    BY <2>1, InitWhole DEF DumpInit, InitTables
  <2>3. order = <<>> /\ pos = 0 /\ DOMAIN seen = {}
    BY <2>1 DEF DumpInit, NoDump, NothingSeen
  <2>4. QED BY <2>2, <2>3, NothingSeenYet DEF NothingRead
<1>2. DumpInv /\ [DumpNext]_dumpVars => DumpInv'
  <2>1. SUFFICES ASSUME DumpInv, [DumpNext]_dumpVars PROVE DumpInv'
    OBVIOUS
  <2>2. CASE UNCHANGED dumpVars
    BY <2>1, <2>2 DEF DumpInv, Whole, RefIntegrity, NothingMissed, ParentsAccounted,
                      DumpsAreClosed, dumpVars
  <2>3. CASE FullState \/ ServiceState
    <3>1. PICK tables \in Orders : Begin(tables)
      BY <2>3 DEF FullState, ServiceState, Orders
    <3>2. pos = 0 /\ DOMAIN seen = {}
      BY <2>1, <3>1 DEF DumpInv, Begin
    <3>3. Whole'
      BY <2>1, <3>1 DEF DumpInv, Whole, RefIntegrity, Begin
    <3>4. order' \in Orders /\ pos' = 0 /\ DOMAIN seen' = {}
      BY <3>1, <3>2 DEF Begin
    <3>5. QED BY <3>3, <3>4, NothingSeenYet DEF NothingRead
  <2>4. CASE ReadTable
    BY <2>1, <2>4, ReadKeepsDumps
  <2>5. CASE SendDump
    <3>1. Whole' /\ order' = <<>> /\ pos' = 0 /\ DOMAIN seen' = {}
      BY <2>1, <2>5 DEF DumpInv, Whole, RefIntegrity, SendDump, NothingSeen
    <3>2. QED BY <3>1, NothingSeenYet DEF NothingRead
  <2>6. CASE RequestDuringDump(Tables)
    BY <2>1, <2>6, RequestKeepsDumps
  <2>7. QED BY <2>1, <2>2, <2>3, <2>4, <2>5, <2>6 DEF DumpNext
<1>3. DumpInv => DumpsAreClosed
  BY DEF DumpInv
<1>4. QED BY <1>1, <1>2, <1>3, PTL DEF DumpSpec

=============================================================================
