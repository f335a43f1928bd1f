---------------------------- MODULE ForeignKeys ----------------------------
(***************************************************************************)
(* The referential actions of the SQLite database behind the repository.   *)
(*                                                                         *)
(* A database is a function from table names to tables; a table is a       *)
(* function from primary keys to rows; a row is a record with a field for  *)
(* every foreign-key column and a field "doc" for the JSON document kept   *)
(* in the column "data".  A foreign key is a record naming the child       *)
(* table, its column, the parent table and the ON DELETE action.           *)
(*                                                                         *)
(* The repository runs with PRAGMA foreign_keys = ON and leaves every      *)
(* constraint immediate, so a statement either keeps RefIntegrity or fails *)
(* and changes nothing.  How a failure is answered (404 for an insert or   *)
(* update, 409 for a delete) is the business of the handlers.              *)
(***************************************************************************)

CONSTANT Null      \* SQL NULL, and JSON null in a document

NoAction == "NO_ACTION"   \* the default of a REFERENCES clause: refuse the delete
Cascade  == "CASCADE"
SetNull  == "SET_NULL"

ForeignKey(child, col, parent, action) ==
  [child |-> child, col |-> col, parent |-> parent, action |-> action]

EmptyTable == [k \in {} |-> Null]

(***************************************************************************)
(* The rows of the child table that refer to row k of the parent table.    *)
(***************************************************************************)
Referencing(db, fk, k) == {c \in DOMAIN db[fk.child] : db[fk.child][c][fk.col] = k}

(***************************************************************************)
(* Every foreign-key column is NULL or names a row of the parent table.    *)
(***************************************************************************)
RefIntegrity(K, db) ==
  \A fk \in K : \A c \in DOMAIN db[fk.child] :
    db[fk.child][c][fk.col] \in DOMAIN db[fk.parent] \cup {Null}

(***************************************************************************)
(* What the database keeps references in, without anything else: the view  *)
(* of it that module ReferentialStore specifies.                           *)
(***************************************************************************)
Columns(K, t) == {fk.col : fk \in {g \in K : g.child = t}}

ReferencesIn(K, db) ==
  [t \in DOMAIN db |-> [k \in DOMAIN db[t] |-> [col \in Columns(K, t) |-> db[t][k][col]]]]

(***************************************************************************)
(* INSERT and UPDATE: RowOK is the check SQLite makes on the new row.      *)
(* UpdateRow of a row that is gone matches nothing, which is no error.     *)
(***************************************************************************)
\* Faulty RowOK: the constraint is declared but PRAGMA foreign_keys stays off.
AcceptAnyRow(K, db, t, row) == TRUE

RowOK(K, db, t, row) ==
  \A fk \in K : fk.child = t => row[fk.col] \in DOMAIN db[fk.parent] \cup {Null}

InsertRow(db, t, k, row) ==
  [db EXCEPT ![t] = [x \in DOMAIN db[t] \cup {k} |-> IF x = k THEN row ELSE db[t][x]]]

\* Faulty UpdateRow: INSERT OR REPLACE where the code has UPDATE.
UpsertRow(db, t, k, row) == InsertRow(db, t, k, row)

UpdateRow(db, t, k, row) ==
  IF k \in DOMAIN db[t] THEN [db EXCEPT ![t] = [@ EXCEPT ![k] = row]] ELSE db

(***************************************************************************)
(* DELETE of row k of table t: refused when a NO ACTION key still refers to *)
(* it; otherwise the row goes, with the rows that refer to it through a    *)
(* CASCADE key, and the columns of SET NULL keys that name it are cleared. *)
(* No table that is the child of a CASCADE key is itself a parent (see     *)
(* CascadesEndAtOnce), so a cascade never starts another one.              *)
(***************************************************************************)
\* Faulty Blocked: no constraint refuses a delete.
DeleteUnchecked(K, db, t, k) == FALSE

Blocked(K, db, t, k) ==
  \E fk \in K : /\ fk.parent = t
                /\ fk.action = NoAction
                /\ Referencing(db, fk, k) # {}

\* Faulty Doomed: the row goes alone, as in a schema without ON DELETE CASCADE.
DoomedAlone(K, db, t, k, u) == {c \in DOMAIN db[u] : u = t /\ c = k}

Doomed(K, db, t, k, u) ==
  {c \in DOMAIN db[u] :
     \/ u = t /\ c = k
     \/ \E fk \in K : /\ fk.child = u /\ fk.parent = t /\ fk.action = Cascade
                      /\ db[u][c][fk.col] = k}

ClearedRow(K, t, k, u, row) ==
  [col \in DOMAIN row |->
     IF \E fk \in K : /\ fk.child = u /\ fk.parent = t /\ fk.action = SetNull
                      /\ fk.col = col /\ row[col] = k
     THEN Null ELSE row[col]]

DeleteRow(K, db, t, k) ==
  [u \in DOMAIN db |->
     [c \in DOMAIN db[u] \ Doomed(K, db, t, k, u) |-> ClearedRow(K, t, k, u, db[u][c])]]

\* The keys of K that declare one of the three actions.
With(K, action) == {fk \in K : fk.action = action}

CascadesEndAtOnce(K) ==
  \A fk \in K : fk.action = Cascade => \A g \in K : g.parent # fk.child

=============================================================================
