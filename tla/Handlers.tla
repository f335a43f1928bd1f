------------------------------ MODULE Handlers ------------------------------
(***************************************************************************)
(* What the services have in common: one SQLite database, and handlers     *)
(* that work on it statement by statement.                                 *)
(*                                                                         *)
(* net/http runs every request in a goroutine of its own.  The repository  *)
(* holds no lock; its pool has one connection, so a single statement, and  *)
(* a transaction from Begin to Commit or Rollback, is atomic, but the      *)
(* statements of two handlers interleave freely.  Each action of a service *)
(* is one such atomic step, together with the Go code up to the next one.  *)
(*                                                                         *)
(* A row pairs SQL columns with a JSON document; handlers that change a    *)
(* row read the document, patch it and write the whole row back, so what   *)
(* they hold in between (in req) may be stale.                             *)
(***************************************************************************)
EXTENDS Schema, Naturals, Sequences

CONSTANT Clients   \* request goroutines; a client sends one request at a time

VARIABLES
  db,        \* the tables of the service
  issued,    \* the uuids already handed out: newID never repeats itself
  req        \* per client: the handler's progress and local variables, or the last answer

vars == <<db, issued, req>>

(***************************************************************************)
(* The answers, as far as they differ: 2xx, 404, 409, 400 and 500.         *)
(***************************************************************************)
Statuses == {"ok", "not_found", "conflict", "invalid", "error"}
Answered(status) == [at |-> "answered", status |-> status]

Idle(c) == req[c].at = "answered"
Continue(c, r) == req' = [req EXCEPT ![c] = r]
Answer(c, status) == Continue(c, Answered(status))

Found(t, k) == k \in DOMAIN db[t]

(***************************************************************************)
(* getJSONByID at the head of a handler: 404, or on to the next statement. *)
(***************************************************************************)
Read(c, t, k, next) ==
  /\ UNCHANGED <<db, issued>>
  /\ \/ Found(t, k) /\ Continue(c, next)
     \/ ~Found(t, k) /\ Answer(c, "not_found")

(***************************************************************************)
(* insertJSON and mapInsertSQLError: one INSERT; a reference to a missing  *)
(* row is answered 404, a primary key that is taken 409.                   *)
(***************************************************************************)
InsertJSON(K, c, t, k, row) ==
  \/ /\ Found(t, k)
     /\ Answer(c, "conflict")
     /\ UNCHANGED db
  \/ /\ ~Found(t, k) /\ RowOK(K, db, t, row)
     /\ db' = InsertRow(db, t, k, row)
     /\ Answer(c, "ok")
  \/ /\ ~Found(t, k) /\ ~RowOK(K, db, t, row)
     /\ Answer(c, "not_found")
     /\ UNCHANGED db

(***************************************************************************)
(* createSimple: the same under a fresh uuid.                              *)
(***************************************************************************)
CreateSimple(K, c, t, k, row) ==
  /\ k \notin issued
  /\ issued' = issued \cup {k}
  /\ InsertJSON(K, c, t, k, row)

(***************************************************************************)
(* deleteBy and mapDeleteSQLError: one DELETE; 409 when a NO ACTION key     *)
(* refers to the row, 404 when there is no such row.                       *)
(***************************************************************************)
DeleteBy(K, c, t, k) ==
  /\ UNCHANGED issued
  /\ \/ /\ ~Found(t, k)
        /\ Answer(c, "not_found")
        /\ UNCHANGED db
     \/ /\ Found(t, k) /\ Blocked(K, db, t, k)
        /\ Answer(c, "conflict")
        /\ UNCHANGED db
     \/ /\ Found(t, k) /\ ~Blocked(K, db, t, k)
        /\ db' = DeleteRow(K, db, t, k)
        /\ Answer(c, "ok")

=============================================================================
