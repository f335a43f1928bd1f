----------------------------- MODULE AdminState -----------------------------
(***************************************************************************)
(* The admin operations on the state as a whole, /mock/reset, /snapshot    *)
(* and /restore, next to ordinary requests and crashes of the process.     *)
(* VPCs and their private networks stand for the tables and references of  *)
(* all services.                                                           *)
(*                                                                         *)
(* db is what statements sent through r.db see.  It is the file at         *)
(* r.path, unless a rename replaced that file under an open connection.    *)
(* None of the operations takes a lock: r.db, the pragma of its            *)
(* connection, the snapshot and the ".restore" copy are shared.            *)
(***************************************************************************)
EXTENDS Handlers

CONSTANTS
  Admins,           \* the clients, among Clients, that send admin requests
  Vpcs, Networks,   \* uuids newID can return
  Broken,           \* the contents of a file that is no database
  MaxCrashes        \* bound: how often the process is killed

ASSUME AdminsAreClients == Admins \subseteq Clients
ASSUME MaxCrashesIsNat == MaxCrashes \in Nat

VARIABLES
  handle,      \* r.db and its one connection
  file,        \* the contents of the file at r.path
  snapshot,    \* the file at r.snapshotPath, or Null
  copy,        \* the file at r.path + ".restore", or Null
  saved,       \* history: the contents of every snapshot that was completed
  crashes      \* how often the process was killed

files == <<file, snapshot, copy, saved>>
adminVars == <<vars, handle, files, crashes>>

AdminTables == {"vpcs", "private_networks"}
Empty == [t \in AdminTables |-> EmptyTable]

(***************************************************************************)
(* A file VACUUM INTO or a copy is still writing, or was when the process  *)
(* died.  Who reads it gets an empty file or a part of a database.         *)
(***************************************************************************)
Writing(c) == [writer |-> c]
Whole(contents) == [contents |-> contents]
ReadOutcomes(f) ==
  IF f \in {Writing(c) : c \in Clients} THEN {Empty, Broken} ELSE {f.contents}

(***************************************************************************)
(* sql.Open connects when the first statement is sent; SQLite's default    *)
(* for a new connection is not to enforce foreign keys.  busy is the       *)
(* client whose VACUUM holds the connection; all others wait for it.       *)
(***************************************************************************)
Opened(connected, fk) ==
  [open |-> TRUE, connected |-> connected, linked |-> TRUE, fk |-> fk, busy |-> Null]
Closed == [Opened(FALSE, FALSE) EXCEPT !.open = FALSE]

Usable == handle.open /\ handle.busy = Null
Enforced == IF handle.fk THEN VpcKeys ELSE {}

(***************************************************************************)
(* A statement through r.db connects it and, if it writes, writes the file *)
(* its connection has open.                                                *)
(***************************************************************************)
Executed(fk) ==
  /\ handle' = [handle EXCEPT !.connected = TRUE, !.fk = fk]
  /\ file' = IF handle.linked THEN db' ELSE file
  /\ UNCHANGED <<snapshot, copy, saved, crashes>>

OnlyReq == UNCHANGED <<db, issued, handle, files, crashes>>

\* r.db is closed: "sql: database is closed", answered 500.
Fail(c) == Answer(c, "error") /\ OnlyReq

-----------------------------------------------------------------------------
(***************************************************************************)
(* Ordinary requests of one statement.                                     *)
(***************************************************************************)
OrdinaryRequest(c) ==
  /\ Idle(c)
  /\ \/ /\ Usable /\ db # Broken
        /\ \/ \E v \in Vpcs :
                \/ CreateSimple(Enforced, c, "vpcs", v, [doc |-> Null])
                \/ DeleteBy(Enforced, c, "vpcs", v)
           \/ \E n \in Networks, v \in Vpcs :
                CreateSimple(Enforced, c, "private_networks", n, [vpc_id |-> v])
        /\ Executed(handle.fk)
     \/ /\ ~handle.open \/ db = Broken
        /\ Fail(c)

-----------------------------------------------------------------------------
(***************************************************************************)
(* Reset: pragma off, a DELETE per table, children first, then the         *)
(* snapshot file; the deferred pragma on runs last, error or not.  The     *)
(* whole list of tables is in ResetTables.                                 *)
(***************************************************************************)
\* Faulty ResetOrder: a table was forgotten.
ResetOrderIncomplete == <<"private_networks">>

ResetOrder == <<"private_networks", "vpcs">>

BeginReset(c) ==
  /\ Idle(c) /\ c \in Admins
  /\ \/ /\ Usable
        /\ Continue(c, [at |-> "Reset", todo |-> ResetOrder])
        /\ UNCHANGED <<db, issued>>
        /\ Executed(FALSE)
     \/ ~handle.open /\ Fail(c)

ClearTable(c) ==
  LET r == req[c] IN
  /\ r.at = "Reset" /\ r.todo # <<>>
  /\ \/ /\ Usable /\ db # Broken
        /\ db' = [db EXCEPT ![Head(r.todo)] = EmptyTable]
        /\ Continue(c, [r EXCEPT !.todo = Tail(@)])
        /\ UNCHANGED issued
        /\ Executed(handle.fk)
     \/ /\ ~handle.open \/ db = Broken
        /\ Continue(c, [at |-> "EndReset", status |-> "error"])
        /\ OnlyReq

ResetSnapshot(c) ==
  /\ req[c].at = "Reset" /\ req[c].todo = <<>>
  /\ snapshot' = Null
  /\ Continue(c, [at |-> "EndReset", status |-> "ok"])
  /\ UNCHANGED <<db, issued, handle, file, copy, saved, crashes>>

\* Faulty EndReset: the deferred pragma is forgotten.
EndResetUnenforced(c) ==
  req[c].at = "EndReset" /\ Answer(c, req[c].status) /\ OnlyReq

EndReset(c) ==
  /\ req[c].at = "EndReset"
  /\ Answer(c, req[c].status)
  /\ UNCHANGED <<db, issued>>
  /\ \/ Usable /\ Executed(TRUE)
     \/ ~handle.open /\ UNCHANGED <<handle, files, crashes>>

-----------------------------------------------------------------------------
(***************************************************************************)
(* Snapshot: remove the old file, then VACUUM INTO, which refuses to write *)
(* a file that exists.  The file is not whole before the VACUUM ends; if   *)
(* it was removed by then, the VACUUM ends all the same.                   *)
(***************************************************************************)
BeginSnapshot(c) ==
  /\ Idle(c) /\ c \in Admins
  /\ snapshot' = Null
  /\ Continue(c, [at |-> "Vacuum"])
  /\ UNCHANGED <<db, issued, handle, file, copy, saved, crashes>>

Vacuum(c) ==
  /\ req[c].at = "Vacuum"
  /\ \/ /\ Usable /\ db # Broken /\ snapshot = Null
        /\ snapshot' = Writing(c)
        /\ Continue(c, [at |-> "EndVacuum", contents |-> db])
        /\ handle' = [handle EXCEPT !.connected = TRUE, !.busy = c]
        /\ UNCHANGED <<db, issued, file, copy, saved, crashes>>
     \/ /\ \/ ~handle.open
           \/ Usable /\ (db = Broken \/ snapshot # Null)
        /\ Fail(c)

\* Faulty EndVacuum: the connection is not given back.
EndVacuumHolding(c) ==
  /\ req[c].at = "EndVacuum"
  /\ snapshot' = Whole(req[c].contents) /\ saved' = saved \cup {req[c].contents}
  /\ Answer(c, "ok")
  /\ UNCHANGED <<db, issued, handle, file, copy, crashes>>

EndVacuum(c) ==
  LET r == req[c] IN
  /\ r.at = "EndVacuum"
  /\ IF snapshot = Writing(c)
     THEN snapshot' = Whole(r.contents) /\ saved' = saved \cup {r.contents}
     ELSE UNCHANGED <<snapshot, saved>>
  /\ handle' = IF handle.busy = c THEN [handle EXCEPT !.busy = Null] ELSE handle
  /\ Answer(c, "ok")
  /\ UNCHANGED <<db, issued, file, copy, crashes>>

-----------------------------------------------------------------------------
(***************************************************************************)
(* Restore: stat the snapshot, remove a stale copy, copy (read all, then   *)
(* write), close r.db, rename the copy to r.path, open it again and run    *)
(* init.  A rename that finds no copy opens the old file and leaves        *)
(* without running init.  What a restore writes after another one took its *)
(* half-written copy away is left out.                                     *)
(***************************************************************************)
BeginRestore(c) ==
  /\ Idle(c) /\ c \in Admins
  /\ \/ snapshot = Null /\ Answer(c, "not_found")
     \/ snapshot # Null /\ Continue(c, [at |-> "RemoveStale"])
  /\ OnlyReq

\* Faulty RemoveStale: a copy that an earlier restore left is used.
ReuseCopy(c) ==
  /\ req[c].at = "RemoveStale"
  /\ Continue(c, [at |-> IF copy = Null THEN "CopySnapshot" ELSE "CloseDB"])
  /\ OnlyReq

RemoveStale(c) ==
  /\ req[c].at = "RemoveStale"
  /\ copy' = Null
  /\ Continue(c, [at |-> "CopySnapshot"])
  /\ UNCHANGED <<db, issued, handle, file, snapshot, saved, crashes>>

\* Faulty CopySnapshot: copies the live file.
CopyLiveFile(c) ==
  /\ req[c].at = "CopySnapshot"
  /\ copy' = Writing(c)
  /\ Continue(c, [at |-> "EndCopy", contents |-> file])
  /\ UNCHANGED <<db, issued, handle, file, snapshot, saved, crashes>>

CopySnapshot(c) ==
  /\ req[c].at = "CopySnapshot"
  /\ \/ snapshot = Null /\ Fail(c)
     \/ /\ snapshot # Null
        /\ copy' = Writing(c)
        /\ \E contents \in ReadOutcomes(snapshot) :
             Continue(c, [at |-> "EndCopy", contents |-> contents])
        /\ UNCHANGED <<db, issued, handle, file, snapshot, saved, crashes>>

EndCopy(c) ==
  /\ req[c].at = "EndCopy"
  /\ copy' = IF copy = Writing(c) THEN Whole(req[c].contents) ELSE copy
  /\ Continue(c, [at |-> "CloseDB"])
  /\ UNCHANGED <<db, issued, handle, file, snapshot, saved, crashes>>

CloseDB(c) ==
  /\ req[c].at = "CloseDB"
  /\ handle' = Closed
  /\ Continue(c, [at |-> "SwapFile"])
  /\ UNCHANGED <<db, issued, files, crashes>>

SwapFile(c) ==
  /\ req[c].at = "SwapFile"
  /\ \/ /\ copy = Null
        /\ handle' = Opened(FALSE, FALSE)
        /\ db' = file
        /\ Answer(c, "error")
        /\ UNCHANGED <<issued, files, crashes>>
     \/ /\ copy # Null
        /\ file' \in ReadOutcomes(copy)
        /\ copy' = Null
        /\ IF handle.connected
           THEN handle' = [handle EXCEPT !.linked = FALSE] /\ UNCHANGED db
           ELSE db' = file' /\ UNCHANGED handle
        /\ Continue(c, [at |-> "OpenDB"])
        /\ UNCHANGED <<issued, snapshot, saved, crashes>>

OpenDB(c) ==
  /\ req[c].at = "OpenDB"
  /\ handle' = Opened(FALSE, FALSE)
  /\ db' = file
  /\ Continue(c, [at |-> "InitPragma"])
  /\ UNCHANGED <<issued, files, crashes>>

(***************************************************************************)
(* init: the pragma, then CREATE TABLE IF NOT EXISTS for every table and   *)
(* the migrations, which change nothing in a file that has them.           *)
(***************************************************************************)
InitPragma(c) ==
  /\ req[c].at = "InitPragma"
  /\ \/ /\ Usable
        /\ Continue(c, [at |-> "InitTables"])
        /\ UNCHANGED <<db, issued>>
        /\ Executed(TRUE)
     \/ ~handle.open /\ Fail(c)

InitTables(c) ==
  /\ req[c].at = "InitTables"
  /\ \/ /\ Usable /\ db # Broken
        /\ Answer(c, "ok")
        /\ UNCHANGED <<db, issued>>
        /\ Executed(handle.fk)
     \/ /\ ~handle.open \/ db = Broken
        /\ Fail(c)

-----------------------------------------------------------------------------
(***************************************************************************)
(* The process is killed and started again: New opens the database and     *)
(* runs init; the requests that were running are lost.  With --db <path>   *)
(* the files stay, and with a broken one New fails and the process does    *)
(* not come up.  With ":memory:" New makes a temporary file of a new name: *)
(* no row, no snapshot and no copy of the killed process is found again.   *)
(***************************************************************************)
Crash ==
  /\ crashes < MaxCrashes
  /\ crashes' = crashes + 1
  /\ handle' = Opened(TRUE, TRUE)
  /\ req' = [c \in Clients |-> Answered("error")]
  /\ UNCHANGED issued
  /\ \/ file # Broken /\ db' = file /\ UNCHANGED files
     \/ /\ db' = Empty /\ file' = Empty
        /\ snapshot' = Null /\ copy' = Null /\ saved' = {}

Init ==
  /\ db = Empty /\ file = Empty
  /\ issued = {}
  /\ req = [c \in Clients |-> Answered("ok")]
  /\ handle = Opened(TRUE, TRUE)
  /\ snapshot = Null /\ copy = Null /\ saved = {}
  /\ crashes = 0

Arrive(c) == OrdinaryRequest(c) \/ BeginReset(c) \/ BeginSnapshot(c) \/ BeginRestore(c)

Proceed(c) ==
  \/ ClearTable(c) \/ ResetSnapshot(c) \/ EndReset(c)
  \/ Vacuum(c) \/ EndVacuum(c)
  \/ RemoveStale(c) \/ CopySnapshot(c) \/ EndCopy(c) \/ CloseDB(c) \/ SwapFile(c) \/ OpenDB(c)
  \/ InitPragma(c) \/ InitTables(c)

Next == Crash \/ \E c \in Clients : Arrive(c) \/ Proceed(c)

Spec == Init /\ [][Next]_adminVars

=============================================================================
