--------------------------- MODULE AdminProperties ---------------------------
(***************************************************************************)
(* What reset, snapshot and restore promise.  Most of it holds as long as  *)
(* admin requests come one at a time, which MCAdmin states; the runs that  *)
(* end in a violation show what happens when they do not.                  *)
(***************************************************************************)
EXTENDS AdminState

Contents == {d \in [AdminTables -> UNION {[ids -> [doc : {Null}] \cup [vpc_id : Vpcs]] :
                                            ids \in SUBSET (Vpcs \cup Networks)}] :
               /\ DOMAIN d["vpcs"] \subseteq Vpcs
               /\ DOMAIN d["private_networks"] \subseteq Networks}

Files == [contents : Contents \cup {Broken}] \cup {Writing(c) : c \in Clients} \cup {Null}

\* Null stands for no file.
ASSUME NullIsNoFile == Null \notin [contents : Contents \cup {Broken}]

AdminRequests ==
  [at : {"answered", "EndReset"}, status : Statuses]
  \cup [at : {"Reset"}, todo : {<<>>, <<"vpcs">>, ResetOrder}]
  \cup [at : {"EndVacuum"}, contents : Contents]
  \cup [at : {"EndCopy"}, contents : Contents \cup {Broken}]
  \cup [at : {"Vacuum", "RemoveStale", "CopySnapshot", "CloseDB", "SwapFile", "OpenDB",
              "InitPragma", "InitTables"}]

\* The variables have their types; the connection is held by nobody but a client
\* whose VACUUM is running, and only while r.db is open.
AdminTypeOK ==
  /\ {db, file} \subseteq Contents \cup {Broken} /\ saved \subseteq Contents
  /\ {snapshot, copy} \subseteq Files
  /\ req \in [Clients -> AdminRequests]
  /\ handle.busy # Null => handle.open /\ req[handle.busy].at = "EndVacuum"

\* Between admin requests r.db is open and enforces foreign keys: Reset turns the
\* pragma back on, and a restored database is opened through init.  This holds
\* after failed restores and crashes too.
EnforcementResumes ==
  (\A c \in Admins : Idle(c)) => handle.open /\ handle.fk

\* A private network always has its VPC, in the live database as in a restored one.
NetworksHaveTheirVpc == db # Broken => RefIntegrity(VpcKeys, db)

\* No admin request hangs, whoever closes r.db or holds its connection.
AdminRequestsAreAnswered ==
  \A c \in Admins : req[c].at # "answered" ~> req[c].at = "answered"

-----------------------------------------------------------------------------
(***************************************************************************)
(* What a step may not do, with one client or one that sends admin         *)
(* requests.                                                               *)
(***************************************************************************)

\* The snapshot is a file whose VACUUM is running or was cut short by a kill: the
\* program cannot tell it from a whole one.
Torn == \E c \in Clients : snapshot = Writing(c)

\* What Restore renames to the live file is the snapshot there is, as its VACUUM
\* completed it: never the half-written copy, or the copy of an older snapshot,
\* that a restore killed earlier left behind.  Excepted is a snapshot whose own
\* VACUUM was killed.
RestoresTheSnapshotThereIs ==
  \A c \in Clients : SwapFile(c) => Torn \/ (file' \in saved /\ snapshot = Whole(file'))

\* After a reset that was answered with success there is no row in any table, and
\* no snapshot to go back to.
ResetWipesAllState ==
  \A c \in Clients : EndReset(c) /\ req'[c].status = "ok" => db' = Empty /\ snapshot' = Null

\* After a restore that was answered with success the database is the snapshot
\* (except for one whose VACUUM was killed), and it is the file a restarted process
\* would open.
RestoreBringsSnapshotBack ==
  \A c \in Clients : InitTables(c) /\ req'[c].status = "ok" =>
    file' = db' /\ (Torn \/ snapshot = Whole(db'))

=============================================================================
