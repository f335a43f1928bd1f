----------------------------- MODULE AdminProofs -----------------------------
(***************************************************************************)
(* Reset, snapshot and restore, for any number of clients, VPCs, networks  *)
(* and kills.                                                              *)
(*                                                                         *)
(* Under every interleaving the variables keep their types.  With one      *)
(* admin client, next to any number of others, foreign keys are enforced   *)
(* between its requests and a restore puts nothing but the snapshot in     *)
(* place.  With one request at a time, networks have their VPC, a reset    *)
(* wipes everything and a restore brings the snapshot back.                *)
(***************************************************************************)
EXTENDS MCAdmin, ForeignKeysProofs

-----------------------------------------------------------------------------
(***************************************************************************)
(* The databases the statements work on: like Contents, but with the rows  *)
(* of each table in their own form.                                        *)
(***************************************************************************)
Databases ==
  {d \in Contents :
     /\ \A v \in DOMAIN d["vpcs"] : d["vpcs"][v] \in [doc : {Null}]
     /\ \A n \in DOMAIN d["private_networks"] : d["private_networks"][n] \in [vpc_id : Vpcs]}

RowsOf(t) == IF t = "vpcs" THEN [doc : {Null}] ELSE [vpc_id : Vpcs]
IdsOf(t) == IF t = "vpcs" THEN Vpcs ELSE Networks

IsTable(t, table) ==
  /\ table = [k \in DOMAIN table |-> table[k]]
  /\ DOMAIN table \subseteq IdsOf(t)
  /\ \A k \in DOMAIN table : table[k] \in RowsOf(t)

\* A database is made of its two tables.
LEMMA DatabaseOfTables ==
  ASSUME NEW d, d = [t \in AdminTables |-> d[t]], \A t \in AdminTables : IsTable(t, d[t])
  PROVE  d \in Databases
<1> DEFINE Rows == [doc : {Null}] \cup [vpc_id : Vpcs]
           Tables == UNION {[ids -> Rows] : ids \in SUBSET (Vpcs \cup Networks)}
<1>1. ASSUME NEW t \in AdminTables PROVE d[t] \in Tables
  <2>1. DOMAIN d[t] \in SUBSET (Vpcs \cup Networks)
    BY DEF IsTable, IdsOf
  <2>2. d[t] \in [DOMAIN d[t] -> Rows]
    BY DEF IsTable, RowsOf
  <2>3. QED BY <2>1, <2>2
<1>2. d \in [AdminTables -> Tables]
  BY <1>1
<1>3. DOMAIN d["vpcs"] \subseteq Vpcs /\ DOMAIN d["private_networks"] \subseteq Networks
  BY DEF IsTable, IdsOf, AdminTables
<1>4. d \in Contents
  BY <1>2, <1>3 DEF Contents
<1>5. QED BY <1>4 DEF Databases, IsTable, RowsOf, AdminTables

\* And has nothing else.
LEMMA TablesOfDatabase ==
  ASSUME NEW d \in Databases
  PROVE  d = [t \in AdminTables |-> d[t]] /\ \A t \in AdminTables : IsTable(t, d[t])
<1>1. d \in [AdminTables -> UNION {[ids -> [doc : {Null}] \cup [vpc_id : Vpcs]] :
                                     ids \in SUBSET (Vpcs \cup Networks)}]
  BY DEF Databases, Contents
<1>2. ASSUME NEW t \in AdminTables PROVE d[t] = [k \in DOMAIN d[t] |-> d[t][k]]
  BY <1>1
<1>3. QED BY <1>1, <1>2 DEF Databases, Contents, IsTable, IdsOf, RowsOf, AdminTables

\* Without rows.
LEMMA EmptyIsDatabase ==
  /\ Empty \in Databases
  /\ \A t \in AdminTables : IsTable(t, EmptyTable)
<1>1. \A t \in AdminTables : IsTable(t, EmptyTable)
  BY DEF IsTable, EmptyTable, IdsOf
<1>2. Empty = [t \in AdminTables |-> Empty[t]] /\ \A t \in AdminTables : IsTable(t, Empty[t])
  BY <1>1 DEF Empty
<1>3. QED BY <1>1, <1>2, DatabaseOfTables

\* With one row more.
LEMMA InsertGivesDatabase ==
  ASSUME NEW d \in Databases, NEW t \in AdminTables, NEW k \in IdsOf(t), NEW row \in RowsOf(t)
  PROVE  InsertRow(d, t, k, row) \in Databases
<1> DEFINE new == InsertRow(d, t, k, row)
<1>1. d = [u \in AdminTables |-> d[u]] /\ \A u \in AdminTables : IsTable(u, d[u])
  BY TablesOfDatabase
<1>2. /\ new = [u \in AdminTables |-> new[u]]
      /\ \A u \in AdminTables \ {t} : new[u] = d[u]
      /\ new[t] = [x \in DOMAIN d[t] \cup {k} |-> IF x = k THEN row ELSE d[t][x]]
  BY <1>1 DEF InsertRow
<1>3. IsTable(t, new[t])
  BY <1>1, <1>2 DEF IsTable
<1>4. \A u \in AdminTables : IsTable(u, new[u])
  BY <1>1, <1>2, <1>3
<1>5. QED BY <1>2, <1>4, DatabaseOfTables

\* With the rows of a deletion gone, whether foreign keys are enforced or not.
LEMMA DeleteGivesDatabase ==
  ASSUME NEW d \in Databases, NEW K \in {VpcKeys, {}}, NEW t, NEW k
  PROVE  DeleteRow(K, d, t, k) \in Databases
<1> DEFINE new == DeleteRow(K, d, t, k)
<1>1. d = [u \in AdminTables |-> d[u]] /\ \A u \in AdminTables : IsTable(u, d[u])
  BY TablesOfDatabase
<1>2. \A fk \in K : fk.action # SetNull
  BY DEF VpcKeys, ForeignKey, NoAction, SetNull
<1>3. ASSUME NEW u \in AdminTables PROVE IsTable(u, new[u])
  <2>1. \A x \in DOMAIN d[u] : d[u][x] = [col \in DOMAIN d[u][x] |-> d[u][x][col]]
    BY <1>1 DEF IsTable, RowsOf
  <2>2. u \in DOMAIN d
    BY <1>1
  <2>3. /\ DOMAIN new[u] = DOMAIN d[u] \ Doomed(K, d, t, k, u)
        /\ \A x \in DOMAIN new[u] : new[u][x] = d[u][x]
    BY <1>2, <2>1, <2>2, DeleteOnlyTakesAway
  <2>4. new[u] = [x \in DOMAIN new[u] |-> new[u][x]]
    BY <2>2 DEF DeleteRow
  <2>5. QED BY <1>1, <2>3, <2>4 DEF IsTable
<1>4. new = [u \in AdminTables |-> new[u]]
  BY <1>1 DEF DeleteRow
<1>5. QED BY <1>3, <1>4, DatabaseOfTables

\* With a table cleared.
LEMMA ClearGivesDatabase ==
  ASSUME NEW d \in Databases, NEW t \in AdminTables
  PROVE  [d EXCEPT ![t] = EmptyTable] \in Databases
<1> DEFINE new == [d EXCEPT ![t] = EmptyTable]
<1>1. d = [u \in AdminTables |-> d[u]] /\ \A u \in AdminTables : IsTable(u, d[u])
  BY TablesOfDatabase
<1>2. /\ new = [u \in AdminTables |-> new[u]]
      /\ \A u \in AdminTables : new[u] = IF u = t THEN EmptyTable ELSE d[u]
  BY <1>1
<1>3. \A u \in AdminTables : IsTable(u, new[u])
  BY <1>1, <1>2, EmptyIsDatabase
<1>4. QED BY <1>2, <1>3, DatabaseOfTables

-----------------------------------------------------------------------------
(***************************************************************************)
(* Types.  Nothing but whole databases is ever saved; the copy may be      *)
(* broken, as the snapshot may be when it is read.                         *)
(***************************************************************************)
Handles == [open : BOOLEAN, connected : BOOLEAN, linked : BOOLEAN, fk : BOOLEAN,
            busy : Clients \cup {Null}]

\* What a VACUUM writes is a database; what was read from a snapshot may be broken.
Carries(r) ==
  /\ r.at = "EndVacuum" => r.contents \in Databases
  /\ r.at = "EndCopy" => r.contents \in Databases \cup {Broken}

\* Files that are being written.
Half == {Writing(c) : c \in Clients}

Typed ==
  /\ {db, file} \subseteq Databases \cup {Broken} /\ saved \subseteq Databases
  /\ snapshot \in [contents : Databases] \cup Half \cup {Null}
  /\ copy \in [contents : Databases \cup {Broken}] \cup Half \cup {Null}
  /\ req \in [Clients -> AdminRequests]
  /\ \A c \in Clients : Carries(req[c])
  /\ handle \in Handles
  /\ handle.busy # Null => handle.open /\ req[handle.busy].at = "EndVacuum"
  /\ crashes \in Nat

\* What a request of one statement does: it fails and changes nothing, or it changes
\* the tables as the foreign keys allow, if they are enforced.
Ordinary(c) ==
  /\ \E status \in Statuses : Answer(c, status)
  /\ \/ OnlyReq
     \/ /\ Usable /\ db # Broken /\ db \in Databases /\ db' \in Databases
        /\ handle.fk /\ RefIntegrity(VpcKeys, db) => RefIntegrity(VpcKeys, db')
        /\ Executed(handle.fk)

\* The keys of VPCs fit every database.
LEMMA VpcKeysFit ==
  ASSUME NEW d \in Databases
  PROVE  LaidOutFor(VpcKeys, d) /\ CascadesEndAtOnce(VpcKeys)
<1>1. d = [u \in AdminTables |-> d[u]]
      /\ \A n \in DOMAIN d["private_networks"] : d["private_networks"][n] \in [vpc_id : Vpcs]
  BY TablesOfDatabase DEF Databases
<1>2. QED BY <1>1 DEF LaidOutFor, CascadesEndAtOnce, VpcKeys, ForeignKey, NoAction, Cascade,
                      AdminTables

\* A creation, of a VPC or a network.
LEMMA CreateIsOrdinary ==
  ASSUME Typed, NEW c \in Clients, Usable, db # Broken, NEW t \in AdminTables,
         NEW k \in IdsOf(t), NEW row \in RowsOf(t), CreateSimple(Enforced, c, t, k, row),
         Executed(handle.fk)
  PROVE  Ordinary(c)
<1>1. db \in Databases
  BY DEF Typed
<1>2. db = [u \in AdminTables |-> db[u]]
  BY <1>1, TablesOfDatabase
<1>3. CASE /\ RowOK(Enforced, db, t, row)
           /\ db' = InsertRow(db, t, k, row)
           /\ Answer(c, "ok")
  <2>1. db' \in Databases
    BY <1>1, <1>3, InsertGivesDatabase
  <2>2. ASSUME handle.fk, RefIntegrity(VpcKeys, db) PROVE RefIntegrity(VpcKeys, db')
    <3>1. RowOK(VpcKeys, db, t, row)
      BY <1>3, <2>2 DEF Enforced
    <3>2. QED BY <1>1, <1>2, <1>3, <2>2, <3>1, VpcKeysFit, InsertKeepsIntegrity
  <2>3. QED BY <1>1, <1>3, <2>1, <2>2 DEF Ordinary, Statuses
<1>4. CASE UNCHANGED db /\ \E status \in {"conflict", "not_found"} : Answer(c, status)
  BY <1>1, <1>4 DEF Ordinary, Statuses
<1>5. QED BY <1>3, <1>4 DEF CreateSimple, InsertJSON

\* A deletion of a VPC.
LEMMA DeleteIsOrdinary ==
  ASSUME Typed, NEW c \in Clients, Usable, db # Broken, NEW v \in Vpcs,
         DeleteBy(Enforced, c, "vpcs", v), Executed(handle.fk)
  PROVE  Ordinary(c)
<1>1. db \in Databases
  BY DEF Typed
<1>2. CASE /\ ~Blocked(Enforced, db, "vpcs", v)
           /\ db' = DeleteRow(Enforced, db, "vpcs", v)
           /\ Answer(c, "ok")
  <2>1. Enforced \in {VpcKeys, {}}
    BY DEF Enforced
  <2>2. db' \in Databases
    BY <1>1, <1>2, <2>1, DeleteGivesDatabase
  <2>3. ASSUME handle.fk, RefIntegrity(VpcKeys, db) PROVE RefIntegrity(VpcKeys, db')
    <3>1. Enforced = VpcKeys
      BY <2>3 DEF Enforced
    <3>2. db = [u \in AdminTables |-> db[u]] /\ "vpcs" \in DOMAIN db
      BY <1>1, TablesOfDatabase DEF AdminTables
    <3>3. QED BY <1>1, <1>2, <2>3, <3>1, <3>2, VpcKeysFit, DeleteKeepsIntegrity
  <2>4. QED BY <1>1, <1>2, <2>2, <2>3 DEF Ordinary, Statuses
<1>3. CASE UNCHANGED db /\ \E status \in {"conflict", "not_found"} : Answer(c, status)
  BY <1>1, <1>3 DEF Ordinary, Statuses
<1>4. QED BY <1>2, <1>3 DEF DeleteBy

\* Both, and requests that meet a closed or broken database.
LEMMA OrdinaryRequests ==
  ASSUME Typed, NEW c \in Clients, OrdinaryRequest(c)
  PROVE  Ordinary(c)
<1>1. CASE ~handle.open \/ db = Broken
  BY <1>1 DEF OrdinaryRequest, Fail, Ordinary, Usable, Statuses
<1>2. CASE /\ Usable /\ db # Broken /\ Executed(handle.fk)
           /\ \E v \in Vpcs : CreateSimple(Enforced, c, "vpcs", v, [doc |-> Null])
  <2>1. PICK v \in Vpcs : CreateSimple(Enforced, c, "vpcs", v, [doc |-> Null])
    BY <1>2
  <2>2. v \in IdsOf("vpcs") /\ [doc |-> Null] \in RowsOf("vpcs") /\ "vpcs" \in AdminTables
    BY DEF IdsOf, RowsOf, AdminTables
  <2>3. QED BY <1>2, <2>1, <2>2, CreateIsOrdinary
<1>3. CASE /\ Usable /\ db # Broken /\ Executed(handle.fk)
           /\ \E v \in Vpcs : DeleteBy(Enforced, c, "vpcs", v)
  BY <1>3, DeleteIsOrdinary
<1>4. CASE /\ Usable /\ db # Broken /\ Executed(handle.fk)
           /\ \E n \in Networks, v \in Vpcs :
                CreateSimple(Enforced, c, "private_networks", n, [vpc_id |-> v])
  <2>1. PICK n \in Networks, v \in Vpcs :
          CreateSimple(Enforced, c, "private_networks", n, [vpc_id |-> v])
    BY <1>4
  <2>2. /\ n \in IdsOf("private_networks") /\ [vpc_id |-> v] \in RowsOf("private_networks")
        /\ "private_networks" \in AdminTables
    BY DEF IdsOf, RowsOf, AdminTables
  <2>3. QED BY <1>4, <2>1, <2>2, CreateIsOrdinary
<1>5. QED BY <1>1, <1>2, <1>3, <1>4 DEF OrdinaryRequest

-----------------------------------------------------------------------------
(***************************************************************************)
(* Types are kept.                                                         *)
(***************************************************************************)

\* The first states are typed.
LEMMA InitTyped == Init => Typed
<1> SUFFICES ASSUME Init PROVE Typed
  OBVIOUS
<1>1. Answered("ok") \in AdminRequests /\ Answered("ok").at \notin {"EndVacuum", "EndCopy"}
  BY DEF Answered, AdminRequests, Statuses
<1>2. Opened(TRUE, TRUE) \in Handles /\ Opened(TRUE, TRUE).busy = Null
  BY DEF Opened, Handles
<1>3. QED BY <1>1, <1>2, EmptyIsDatabase DEF Init, Typed, Carries

\* A handler that goes on, and not to the end of a VACUUM.
LEMMA ContinueTyped ==
  ASSUME Typed, NEW c \in Clients, NEW r \in AdminRequests, r.at \notin {"EndVacuum", "EndCopy"}, Continue(c, r)
  PROVE  /\ req' \in [Clients -> AdminRequests]
         /\ req'[c] = r /\ \A d \in Clients \ {c} : req'[d] = req[d]
         /\ \A d \in Clients : Carries(req'[d])
BY DEF Typed, Continue, Carries

\* A client that holds no connection leaves the one who does alone.
LEMMA HolderKept ==
  ASSUME Typed, NEW c \in Clients, NEW r, Continue(c, r), req[c].at # "EndVacuum",
         handle'.busy = handle.busy, handle'.open = handle.open
  PROVE  handle'.busy # Null => handle'.open /\ req'[handle'.busy].at = "EndVacuum"
BY DEF Typed, Continue, Handles

\* A statement through r.db changes its connection and the file.
LEMMA ExecutedTyped ==
  ASSUME Typed, NEW fk \in BOOLEAN, Executed(fk), db' \in Databases \cup {Broken}
  PROVE  /\ handle' \in Handles
         /\ handle'.busy = handle.busy /\ handle'.open = handle.open
         /\ handle'.linked = handle.linked /\ handle'.fk = fk
         /\ file' \in Databases \cup {Broken}
         /\ UNCHANGED <<snapshot, copy, saved, crashes>>
BY DEF Typed, Executed, Handles

\* A step that does that, or nothing, besides going on, keeps the types.
LEMMA StatementTyped ==
  ASSUME Typed, NEW c \in Clients, NEW r \in AdminRequests, r.at \notin {"EndVacuum", "EndCopy"},
         req[c].at # "EndVacuum", Continue(c, r), db' \in Databases \cup {Broken},
         \/ \E fk \in BOOLEAN : Executed(fk)
         \/ UNCHANGED <<handle, files, crashes>>
  PROVE  Typed'
<1>1. /\ handle' \in Handles
      /\ handle'.busy = handle.busy /\ handle'.open = handle.open
      /\ file' \in Databases \cup {Broken}
      /\ UNCHANGED <<snapshot, copy, saved, crashes>>
  BY ExecutedTyped DEF files, Typed
<1>2. handle'.busy # Null => handle'.open /\ req'[handle'.busy].at = "EndVacuum"
  BY <1>1, HolderKept
<1>3. /\ req' \in [Clients -> AdminRequests]
      /\ \A d \in Clients : Carries(req'[d])
  BY ContinueTyped
<1>4. QED BY <1>1, <1>2, <1>3 DEF Typed

\* All the statements a request can be at.
LEMMA RequestForms ==
  /\ \A status \in Statuses : /\ Answered(status) \in AdminRequests
                              /\ [at |-> "EndReset", status |-> status] \in AdminRequests
  /\ \A contents \in Databases \cup {Broken} :
       [at |-> "EndCopy", contents |-> contents] \in AdminRequests
  /\ \A at \in {"Vacuum", "RemoveStale", "CopySnapshot", "CloseDB", "SwapFile", "OpenDB",
                "InitPragma", "InitTables"} : [at |-> at] \in AdminRequests
  /\ \A r \in AdminRequests :
       /\ r.at \in {"answered", "EndReset"} => r = [at |-> r.at, status |-> r.status]
       /\ r.at \in {"answered", "EndReset"} => r.status \in Statuses
       /\ r.at = "Reset" => /\ r.todo \in {<<>>, <<"vpcs">>, ResetOrder}
                            /\ r = [at |-> "Reset", todo |-> r.todo]
BY DEF AdminRequests, Answered, Databases

\* How a reset gets through the tables.
LEMMA ResetForms ==
  /\ ResetOrder # <<>> /\ Head(ResetOrder) = "private_networks" /\ Tail(ResetOrder) = <<"vpcs">>
  /\ <<"vpcs">> # <<>> /\ Head(<<"vpcs">>) = "vpcs" /\ Tail(<<"vpcs">>) = <<>>
  /\ ResetOrder # <<"vpcs">>
  /\ \A todo \in {<<>>, <<"vpcs">>, ResetOrder} : [at |-> "Reset", todo |-> todo] \in AdminRequests
BY DEF ResetOrder, AdminRequests

\* Ordinary requests.
LEMMA OrdinaryTyped ==
  ASSUME Typed, NEW c \in Clients, OrdinaryRequest(c)
  PROVE  Typed'
<1>1. Ordinary(c) /\ req[c].at # "EndVacuum"
  BY OrdinaryRequests DEF OrdinaryRequest, Idle
<1>2. PICK status \in Statuses : Continue(c, Answered(status))
  BY <1>1 DEF Ordinary, Answer
<1>3. Answered(status) \in AdminRequests /\ Answered(status).at \notin {"EndVacuum", "EndCopy"}
  BY RequestForms DEF Answered
<1>4. db' \in Databases \cup {Broken}
  BY <1>1 DEF Ordinary, OnlyReq, Typed
<1>5. (\E fk \in BOOLEAN : Executed(fk)) \/ UNCHANGED <<handle, files, crashes>>
  BY <1>1 DEF Ordinary, OnlyReq, Typed, Handles
<1>6. QED BY <1>1, <1>2, <1>3, <1>4, <1>5, StatementTyped

\* A reset.
LEMMA ResetTyped ==
  ASSUME Typed, NEW c \in Clients,
         BeginReset(c) \/ ClearTable(c) \/ ResetSnapshot(c) \/ EndReset(c)
  PROVE  Typed'
<1>1. ASSUME Fail(c), req[c].at # "EndVacuum" PROVE Typed'
  <2>1. Continue(c, Answered("error")) /\ UNCHANGED <<db, handle, files, crashes>>
    BY <1>1 DEF Fail, Answer, OnlyReq
  <2>2. Answered("error") \in AdminRequests /\ Answered("error").at \notin {"EndVacuum", "EndCopy"}
    BY RequestForms DEF Answered, Statuses
  <2>3. db' \in Databases \cup {Broken}
    BY <2>1 DEF Typed
  <2>4. QED BY <1>1, <2>1, <2>2, <2>3, StatementTyped
<1>2. CASE BeginReset(c)
  <2>1. req[c].at # "EndVacuum"
    BY <1>2 DEF BeginReset, Idle
  <2>2. CASE Continue(c, [at |-> "Reset", todo |-> ResetOrder]) /\ UNCHANGED db /\ Executed(FALSE)
    <3>1. [at |-> "Reset", todo |-> ResetOrder] \in AdminRequests
      BY ResetForms
    <3>2. db' \in Databases \cup {Broken}
      BY <2>2 DEF Typed
    <3>3. QED BY <2>1, <2>2, <3>1, <3>2, StatementTyped
  <2>3. QED BY <1>1, <1>2, <2>1, <2>2 DEF BeginReset
<1>3. CASE ClearTable(c)
  <2> DEFINE r == req[c]
  <2>1. /\ r \in AdminRequests /\ r.at = "Reset" /\ r.todo \in {<<"vpcs">>, ResetOrder}
        /\ r = [at |-> "Reset", todo |-> r.todo]
    BY <1>3, RequestForms DEF ClearTable, Typed
  <2>2. CASE /\ db # Broken /\ db' = [db EXCEPT ![Head(r.todo)] = EmptyTable]
             /\ Continue(c, [r EXCEPT !.todo = Tail(@)]) /\ Executed(handle.fk)
    <3>1. /\ [r EXCEPT !.todo = Tail(@)] = [at |-> "Reset", todo |-> Tail(r.todo)]
          /\ Tail(r.todo) \in {<<>>, <<"vpcs">>}
      <4>1. Tail(r.todo) \in {<<>>, <<"vpcs">>}
        BY <2>1, ResetForms
      <4>2. \A todo, x : [[at |-> "Reset", todo |-> todo] EXCEPT !.todo = x]
                           = [at |-> "Reset", todo |-> x]
        OBVIOUS
      <4>3. [r EXCEPT !.todo = Tail(@)] = [r EXCEPT !.todo = Tail(r.todo)]
        OBVIOUS
      <4>4. QED BY <4>1, <4>2, <4>3, <2>1
    <3>2. [r EXCEPT !.todo = Tail(@)] \in AdminRequests /\ [r EXCEPT !.todo = Tail(@)].at = "Reset"
      BY <3>1, ResetForms
    <3>3. Head(r.todo) \in AdminTables
      BY <2>1, ResetForms DEF AdminTables
    <3>4. db' \in Databases \cup {Broken} /\ handle.fk \in BOOLEAN
      BY <2>2, <3>3, ClearGivesDatabase DEF Typed, Handles
    <3>5. QED BY <2>1, <2>2, <3>2, <3>4, StatementTyped
  <2>3. CASE Continue(c, [at |-> "EndReset", status |-> "error"]) /\ OnlyReq
    <3>1. [at |-> "EndReset", status |-> "error"] \in AdminRequests
      BY RequestForms DEF Statuses
    <3>2. db' \in Databases \cup {Broken} /\ UNCHANGED <<handle, files, crashes>>
      BY <2>3 DEF Typed, OnlyReq
    <3>3. QED BY <2>1, <2>3, <3>1, <3>2, StatementTyped
  <2>4. QED BY <1>3, <2>2, <2>3 DEF ClearTable
<1>4. CASE ResetSnapshot(c)
  <2>1. /\ Continue(c, [at |-> "EndReset", status |-> "ok"]) /\ req[c].at # "EndVacuum"
        /\ snapshot' = Null /\ UNCHANGED <<db, handle, file, copy, saved, crashes>>
    BY <1>4 DEF ResetSnapshot
  <2>2. [at |-> "EndReset", status |-> "ok"] \in AdminRequests
    BY RequestForms DEF Statuses
  <2>3. QED BY <2>1, <2>2, ContinueTyped, HolderKept DEF Typed
<1>5. CASE EndReset(c)
  <2>1. /\ Continue(c, Answered(req[c].status)) /\ req[c].at = "EndReset" /\ UNCHANGED db
        /\ Executed(TRUE) \/ UNCHANGED <<handle, files, crashes>>
    BY <1>5 DEF EndReset, Answer
  <2>2. /\ Answered(req[c].status) \in AdminRequests
        /\ Answered(req[c].status).at \notin {"EndVacuum", "EndCopy"}
    BY <2>1, RequestForms DEF Typed, Answered
  <2>3. db' \in Databases \cup {Broken}
    BY <2>1 DEF Typed
  <2>4. QED BY <2>1, <2>2, <2>3, StatementTyped
<1>6. QED BY <1>2, <1>3, <1>4, <1>5

\* A request that is answered with an error.
LEMMA FailTyped ==
  ASSUME Typed, NEW c \in Clients, Fail(c), req[c].at # "EndVacuum"
  PROVE  Typed'
<1>1. Continue(c, Answered("error")) /\ UNCHANGED <<db, handle, files, crashes>>
  BY DEF Fail, Answer, OnlyReq
<1>2. Answered("error") \in AdminRequests /\ Answered("error").at \notin {"EndVacuum", "EndCopy"}
  BY RequestForms DEF Answered, Statuses
<1>3. db' \in Databases \cup {Broken}
  BY <1>1 DEF Typed
<1>4. QED BY <1>1, <1>2, <1>3, StatementTyped

\* A snapshot.
LEMMA SnapshotTyped ==
  ASSUME Typed, NEW c \in Clients, BeginSnapshot(c) \/ Vacuum(c) \/ EndVacuum(c)
  PROVE  Typed'
<1>1. CASE BeginSnapshot(c)
  <2>1. /\ Continue(c, [at |-> "Vacuum"]) /\ req[c].at # "EndVacuum"
        /\ snapshot' = Null /\ UNCHANGED <<db, handle, file, copy, saved, crashes>>
    BY <1>1 DEF BeginSnapshot, Idle
  <2>2. [at |-> "Vacuum"] \in AdminRequests
    BY RequestForms
  <2>3. QED BY <2>1, <2>2, ContinueTyped, HolderKept DEF Typed
<1>2. CASE Vacuum(c)
  <2>1. CASE Fail(c)
    BY <1>2, <2>1, FailTyped DEF Vacuum
  <2>2. CASE /\ Usable /\ db # Broken
             /\ snapshot' = Writing(c)
             /\ Continue(c, [at |-> "EndVacuum", contents |-> db])
             /\ handle' = [handle EXCEPT !.connected = TRUE, !.busy = c]
             /\ UNCHANGED <<db, file, copy, saved, crashes>>
    <3> DEFINE r == [at |-> "EndVacuum", contents |-> db]
    <3>1. db \in Databases /\ db \in Contents
      BY <2>2 DEF Typed, Databases
    <3>2. r \in AdminRequests /\ r.at = "EndVacuum" /\ r.contents = db
      BY <3>1 DEF AdminRequests
    <3>3. req' = [req EXCEPT ![c] = r]
      BY <2>2 DEF Continue
    <3> HIDE DEF r
    <3>4. /\ req' \in [Clients -> AdminRequests] /\ req'[c].at = "EndVacuum"
          /\ \A d \in Clients : Carries(req'[d])
      BY <3>1, <3>2, <3>3 DEF Typed, Carries
    <3>5. handle' \in Handles /\ handle'.busy = c /\ handle'.open
      BY <2>2 DEF Typed, Handles, Usable
    <3>6. QED BY <2>2, <3>4, <3>5 DEF Typed, Half
  <2>3. QED BY <1>2, <2>1, <2>2 DEF Vacuum
<1>3. CASE EndVacuum(c)
  <2>1. /\ req[c].at = "EndVacuum" /\ req[c].contents \in Databases
        /\ Continue(c, Answered("ok")) /\ UNCHANGED <<db, file, copy, crashes>>
    BY <1>3 DEF EndVacuum, Typed, Carries, Answer
  <2>2. Answered("ok") \in AdminRequests /\ Answered("ok").at \notin {"EndVacuum", "EndCopy"}
    BY RequestForms DEF Answered, Statuses
  <2>3. /\ req' \in [Clients -> AdminRequests]
        /\ \A d \in Clients \ {c} : req'[d] = req[d]
        /\ \A d \in Clients : Carries(req'[d])
    BY <2>1, <2>2, ContinueTyped
  <2>4. /\ saved' \subseteq Databases
        /\ snapshot' \in [contents : Databases] \cup Half \cup {Null}
    <3>1. Whole(req[c].contents) \in [contents : Databases]
      BY <2>1 DEF Whole
    <3>2. QED BY <1>3, <2>1, <3>1 DEF EndVacuum, Typed
  <2>5. handle' \in Handles /\ handle'.open = handle.open
        /\ handle'.busy = IF handle.busy = c THEN Null ELSE handle.busy
    BY <1>3 DEF EndVacuum, Typed, Handles
  <2>6. handle'.busy # Null => handle'.open /\ req'[handle'.busy].at = "EndVacuum"
    BY <2>3, <2>5 DEF Typed, Handles
  <2>7. QED BY <2>1, <2>3, <2>4, <2>5, <2>6 DEF Typed
<1>4. QED BY <1>1, <1>2, <1>3

\* A handle that is opened or closed is held by nobody.
LEMMA NewHandles ==
  /\ \A connected, fk \in BOOLEAN :
       /\ Opened(connected, fk) \in Handles
       /\ Opened(connected, fk).busy = Null /\ Opened(connected, fk).open
       /\ Opened(connected, fk).linked
       /\ Opened(connected, fk).connected = connected /\ Opened(connected, fk).fk = fk
  /\ Closed \in Handles /\ Closed.busy = Null /\ ~Closed.open /\ Closed.linked
  /\ ~Closed.connected
BY DEF Opened, Closed, Handles

\* What a reader of a file gets, whole or not.
LEMMA ReadsAreDatabases ==
  ASSUME NEW f \in [contents : Databases \cup {Broken}] \cup Half,
         NEW contents \in ReadOutcomes(f)
  PROVE  contents \in Databases \cup {Broken}
<1>1. CASE f \in Half
  BY <1>1, EmptyIsDatabase DEF ReadOutcomes, Half
<1>2. CASE f \notin Half
  <2>1. f \in [contents : Databases \cup {Broken}] /\ contents = f.contents
    BY <1>2 DEF ReadOutcomes, Half
  <2>2. QED BY <2>1
<1>3. QED BY <1>1, <1>2

\* A file is whole or is being written.
LEMMA WholeOrHalf ==
  /\ \A contents : Whole(contents) \notin Half /\ Whole(contents).contents = contents
  /\ [contents : Databases] \subseteq [contents : Databases \cup {Broken}]
<1>1. ASSUME NEW contents PROVE Whole(contents) \notin Half
  <2>1. DOMAIN Whole(contents) = {"contents"}
    BY DEF Whole
  <2>2. \A c \in Clients : DOMAIN Writing(c) = {"writer"}
    BY DEF Writing
  <2>3. QED BY <2>1, <2>2 DEF Half
<1>2. QED BY <1>1 DEF Whole

\* A restore.
LEMMA RestoreTyped ==
  ASSUME Typed, NEW c \in Clients,
         \/ BeginRestore(c) \/ RemoveStale(c) \/ CopySnapshot(c) \/ EndCopy(c) \/ CloseDB(c)
         \/ SwapFile(c) \/ OpenDB(c) \/ InitPragma(c) \/ InitTables(c)
  PROVE  Typed'
<1>1. CASE BeginRestore(c)
  <2>1. PICK r \in AdminRequests : r.at \notin {"EndVacuum", "EndCopy"} /\ Continue(c, r)
    <3>1. Answered("not_found") \in AdminRequests /\ Answered("not_found").at \notin {"EndVacuum", "EndCopy"}
      BY RequestForms DEF Answered, Statuses
    <3>2. [at |-> "RemoveStale"] \in AdminRequests
      BY RequestForms
    <3>3. QED BY <1>1, <3>1, <3>2 DEF BeginRestore, Answer
  <2>2. /\ req[c].at # "EndVacuum" /\ db' \in Databases \cup {Broken}
        /\ UNCHANGED <<handle, files, crashes>>
    BY <1>1 DEF BeginRestore, Idle, OnlyReq, Typed
  <2>3. QED BY <2>1, <2>2, StatementTyped
<1>2. CASE RemoveStale(c)
  <2>1. /\ Continue(c, [at |-> "CopySnapshot"]) /\ req[c].at # "EndVacuum"
        /\ copy' = Null /\ UNCHANGED <<db, handle, file, snapshot, saved, crashes>>
    BY <1>2 DEF RemoveStale
  <2>2. [at |-> "CopySnapshot"] \in AdminRequests
    BY RequestForms
  <2>3. QED BY <2>1, <2>2, ContinueTyped, HolderKept DEF Typed
<1>3. CASE CopySnapshot(c)
  <2>1. CASE Fail(c)
    BY <1>3, <2>1, FailTyped DEF CopySnapshot
  <2>2. CASE ~Fail(c)
    <3>1. PICK contents \in ReadOutcomes(snapshot) :
            Continue(c, [at |-> "EndCopy", contents |-> contents])
      BY <1>3, <2>2 DEF CopySnapshot
    <3>2. /\ req[c].at # "EndVacuum" /\ snapshot # Null /\ copy' = Writing(c)
          /\ UNCHANGED <<db, handle, file, snapshot, saved, crashes>>
      BY <1>3, <2>2 DEF CopySnapshot
    <3>3. contents \in Databases \cup {Broken}
      BY <3>2, ReadsAreDatabases, WholeOrHalf DEF Typed
    <3> DEFINE r == [at |-> "EndCopy", contents |-> contents]
    <3>4. r \in AdminRequests /\ r.at = "EndCopy" /\ r.contents = contents
      BY <3>3, RequestForms
    <3>5. req' = [req EXCEPT ![c] = r]
      BY <3>1 DEF Continue
    <3> HIDE DEF r
    <3>6. req' \in [Clients -> AdminRequests] /\ \A d \in Clients : Carries(req'[d])
      BY <3>3, <3>4, <3>5 DEF Typed, Carries
    <3>7. handle'.busy # Null => handle'.open /\ req'[handle'.busy].at = "EndVacuum"
      BY <3>1, <3>2, HolderKept
    <3>8. copy' \in Half
      BY <3>2 DEF Half
    <3>9. QED BY <3>2, <3>6, <3>7, <3>8 DEF Typed
  <2>3. QED BY <2>1, <2>2
<1>10. CASE EndCopy(c)
  <2>1. /\ Continue(c, [at |-> "CloseDB"]) /\ req[c].at = "EndCopy"
        /\ copy' = Whole(req[c].contents) \/ copy' = copy
        /\ UNCHANGED <<db, handle, file, snapshot, saved, crashes>>
    BY <1>10 DEF EndCopy
  <2>2. req[c].contents \in Databases \cup {Broken}
    BY <2>1 DEF Typed, Carries
  <2>3. Whole(req[c].contents) \in [contents : Databases \cup {Broken}]
    BY <2>2 DEF Whole
  <2>4. [at |-> "CloseDB"] \in AdminRequests
    BY RequestForms
  <2>5. QED BY <2>1, <2>3, <2>4, ContinueTyped, HolderKept DEF Typed
<1>4. CASE CloseDB(c)
  <2>1. /\ Continue(c, [at |-> "SwapFile"]) /\ handle' = Closed
        /\ UNCHANGED <<db, file, snapshot, copy, saved, crashes>>
    BY <1>4 DEF CloseDB, files
  <2>2. [at |-> "SwapFile"] \in AdminRequests
    BY RequestForms
  <2>3. QED BY <2>1, <2>2, ContinueTyped, NewHandles DEF Typed
<1>5. CASE SwapFile(c)
  <2>1. CASE copy = Null
    <3>1. /\ Continue(c, Answered("error")) /\ handle' = Opened(FALSE, FALSE) /\ db' = file
          /\ UNCHANGED <<file, snapshot, copy, saved, crashes>>
      BY <1>5, <2>1 DEF SwapFile, Answer, files
    <3>2. Answered("error") \in AdminRequests /\ Answered("error").at \notin {"EndVacuum", "EndCopy"}
      BY RequestForms DEF Answered, Statuses
    <3>3. QED BY <3>1, <3>2, ContinueTyped, NewHandles DEF Typed
  <2>2. CASE copy # Null
    <3>1. /\ Continue(c, [at |-> "OpenDB"]) /\ req[c].at # "EndVacuum"
          /\ file' \in ReadOutcomes(copy) /\ copy' = Null
          /\ UNCHANGED <<snapshot, saved, crashes>>
      BY <1>5, <2>2 DEF SwapFile
    <3>2. file' \in Databases \cup {Broken}
      BY <2>2, <3>1, ReadsAreDatabases DEF Typed
    <3>3. db' \in Databases \cup {Broken}
      BY <1>5, <2>2, <3>1, <3>2 DEF SwapFile, Typed
    <3>4. handle' \in Handles /\ handle'.busy = handle.busy /\ handle'.open = handle.open
      BY <1>5, <2>2 DEF SwapFile, Typed, Handles
    <3>5. [at |-> "OpenDB"] \in AdminRequests
      BY RequestForms
    <3>6. QED BY <3>1, <3>2, <3>3, <3>4, <3>5, ContinueTyped, HolderKept DEF Typed
  <2>3. QED BY <2>1, <2>2
<1>6. CASE OpenDB(c)
  <2>1. /\ Continue(c, [at |-> "InitPragma"]) /\ handle' = Opened(FALSE, FALSE) /\ db' = file
        /\ UNCHANGED <<file, snapshot, copy, saved, crashes>>
    BY <1>6 DEF OpenDB, files
  <2>2. [at |-> "InitPragma"] \in AdminRequests
    BY RequestForms
  <2>3. QED BY <2>1, <2>2, ContinueTyped, NewHandles DEF Typed
<1>7. CASE InitPragma(c)
  <2>1. CASE Fail(c)
    BY <1>7, <2>1, FailTyped DEF InitPragma
  <2>2. CASE Continue(c, [at |-> "InitTables"]) /\ UNCHANGED db /\ Executed(TRUE)
    <3>1. [at |-> "InitTables"] \in AdminRequests
      BY RequestForms
    <3>2. req[c].at # "EndVacuum" /\ db' \in Databases \cup {Broken}
      BY <1>7, <2>2 DEF InitPragma, Typed
    <3>3. QED BY <2>2, <3>1, <3>2, StatementTyped
  <2>3. QED BY <1>7, <2>1, <2>2 DEF InitPragma
<1>8. CASE InitTables(c)
  <2>1. CASE Fail(c)
    BY <1>8, <2>1, FailTyped DEF InitTables
  <2>2. CASE Continue(c, Answered("ok")) /\ UNCHANGED db /\ Executed(handle.fk)
    <3>1. Answered("ok") \in AdminRequests /\ Answered("ok").at \notin {"EndVacuum", "EndCopy"}
      BY RequestForms DEF Answered, Statuses
    <3>2. /\ req[c].at # "EndVacuum" /\ db' \in Databases \cup {Broken} /\ handle.fk \in BOOLEAN
      BY <1>8, <2>2 DEF InitTables, Typed, Handles
    <3>3. QED BY <2>2, <3>1, <3>2, StatementTyped
  <2>3. QED BY <1>8, <2>1, <2>2 DEF InitTables, Answer
<1>9. QED BY <1>1, <1>2, <1>3, <1>4, <1>5, <1>6, <1>7, <1>8, <1>10

\* A kill.
LEMMA CrashTyped ==
  ASSUME Typed, Crash
  PROVE  Typed'
<1>1. Answered("error") \in AdminRequests /\ Answered("error").at \notin {"EndVacuum", "EndCopy"}
  BY RequestForms DEF Answered, Statuses
<1>2. /\ handle' = Opened(TRUE, TRUE) /\ crashes' = crashes + 1
      /\ req' = [c \in Clients |-> Answered("error")]
  BY DEF Crash
<1>3. req' \in [Clients -> AdminRequests] /\ \A c \in Clients : Carries(req'[c])
  BY <1>1, <1>2 DEF Carries
<1>4. handle' \in Handles /\ handle'.busy = Null
  BY <1>2, NewHandles
<1>5. /\ {db', file'} \subseteq Databases \cup {Broken} /\ saved' \subseteq Databases
      /\ crashes' \in Nat
  BY <1>2, EmptyIsDatabase DEF Crash, files, Typed
<1>6. /\ snapshot' \in [contents : Databases] \cup Half \cup {Null}
      /\ copy' \in [contents : Databases \cup {Broken}] \cup Half \cup {Null}
  <2>1. CASE UNCHANGED files
    BY <2>1 DEF files, Typed
  <2>2. CASE snapshot' = Null /\ copy' = Null
    BY <2>2
  <2>3. QED BY <2>1, <2>2 DEF Crash
<1>7. Half' = Half
  BY DEF Half, Writing
<1>8. QED BY <1>3, <1>4, <1>5, <1>6, <1>7 DEF Typed

\* All steps.
LEMMA StepTyped ==
  ASSUME Typed, [Next]_adminVars
  PROVE  Typed'
<1>1. CASE UNCHANGED adminVars
  BY <1>1 DEF adminVars, vars, files, Typed
<1>2. CASE Next
  BY <1>2, CrashTyped, OrdinaryTyped, ResetTyped, SnapshotTyped, RestoreTyped
     DEF Next, Arrive, Proceed
<1>3. QED BY <1>1, <1>2

\* The variables keep their types, and nobody but a running VACUUM of its own holds the
\* connection: a client that is answered, or that died with the process, does not.
THEOREM AdminTypeCorrect == Spec => []AdminTypeOK
<1>1. Typed => AdminTypeOK
  <2> SUFFICES ASSUME Typed PROVE AdminTypeOK
    OBVIOUS
  <2>1. Databases \subseteq Contents
    BY DEF Databases
  <2>2. {snapshot, copy} \subseteq Files
    BY <2>1 DEF Typed, Files, Half
  <2>3. QED BY <2>1, <2>2 DEF Typed, AdminTypeOK
<1>2. QED BY <1>1, InitTyped, StepTyped, PTL DEF Spec

-----------------------------------------------------------------------------
(***************************************************************************)
(* One admin client, next to any number of others.                         *)
(*                                                                         *)
(* SomeSpec is MCSpec without the bounds that keep TLC's instances small:  *)
(* some of the clients send requests, and some of those admin requests;    *)
(* the process may be killed at any time.                                  *)
(***************************************************************************)
SomeNext ==
  /\ \/ Crash
     \/ \E c \in acting : Arrive(c)
     \/ \E c \in active \ acting : OrdinaryRequest(c)
     \/ \E c \in active : Proceed(c)
  /\ UNCHANGED <<active, acting>>

SomeSpec == MCInit /\ [][SomeNext]_mcVars

\* What TLC explores is among them.
LEMMA BoundedRunsAreRuns == MCSpec => SomeSpec
<1>1. [MCNext]_mcVars => [SomeNext]_mcVars
  BY DEF MCNext, SomeNext
<1>2. QED BY <1>1, PTL DEF MCSpec, SomeSpec

(***************************************************************************)
(* Ordinary clients are always answered at once.  Of the one who sends     *)
(* admin requests, the invariant says what each of its statements finds:   *)
(* r.db is closed only while the file is swapped, foreign keys are off     *)
(* only until the pragma that ends a reset or begins init, and the copy    *)
(* that was made is still there, and whole, to be renamed.                 *)
(***************************************************************************)
Enforcing == {"answered", "Vacuum", "EndVacuum", "RemoveStale", "CopySnapshot", "EndCopy",
              "CloseDB", "InitTables"}

Relies(c) ==
  /\ req[c].at \in {"Reset", "EndReset", "InitPragma"} => handle.open
  /\ req[c].at \in Enforcing => handle.open /\ handle.fk
  /\ req[c].at = "EndCopy" => copy = Writing(c)
  /\ req[c].at \in {"CloseDB", "SwapFile"} => copy \in [contents : Databases \cup {Broken}]

Others == \A c \in Clients \ acting : Idle(c)

OneAdminInv ==
  /\ Typed
  /\ active \subseteq Clients /\ acting \subseteq active \cap Admins /\ acting # {}
  /\ Others
  /\ OneAdmin => \A c \in acting : Relies(c)

\* What the one admin client relies on is left alone by requests of others.
LEMMA OrdinaryLeavesReliance ==
  ASSUME Typed, NEW a \in Clients, NEW c \in Clients, Relies(a), Ordinary(c),
         c = a => Idle(c)
  PROVE  Relies(a)'
<1>1. PICK status \in Statuses : req' = [req EXCEPT ![c] = Answered(status)]
  BY DEF Ordinary, Answer, Continue
<1>2. req'[a].at = req[a].at
  BY <1>1 DEF Typed, Idle, Answered
<1>3. copy' = copy /\ handle'.open = handle.open /\ handle'.fk = handle.fk
  BY DEF Ordinary, OnlyReq, files, Executed, Typed, Handles
<1>4. QED BY <1>2, <1>3 DEF Relies

\* Its own reset turns foreign keys off, and on again.
LEMMA ResetReliance ==
  ASSUME Typed, NEW a \in Clients, Relies(a),
         BeginReset(a) \/ ClearTable(a) \/ ResetSnapshot(a) \/ EndReset(a)
  PROVE  Relies(a)'
<1>1. CASE BeginReset(a)
  <2>1. handle.open
    BY <1>1 DEF BeginReset, Idle, Relies, Enforcing
  <2>2. Continue(a, [at |-> "Reset", todo |-> ResetOrder]) /\ Executed(FALSE)
    BY <1>1, <2>1 DEF BeginReset
  <2>3. req'[a].at = "Reset" /\ handle'.open
    BY <2>1, <2>2 DEF Continue, Executed, Typed, Handles
  <2>4. QED BY <2>3 DEF Relies, Enforcing
<1>2. CASE ClearTable(a)
  <2>1. handle.open
    BY <1>2 DEF ClearTable, Relies
  <2>2. handle'.open
    BY <1>2, <2>1 DEF ClearTable, OnlyReq, Executed, Typed, Handles
  <2>3. req'[a].at \in {"Reset", "EndReset"}
    <3>1. CASE Continue(a, [req[a] EXCEPT !.todo = Tail(@)])
      <4>1. req[a] = [at |-> "Reset", todo |-> req[a].todo]
        BY <1>2, RequestForms DEF ClearTable, Typed
      <4>2. \A todo, x : [[at |-> "Reset", todo |-> todo] EXCEPT !.todo = x].at = "Reset"
        OBVIOUS
      <4>3. [req[a] EXCEPT !.todo = Tail(@)].at = "Reset"
        BY <4>1, <4>2
      <4>4. QED BY <3>1, <4>3 DEF Continue, Typed
    <3>2. CASE Continue(a, [at |-> "EndReset", status |-> "error"])
      BY <3>2 DEF Continue, Typed
    <3>3. QED BY <1>2, <3>1, <3>2 DEF ClearTable
  <2>4. QED BY <2>2, <2>3 DEF Relies, Enforcing
<1>3. CASE ResetSnapshot(a)
  <2>1. handle.open /\ handle' = handle
    BY <1>3 DEF ResetSnapshot, Relies
  <2>2. req'[a].at = "EndReset"
    BY <1>3 DEF ResetSnapshot, Continue, Typed
  <2>3. QED BY <2>1, <2>2 DEF Relies, Enforcing
<1>4. CASE EndReset(a)
  <2>1. handle.open
    BY <1>4 DEF EndReset, Relies
  <2>2. Executed(TRUE)
    BY <1>4, <2>1 DEF EndReset
  <2>3. handle'.open /\ handle'.fk
    BY <2>1, <2>2 DEF Executed, Typed, Handles
  <2>4. req'[a].at = "answered"
    BY <1>4 DEF EndReset, Answer, Continue, Answered, Typed
  <2>5. QED BY <2>3, <2>4 DEF Relies
<1>5. QED BY <1>1, <1>2, <1>3, <1>4

\* Its own snapshot takes the connection and gives it back as it was.
LEMMA SnapshotReliance ==
  ASSUME Typed, NEW a \in Clients, Relies(a), BeginSnapshot(a) \/ Vacuum(a) \/ EndVacuum(a)
  PROVE  Relies(a)'
<1>1. handle.open /\ handle.fk
  BY DEF BeginSnapshot, Vacuum, EndVacuum, Idle, Relies, Enforcing
<1>2. handle'.open /\ handle'.fk
  BY <1>1 DEF BeginSnapshot, Vacuum, EndVacuum, Fail, OnlyReq, Typed, Handles
<1>3. req'[a].at \in {"answered", "Vacuum", "EndVacuum"}
  BY DEF BeginSnapshot, Vacuum, EndVacuum, Fail, Answer, Continue, Answered, Typed
<1>4. QED BY <1>2, <1>3 DEF Relies

\* Null is not a file with contents.
LEMMA WholeIsNotNull == Null \notin [contents : Databases \cup {Broken}]
<1>1. [contents : Databases \cup {Broken}] \subseteq [contents : Contents \cup {Broken}]
  BY DEF Databases
<1>2. QED BY <1>1, NullIsNoFile

\* Neither is a file that is being written.
LEMMA HalfIsNotWhole ==
  \A c \in Clients : Writing(c) \notin [contents : Databases \cup {Broken}]
BY DEF Writing

\* Its own restore finds the copy it made, and ends with the pragma of init.
LEMMA RestoreReliance ==
  ASSUME Typed, NEW a \in Clients, Relies(a),
         \/ BeginRestore(a) \/ RemoveStale(a) \/ CopySnapshot(a) \/ EndCopy(a) \/ CloseDB(a)
         \/ SwapFile(a) \/ OpenDB(a) \/ InitPragma(a) \/ InitTables(a)
  PROVE  Relies(a)'
<1>1. CASE BeginRestore(a) \/ RemoveStale(a)
  <2>1. handle.open /\ handle.fk /\ handle' = handle
    BY <1>1 DEF BeginRestore, RemoveStale, Idle, Relies, Enforcing, OnlyReq
  <2>2. req'[a].at \in {"answered", "RemoveStale", "CopySnapshot"}
    BY <1>1 DEF BeginRestore, RemoveStale, Answer, Continue, Answered, Typed
  <2>3. QED BY <2>1, <2>2 DEF Relies
<1>2. CASE CopySnapshot(a)
  <2>1. handle.open /\ handle.fk /\ handle' = handle
    BY <1>2 DEF CopySnapshot, Relies, Enforcing, Fail, OnlyReq
  <2>2. CASE Fail(a)
    <3>1. req'[a].at = "answered"
      BY <2>2 DEF Fail, Answer, Continue, Answered, Typed
    <3>2. QED BY <2>1, <3>1 DEF Relies
  <2>3. CASE ~Fail(a)
    <3>1. PICK contents : Continue(a, [at |-> "EndCopy", contents |-> contents])
      BY <1>2, <2>3 DEF CopySnapshot
    <3>2. req'[a].at = "EndCopy" /\ copy' = Writing(a)
      BY <1>2, <2>3, <3>1 DEF CopySnapshot, Continue, Typed
    <3>3. QED BY <2>1, <3>2 DEF Relies
  <2>4. QED BY <2>2, <2>3
<1>9. CASE EndCopy(a)
  <2>1. /\ handle.open /\ handle.fk /\ handle' = handle
        /\ copy' = Whole(req[a].contents) /\ req[a].contents \in Databases \cup {Broken}
    BY <1>9 DEF EndCopy, Relies, Enforcing, Typed, Carries
  <2>2. req'[a].at = "CloseDB" /\ copy' \in [contents : Databases \cup {Broken}]
    BY <1>9, <2>1 DEF EndCopy, Continue, Typed, Whole
  <2>3. QED BY <2>1, <2>2 DEF Relies
<1>3. CASE CloseDB(a)
  <2>1. /\ req'[a].at = "SwapFile" /\ copy' = copy
        /\ copy \in [contents : Databases \cup {Broken}]
    BY <1>3 DEF CloseDB, Continue, Typed, Relies, files
  <2>2. QED BY <2>1 DEF Relies, Enforcing
<1>4. CASE SwapFile(a)
  <2>1. copy # Null
    BY <1>4, WholeIsNotNull DEF SwapFile, Relies
  <2>2. Continue(a, [at |-> "OpenDB"])
    BY <1>4, <2>1 DEF SwapFile
  <2>3. req'[a].at = "OpenDB"
    BY <2>2 DEF Continue, Typed
  <2>4. QED BY <2>3 DEF Relies, Enforcing
<1>5. CASE OpenDB(a)
  <2>1. req'[a].at = "InitPragma" /\ handle'.open
    BY <1>5, NewHandles DEF OpenDB, Continue, Typed
  <2>2. QED BY <2>1 DEF Relies, Enforcing
<1>6. CASE InitPragma(a)
  <2>1. handle.open
    BY <1>6 DEF InitPragma, Relies
  <2>2. Executed(TRUE) /\ Continue(a, [at |-> "InitTables"])
    BY <1>6, <2>1 DEF InitPragma
  <2>3. handle'.open /\ handle'.fk /\ req'[a].at = "InitTables"
    BY <2>1, <2>2 DEF Executed, Continue, Typed, Handles
  <2>4. QED BY <2>3 DEF Relies
<1>7. CASE InitTables(a)
  <2>1. handle.open /\ handle.fk
    BY <1>7 DEF InitTables, Relies, Enforcing
  <2>2. handle'.open /\ handle'.fk
    BY <1>7, <2>1 DEF InitTables, Executed, Fail, OnlyReq, Typed, Handles
  <2>3. req'[a].at = "answered"
    BY <1>7 DEF InitTables, Fail, Answer, Continue, Answered, Typed
  <2>4. QED BY <2>2, <2>3 DEF Relies
<1>8. QED BY <1>1, <1>2, <1>3, <1>4, <1>5, <1>6, <1>7, <1>9

\* The steps of an admin request.
AdminStep(c) == BeginReset(c) \/ BeginSnapshot(c) \/ BeginRestore(c) \/ Proceed(c)

\* Only the one who sends admin requests takes them.
LEMMA WhoActs ==
  ASSUME OneAdminInv, SomeNext
  PROVE  \/ Crash
         \/ \E c \in active : OrdinaryRequest(c)
         \/ \E c \in acting : AdminStep(c)
<1>1. ASSUME NEW c \in active, Proceed(c) PROVE c \in acting
  <2>1. ~Idle(c)
    BY <1>1 DEF Proceed, ClearTable, ResetSnapshot, EndReset, Vacuum, EndVacuum, RemoveStale,
                CopySnapshot, EndCopy, CloseDB, SwapFile, OpenDB, InitPragma, InitTables, Idle
  <2>2. QED BY <2>1 DEF OneAdminInv, Others
<1>2. QED BY <1>1 DEF SomeNext, Arrive, AdminStep, OneAdminInv

\* A step of one client leaves what others are doing alone.
LEMMA OthersKept ==
  ASSUME Typed, NEW c \in Clients, AdminStep(c) \/ OrdinaryRequest(c)
  PROVE  \A d \in Clients \ {c} : req'[d] = req[d]
<1>1. \E r : Continue(c, r)
  <2>1. CASE OrdinaryRequest(c)
    BY <2>1, OrdinaryRequests DEF Ordinary, Answer
  <2>2. CASE AdminStep(c)
    BY <2>2 DEF AdminStep, Proceed, BeginReset, BeginSnapshot, BeginRestore, ClearTable,
                ResetSnapshot, EndReset, Vacuum, EndVacuum, RemoveStale, CopySnapshot, EndCopy, CloseDB,
                SwapFile, OpenDB, InitPragma, InitTables, Fail, Answer
  <2>3. QED BY <2>1, <2>2
<1>2. QED BY <1>1 DEF Continue, Typed

\* The steps of a behaviour of some clients are steps of the specification.
LEMMA SomeStepTyped ==
  ASSUME OneAdminInv, [SomeNext]_mcVars
  PROVE  Typed'
<1>1. [Next]_adminVars
  BY DEF SomeNext, Next, Arrive, OneAdminInv, mcVars, adminVars
<1>2. QED BY <1>1, StepTyped DEF OneAdminInv

\* The beginning.
LEMMA InitOneAdmin == MCInit => OneAdminInv
<1> SUFFICES ASSUME MCInit PROVE OneAdminInv
  OBVIOUS
<1>1. Init /\ Typed
  BY InitTyped DEF MCInit
<1>2. \A c \in Clients : Idle(c) /\ req[c].at = "answered"
  BY <1>1 DEF Init, Idle, Answered
<1>3. handle.open /\ handle.fk
  BY <1>1, NewHandles DEF Init
<1>4. active \subseteq Clients /\ acting \subseteq active \cap Admins /\ acting # {}
  BY DEF MCInit
<1>5. QED BY <1>1, <1>2, <1>3, <1>4 DEF OneAdminInv, Others, Relies

\* Every step keeps it.
LEMMA OneAdminInvKept ==
  ASSUME OneAdminInv, [SomeNext]_mcVars
  PROVE  OneAdminInv'
<1>1. Typed /\ Typed'
  BY SomeStepTyped DEF OneAdminInv
<1>2. UNCHANGED <<active, acting>>
  BY DEF SomeNext, mcVars
<1>3. CASE UNCHANGED mcVars
  BY <1>1, <1>2, <1>3 DEF OneAdminInv, Others, Relies, OneAdmin, Idle, mcVars, adminVars, vars,
                          files
<1>4. CASE Crash
  <2>1. \A c \in Clients : req'[c].at = "answered"
    BY <1>4 DEF Crash, Answered
  <2>2. handle'.open /\ handle'.fk
    BY <1>4, NewHandles DEF Crash
  <2>3. QED BY <1>1, <1>2, <2>1, <2>2 DEF OneAdminInv, Others, Relies, OneAdmin, Idle
<1>5. ASSUME NEW c \in active, OrdinaryRequest(c) PROVE OneAdminInv'
  <2> c \in Clients
    BY DEF OneAdminInv
  <2>1. Ordinary(c) /\ Idle(c)
    BY <1>1, <1>5, OrdinaryRequests DEF OrdinaryRequest
  <2>2. Idle(c)'
    BY <1>1, <2>1 DEF Ordinary, Answer, Continue, Answered, Idle, Typed
  <2>3. Others'
    BY <1>1, <1>2, <1>5, <2>2, OthersKept DEF OneAdminInv, Others, Idle
  <2>4. ASSUME OneAdmin, NEW a \in acting PROVE Relies(a)'
    BY <1>1, <2>1, <2>4, OrdinaryLeavesReliance DEF OneAdminInv
  <2>5. QED BY <1>1, <1>2, <2>3, <2>4 DEF OneAdminInv, OneAdmin
<1>6. ASSUME NEW c \in acting, AdminStep(c) PROVE OneAdminInv'
  <2>1. c \in Clients /\ Others'
    BY <1>1, <1>2, <1>6, OthersKept DEF OneAdminInv, Others, Idle
  <2>2. ASSUME OneAdmin, NEW a \in acting PROVE Relies(a)'
    <3>1. a = c /\ Relies(a)
      BY <2>2 DEF OneAdmin, OneAdminInv
    <3>2. QED
      BY <1>1, <1>6, <2>1, <3>1, ResetReliance, SnapshotReliance, RestoreReliance
         DEF AdminStep, Proceed
  <2>3. QED BY <1>1, <1>2, <2>1, <2>2 DEF OneAdminInv, OneAdmin
<1>7. QED BY <1>3, <1>4, <1>5, <1>6, WhoActs

\* With one admin client, next to any number of others and wherever the process is
\* killed, r.db is open and enforces foreign keys between admin requests.
THEOREM OneAdminEnforces == SomeSpec => []OneAdminKeepsEnforcement
<1>1. OneAdminInv => OneAdminKeepsEnforcement
  <2> SUFFICES ASSUME OneAdminInv, OneAdmin, \A c \in Admins : Idle(c)
               PROVE  handle.open /\ handle.fk
    BY DEF OneAdminKeepsEnforcement, EnforcementResumes
  <2>1. PICK a \in acting : Relies(a) /\ Idle(a)
    BY DEF OneAdminInv
  <2>2. QED BY <2>1 DEF Relies, Idle, Enforcing
<1>2. QED BY <1>1, InitOneAdmin, OneAdminInvKept, PTL DEF SomeSpec

-----------------------------------------------------------------------------
(***************************************************************************)
(* One admin client: what the snapshot holds, and what its restore carries *)
(* to the copy, wherever the process was killed before.  A torn snapshot   *)
(* stays torn until it is removed.                                         *)
(***************************************************************************)
SnapshotIsWhole ==
  Torn \/ snapshot = Null \/ \E contents \in saved : snapshot = Whole(contents)

CarriesSnapshot(c) ==
  /\ req[c].at = "EndCopy" => Torn \/ snapshot = Whole(req[c].contents)
  /\ req[c].at \in {"CloseDB", "SwapFile"} => Torn \/ copy = snapshot

RestoreInv ==
  /\ OneAdminInv
  /\ OneAdmin => SnapshotIsWhole /\ \A c \in acting : CarriesSnapshot(c)

\* Reading a whole file.
LEMMA WholeIsRead ==
  ASSUME NEW contents
  PROVE  ReadOutcomes(Whole(contents)) = {contents} /\ Whole(contents).contents = contents
<1>1. Whole(contents) \notin Half
  BY WholeOrHalf
<1>2. QED BY <1>1 DEF ReadOutcomes, Whole, Half

\* What a step that leaves the files alone keeps.
LEMMA FilesLeftAlone ==
  ASSUME NEW a, SnapshotIsWhole, CarriesSnapshot(a), UNCHANGED <<snapshot, copy, saved>>,
         \/ req'[a] = req[a]
         \/ req'[a].at \notin {"EndCopy", "CloseDB", "SwapFile"}
  PROVE  SnapshotIsWhole' /\ CarriesSnapshot(a)'
BY DEF SnapshotIsWhole, CarriesSnapshot, Torn

\* The steps of the one admin client.
LEMMA AdminStepsCarrySnapshot ==
  ASSUME Typed, NEW a \in Clients, Relies(a), SnapshotIsWhole, CarriesSnapshot(a), AdminStep(a)
  PROVE  SnapshotIsWhole' /\ CarriesSnapshot(a)'
<1>1. CASE BeginSnapshot(a) \/ ResetSnapshot(a)
  <2>1. snapshot' = Null /\ req'[a].at \in {"Vacuum", "EndReset"}
    BY <1>1 DEF BeginSnapshot, ResetSnapshot, Continue, Typed
  <2>2. QED BY <2>1 DEF SnapshotIsWhole, CarriesSnapshot
<1>2. CASE Fail(a)
  <2>1. UNCHANGED <<snapshot, copy, saved>> /\ req'[a].at = "answered"
    BY <1>2 DEF Fail, OnlyReq, files, Answer, Answered, Continue, Typed
  <2>2. QED BY <2>1, FilesLeftAlone
<1>3. CASE Vacuum(a) /\ ~Fail(a)
  <2>1. /\ snapshot' = Writing(a)
        /\ Continue(a, [at |-> "EndVacuum", contents |-> db])
    BY <1>3 DEF Vacuum
  <2>2. Torn' /\ req'[a].at = "EndVacuum"
    BY <2>1 DEF Torn, Continue, Typed
  <2>3. QED BY <2>2 DEF SnapshotIsWhole, CarriesSnapshot
<1>4. CASE EndVacuum(a)
  <2>1. req'[a].at = "answered"
    BY <1>4 DEF EndVacuum, Answer, Answered, Continue, Typed
  <2>2. SnapshotIsWhole'
    <3>1. CASE snapshot = Writing(a)
      BY <1>4, <3>1 DEF EndVacuum, SnapshotIsWhole
    <3>2. CASE snapshot # Writing(a)
      BY <1>4, <3>2 DEF EndVacuum, SnapshotIsWhole, Torn
    <3>3. QED BY <3>1, <3>2
  <2>3. QED BY <2>1, <2>2 DEF CarriesSnapshot
<1>5. CASE RemoveStale(a)
  <2>1. UNCHANGED <<snapshot, saved>> /\ req'[a].at = "CopySnapshot"
    BY <1>5 DEF RemoveStale, Continue, Typed
  <2>2. QED BY <2>1 DEF SnapshotIsWhole, CarriesSnapshot, Torn
<1>6. CASE CopySnapshot(a) /\ ~Fail(a)
  <2>1. PICK contents \in ReadOutcomes(snapshot) :
          Continue(a, [at |-> "EndCopy", contents |-> contents])
    BY <1>6 DEF CopySnapshot
  <2>2. UNCHANGED <<snapshot, saved>> /\ snapshot # Null
    BY <1>6 DEF CopySnapshot
  <2>3. req'[a].at = "EndCopy" /\ req'[a].contents = contents
    BY <2>1 DEF Continue, Typed
  <2>4. Torn \/ snapshot = Whole(contents)
    BY <2>2, WholeIsRead DEF SnapshotIsWhole
  <2>5. QED BY <2>2, <2>3, <2>4 DEF SnapshotIsWhole, CarriesSnapshot, Torn
<1>7. CASE EndCopy(a)
  <2>1. /\ copy' = Whole(req[a].contents) /\ UNCHANGED <<snapshot, saved>>
        /\ req[a].at = "EndCopy" /\ req'[a].at = "CloseDB"
    BY <1>7 DEF EndCopy, Relies, Continue, Typed
  <2>2. QED BY <2>1 DEF SnapshotIsWhole, CarriesSnapshot, Torn
<1>8. CASE CloseDB(a)
  <2>1. /\ UNCHANGED <<snapshot, copy, saved>>
        /\ req[a].at = "CloseDB" /\ req'[a].at = "SwapFile"
    BY <1>8 DEF CloseDB, Continue, Typed, files
  <2>2. QED BY <2>1 DEF SnapshotIsWhole, CarriesSnapshot, Torn
<1>9. CASE SwapFile(a)
  <2>1. UNCHANGED <<snapshot, saved>>
    BY <1>9 DEF SwapFile, files
  <2>2. req'[a].at \in {"answered", "OpenDB"}
    <3>1. Continue(a, Answered("error")) \/ Continue(a, [at |-> "OpenDB"])
      BY <1>9 DEF SwapFile, Answer
    <3>2. QED BY <3>1 DEF Continue, Answered, Typed
  <2>3. QED BY <2>1, <2>2 DEF SnapshotIsWhole, CarriesSnapshot, Torn
<1>10. CASE BeginReset(a) \/ BeginRestore(a)
  <2>1. UNCHANGED <<snapshot, copy, saved>>
    BY <1>10 DEF BeginReset, BeginRestore, Executed, Fail, OnlyReq, files
  <2>2. req'[a].at \in {"Reset", "answered", "RemoveStale"}
    <3>1. \/ Continue(a, [at |-> "Reset", todo |-> ResetOrder])
          \/ Continue(a, Answered("error")) \/ Continue(a, Answered("not_found"))
          \/ Continue(a, [at |-> "RemoveStale"])
      BY <1>10 DEF BeginReset, BeginRestore, Fail, Answer
    <3>2. QED BY <3>1 DEF Continue, Answered, Typed
  <2>3. QED BY <2>1, <2>2, FilesLeftAlone
<1>11. CASE ClearTable(a)
  <2>1. UNCHANGED <<snapshot, copy, saved>> /\ req[a] \in AdminRequests /\ req[a].at = "Reset"
    BY <1>11 DEF ClearTable, Executed, OnlyReq, files, Typed
  <2>2. PICK todo : req[a] = [at |-> "Reset", todo |-> todo]
    BY <2>1, RequestForms
  <2>3. \A x : [[at |-> "Reset", todo |-> todo] EXCEPT !.todo = x].at = "Reset"
    OBVIOUS
  <2>4. req'[a].at \in {"Reset", "EndReset"}
    BY <1>11, <2>2, <2>3 DEF ClearTable, Continue, Typed
  <2>5. QED BY <2>1, <2>4, FilesLeftAlone
<1>12. CASE /\ EndReset(a) \/ OpenDB(a) \/ InitPragma(a) \/ InitTables(a)
            /\ ~Fail(a)
  <2>1. UNCHANGED <<snapshot, copy, saved>>
    BY <1>12 DEF EndReset, OpenDB, InitPragma, InitTables, Executed, files
  <2>2. req'[a].at \in {"answered", "InitPragma", "InitTables"}
    <3>1. \/ \E status : Continue(a, Answered(status))
          \/ \E at \in {"InitPragma", "InitTables"} : Continue(a, [at |-> at])
      BY <1>12 DEF EndReset, OpenDB, InitPragma, InitTables, Answer
    <3>2. QED BY <3>1 DEF Continue, Answered, Typed
  <2>3. QED BY <2>1, <2>2, FilesLeftAlone
<1>13. QED BY <1>1, <1>2, <1>3, <1>4, <1>5, <1>6, <1>7, <1>8, <1>9, <1>10, <1>11, <1>12
       DEF AdminStep, Proceed

\* Every step.
LEMMA RestoreInvKept ==
  ASSUME RestoreInv, [SomeNext]_mcVars
  PROVE  RestoreInv'
<1>1. OneAdminInv /\ OneAdminInv' /\ Typed /\ UNCHANGED <<active, acting>>
  BY OneAdminInvKept DEF RestoreInv, OneAdminInv, SomeNext, mcVars
<1>2. CASE UNCHANGED mcVars
  BY <1>1, <1>2 DEF RestoreInv, OneAdmin, SnapshotIsWhole, CarriesSnapshot, Torn, mcVars,
                    adminVars, vars, files
<1>3. CASE Crash
  <2>1. \A c \in Clients : req'[c].at = "answered"
    BY <1>3 DEF Crash, Answered
  <2>2. \A c \in acting : CarriesSnapshot(c)'
    BY <1>1, <2>1 DEF CarriesSnapshot, OneAdminInv
  <2>3. SnapshotIsWhole => SnapshotIsWhole'
    BY <1>3 DEF Crash, files, SnapshotIsWhole, Torn
  <2>4. QED BY <1>1, <2>2, <2>3 DEF RestoreInv, OneAdmin
<1>4. ASSUME NEW c \in active, OrdinaryRequest(c) PROVE RestoreInv'
  <2> c \in Clients
    BY <1>1 DEF OneAdminInv
  <2>1. Ordinary(c) /\ Idle(c)
    BY <1>1, <1>4, OrdinaryRequests DEF OrdinaryRequest
  <2>2. UNCHANGED <<snapshot, copy, saved>>
    BY <2>1 DEF Ordinary, OnlyReq, Executed, files
  <2>3. req'[c].at = "answered"
    BY <1>1, <2>1 DEF Ordinary, Answer, Answered, Continue, Typed
  <2>4. \A a \in acting : req'[a] = req[a] \/ req'[a].at = "answered"
    BY <1>1, <1>4, <2>3, OthersKept DEF OneAdminInv
  <2>5. QED BY <1>1, <2>2, <2>4, FilesLeftAlone DEF RestoreInv, OneAdmin, OneAdminInv
<1>5. ASSUME NEW c \in acting, AdminStep(c) PROVE RestoreInv'
  <2>1. ASSUME OneAdmin PROVE SnapshotIsWhole' /\ \A d \in acting : CarriesSnapshot(d)'
    <3>1. c \in Clients /\ Relies(c) /\ \A d \in acting : d = c
      BY <1>1, <2>1 DEF OneAdmin, OneAdminInv
    <3>2. SnapshotIsWhole' /\ CarriesSnapshot(c)'
      BY <1>1, <1>5, <2>1, <3>1, AdminStepsCarrySnapshot DEF RestoreInv
    <3>3. QED BY <3>1, <3>2
  <2>2. QED BY <1>1, <2>1 DEF RestoreInv, OneAdmin
<1>6. QED BY <1>1, <1>2, <1>3, <1>4, <1>5, WhoActs

\* The beginning.
LEMMA InitRestore == MCInit => RestoreInv
BY InitOneAdmin DEF MCInit, Init, RestoreInv, CarriesSnapshot, SnapshotIsWhole, Answered

\* With one admin client, next to any number of others and wherever the process was
\* killed, what a restore renames to the live file is the snapshot as its VACUUM
\* completed it, unless that VACUUM was killed.
THEOREM OneAdminRestoresWhatWasSaved == SomeSpec => OneAdminRestoresTheSnapshot
<1>1. ASSUME RestoreInv, SomeNext, OneAdmin PROVE RestoresTheSnapshotThereIs
  <2>1. SUFFICES ASSUME NEW c \in Clients, SwapFile(c), ~Torn
                 PROVE  file' \in saved /\ snapshot = Whole(file')
    BY DEF RestoresTheSnapshotThereIs
  <2>2. c \in acting /\ req[c].at = "SwapFile"
    BY <1>1, <2>1 DEF SwapFile, RestoreInv, OneAdminInv, Others, Idle
  <2>3. copy \in [contents : Databases \cup {Broken}] /\ copy = snapshot /\ SnapshotIsWhole
    BY <1>1, <2>1, <2>2 DEF RestoreInv, OneAdminInv, Relies, CarriesSnapshot
  <2>4. copy # Null
    BY <2>3, WholeIsNotNull
  <2>5. PICK contents \in saved : snapshot = Whole(contents)
    BY <2>1, <2>3, <2>4 DEF SnapshotIsWhole
  <2>6. file' \in ReadOutcomes(copy)
    BY <2>1, <2>4 DEF SwapFile
  <2>7. QED BY <2>3, <2>5, <2>6, WholeIsRead
<1>2. RestoreInv /\ [SomeNext]_mcVars => [OneAdmin => RestoresTheSnapshotThereIs]_mcVars
  BY <1>1
<1>3. QED BY <1>2, InitRestore, RestoreInvKept, PTL DEF SomeSpec, OneAdminRestoresTheSnapshot

-----------------------------------------------------------------------------
(***************************************************************************)
(* One request at a time: the one client that sends requests sends admin   *)
(* requests too.                                                           *)
(***************************************************************************)

\* No network without its VPC, in any of the files.
Sound(d) == d # Broken => RefIntegrity(VpcKeys, d)

SoundFiles(c) ==
  /\ Sound(db)
  /\ \A contents \in Contents : snapshot = Whole(contents) => Sound(contents)
  /\ copy \in [contents : Databases \cup {Broken}] => Sound(copy.contents)
  /\ req[c].at \in {"EndVacuum", "EndCopy"} => Sound(req[c].contents)

\* The connection works on the file at r.path, and SwapFile finds none.
OnePlace(c) ==
  /\ handle.linked /\ db = file
  /\ req[c].at = "SwapFile" => ~handle.connected

\* A reset has cleared what it will not come to any more.
ClearedSoFar(c) ==
  /\ req[c].at = "Reset" =>
       /\ req[c].todo = <<"vpcs">> => db \in Databases /\ db["private_networks"] = EmptyTable
       /\ req[c].todo = <<>> => db = Empty
  /\ req[c].at = "EndReset" /\ req[c].status = "ok" => db = Empty /\ snapshot = Null

\* A restore carries the snapshot on to r.path.
SnapshotCarried(c) ==
  req[c].at \in {"OpenDB", "InitPragma", "InitTables"} => Torn \/ snapshot = Whole(file)

AloneInv(c) == SoundFiles(c) /\ OnePlace(c) /\ ClearedSoFar(c) /\ SnapshotCarried(c)

SerialInv == RestoreInv /\ (Serial => \A c \in acting : AloneInv(c))

\* Where there is no network, none lacks its VPC.
LEMMA NoNetworksAreSound ==
  ASSUME NEW d, d["private_networks"] = EmptyTable
  PROVE  RefIntegrity(VpcKeys, d)
BY DEF RefIntegrity, VpcKeys, ForeignKey, EmptyTable

\* A snapshot that was removed is no snapshot.
LEMMA NoSnapshotIsSound ==
  \A contents \in Contents : Null # Whole(contents)
BY NullIsNoFile DEF Whole

\* An empty database is sound.
LEMMA EmptyIsSound == Sound(Empty)
BY NoNetworksAreSound DEF Sound, Empty, AdminTables

\* A statement through r.db writes the file at r.path.
LEMMA ExecutedInPlace ==
  ASSUME Typed, NEW fk \in BOOLEAN, Executed(fk), handle.linked
  PROVE  handle'.linked /\ file' = db' /\ UNCHANGED <<snapshot, copy, saved, crashes>>
BY DEF Executed, Typed, Handles

\* An ordinary request, which finds foreign keys enforced.
LEMMA OrdinaryAlone ==
  ASSUME Typed, NEW c \in Clients, Relies(c), AloneInv(c), OrdinaryRequest(c)
  PROVE  AloneInv(c)'
<1>1. Ordinary(c) /\ req[c].at = "answered"
  BY OrdinaryRequests DEF OrdinaryRequest, Idle
<1>2. req'[c].at = "answered"
  BY <1>1 DEF Ordinary, Answer, Continue, Answered, Typed
<1>3. handle.fk
  BY <1>1 DEF Relies, Enforcing
<1>4. CASE OnlyReq
  <2>1. UNCHANGED <<db, file, snapshot, copy, handle>>
    BY <1>4 DEF OnlyReq, files
  <2>2. QED BY <1>2, <2>1 DEF AloneInv, SoundFiles, OnePlace, ClearedSoFar, SnapshotCarried
<1>5. CASE /\ db # Broken /\ Executed(handle.fk)
           /\ RefIntegrity(VpcKeys, db) => RefIntegrity(VpcKeys, db')
  <2>1. handle'.linked /\ file' = db' /\ UNCHANGED <<snapshot, copy>>
    BY <1>5, ExecutedInPlace DEF AloneInv, OnePlace, Typed, Handles
  <2>2. Sound(db')
    BY <1>5 DEF Sound, AloneInv, SoundFiles
  <2>3. QED BY <1>2, <2>1, <2>2 DEF AloneInv, SoundFiles, OnePlace, ClearedSoFar, SnapshotCarried
<1>6. QED BY <1>1, <1>3, <1>4, <1>5 DEF Ordinary

\* A reset.
LEMMA ResetAlone ==
  ASSUME Typed, NEW c \in Clients, Relies(c), AloneInv(c),
         BeginReset(c) \/ ClearTable(c) \/ ResetSnapshot(c) \/ EndReset(c)
  PROVE  AloneInv(c)'
<1>1. ASSUME NEW fk \in BOOLEAN, Executed(fk), UNCHANGED db,
             req'[c].at = "answered" \/ (req'[c].at = "Reset" /\ req'[c].todo = ResetOrder)
      PROVE  AloneInv(c)'
  <2>1. handle'.linked /\ file' = db' /\ UNCHANGED <<snapshot, copy>>
    BY <1>1, ExecutedInPlace DEF AloneInv, OnePlace
  <2>2. ResetOrder # <<>> /\ ResetOrder # <<"vpcs">>
    BY ResetForms
  <2>3. QED
    BY <1>1, <2>1, <2>2 DEF AloneInv, SoundFiles, OnePlace, ClearedSoFar, SnapshotCarried
<1>2. CASE BeginReset(c)
  <2>1. handle.open
    BY <1>2 DEF BeginReset, Idle, Relies, Enforcing
  <2>2. Continue(c, [at |-> "Reset", todo |-> ResetOrder]) /\ Executed(FALSE) /\ UNCHANGED db
    BY <1>2, <2>1 DEF BeginReset
  <2>3. req'[c].at = "Reset" /\ req'[c].todo = ResetOrder
    BY <2>2 DEF Continue, Typed
  <2>4. QED BY <1>1, <2>2, <2>3
<1>3. CASE ClearTable(c)
  <2> DEFINE r == req[c]
  <2>1. /\ r \in AdminRequests /\ r.at = "Reset" /\ r.todo \in {<<"vpcs">>, ResetOrder}
        /\ r = [at |-> "Reset", todo |-> r.todo]
    BY <1>3, RequestForms DEF ClearTable, Typed
  <2>2. CASE /\ db # Broken /\ db' = [db EXCEPT ![Head(r.todo)] = EmptyTable]
             /\ Continue(c, [r EXCEPT !.todo = Tail(@)]) /\ Executed(handle.fk)
    <3>1. /\ db \in Databases /\ db = [t \in AdminTables |-> db[t]]
          /\ handle.fk \in BOOLEAN
      BY <2>2, TablesOfDatabase DEF Typed, Handles
    <3>2. handle'.linked /\ file' = db' /\ UNCHANGED <<snapshot, copy>>
      BY <2>2, <3>1, ExecutedInPlace DEF AloneInv, OnePlace
    <3>3. req'[c].at = "Reset" /\ req'[c].todo = Tail(r.todo)
      <4>1. \A todo, x : [[at |-> "Reset", todo |-> todo] EXCEPT !.todo = x]
                           = [at |-> "Reset", todo |-> x]
        OBVIOUS
      <4>2. [r EXCEPT !.todo = Tail(@)] = [at |-> "Reset", todo |-> Tail(r.todo)]
        BY <2>1, <4>1
      <4>3. QED BY <2>2, <4>2 DEF Continue, Typed
    <3>4. CASE r.todo = ResetOrder
      <4>1. /\ db' = [db EXCEPT !["private_networks"] = EmptyTable]
            /\ req'[c].todo = <<"vpcs">> /\ <<"vpcs">> # <<>>
        BY <2>2, <3>3, <3>4, ResetForms
      <4>2. "private_networks" \in AdminTables
        BY DEF AdminTables
      <4>3. db' \in Databases /\ db'["private_networks"] = EmptyTable
        BY <3>1, <4>1, <4>2, ClearGivesDatabase
      <4>4. Sound(db')
        BY <4>3, NoNetworksAreSound DEF Sound
      <4>5. QED
        BY <3>2, <3>3, <4>1, <4>3, <4>4
           DEF AloneInv, SoundFiles, OnePlace, ClearedSoFar, SnapshotCarried
    <3>5. CASE r.todo = <<"vpcs">>
      <4>1. db' = [db EXCEPT !["vpcs"] = EmptyTable] /\ req'[c].todo = <<>> /\ <<"vpcs">> # <<>>
        BY <2>2, <3>3, <3>5, ResetForms
      <4>2. db["private_networks"] = EmptyTable
        BY <2>1, <3>5 DEF AloneInv, ClearedSoFar
      <4>3. db' = Empty
        BY <3>1, <4>1, <4>2 DEF Empty, AdminTables
      <4>4. QED
        BY <3>2, <3>3, <4>1, <4>3, EmptyIsSound
           DEF AloneInv, SoundFiles, OnePlace, ClearedSoFar, SnapshotCarried
    <3>6. QED BY <2>1, <3>4, <3>5
  <2>3. CASE Continue(c, [at |-> "EndReset", status |-> "error"]) /\ OnlyReq
    <3>1. req'[c].at = "EndReset" /\ req'[c].status = "error"
      BY <2>3 DEF Continue, Typed
    <3>2. UNCHANGED <<db, file, snapshot, copy, handle>>
      BY <2>3 DEF OnlyReq, files
    <3>3. QED
      BY <3>1, <3>2 DEF AloneInv, SoundFiles, OnePlace, ClearedSoFar, SnapshotCarried
  <2>4. QED BY <1>3, <2>2, <2>3 DEF ClearTable
<1>4. CASE ResetSnapshot(c)
  <2>1. /\ db = Empty /\ snapshot' = Null /\ UNCHANGED <<db, handle, file, copy>>
        /\ Continue(c, [at |-> "EndReset", status |-> "ok"])
    BY <1>4 DEF ResetSnapshot, AloneInv, ClearedSoFar
  <2>2. req'[c].at = "EndReset"
    BY <2>1 DEF Continue, Typed
  <2>3. \A contents \in Contents : snapshot' # Whole(contents)
    BY <2>1, NoSnapshotIsSound
  <2>4. QED BY <2>1, <2>2, <2>3 DEF AloneInv, SoundFiles, OnePlace, ClearedSoFar, SnapshotCarried
<1>5. CASE EndReset(c)
  <2>1. Executed(TRUE) /\ UNCHANGED db
    BY <1>5 DEF EndReset, Relies
  <2>2. req'[c].at = "answered"
    BY <1>5 DEF EndReset, Answer, Continue, Answered, Typed
  <2>3. QED BY <1>1, <2>1, <2>2
<1>6. QED BY <1>2, <1>3, <1>4, <1>5

\* A snapshot.
LEMMA SnapshotAlone ==
  ASSUME Typed, NEW c \in Clients, AloneInv(c), BeginSnapshot(c) \/ Vacuum(c) \/ EndVacuum(c)
  PROVE  AloneInv(c)'
<1>1. CASE BeginSnapshot(c)
  <2>1. req'[c].at = "Vacuum" /\ snapshot' = Null /\ UNCHANGED <<db, handle, file, copy>>
    BY <1>1 DEF BeginSnapshot, Continue, Typed
  <2>2. \A contents \in Contents : snapshot' # Whole(contents)
    BY <2>1, NoSnapshotIsSound
  <2>3. QED BY <2>1, <2>2 DEF AloneInv, SoundFiles, OnePlace, ClearedSoFar, SnapshotCarried
<1>2. CASE Vacuum(c)
  <2>1. CASE Fail(c)
    <3>1. req'[c].at = "answered" /\ UNCHANGED <<db, handle, file, snapshot, copy>>
      BY <2>1 DEF Fail, OnlyReq, Answer, Answered, Continue, Typed, files
    <3>2. QED BY <3>1 DEF AloneInv, SoundFiles, OnePlace, ClearedSoFar, SnapshotCarried
  <2>2. CASE ~Fail(c)
    <3>1. /\ snapshot' = Writing(c) /\ UNCHANGED <<db, file, copy>>
          /\ Continue(c, [at |-> "EndVacuum", contents |-> db])
          /\ handle' = [handle EXCEPT !.connected = TRUE, !.busy = c]
      BY <1>2, <2>2 DEF Vacuum
    <3>2. req'[c].at = "EndVacuum" /\ req'[c].contents = db
      BY <3>1 DEF Continue, Typed
    <3>3. handle'.linked = handle.linked
      BY <3>1 DEF Typed, Handles
    <3>4. \A contents \in Contents : snapshot' # Whole(contents)
      BY <3>1 DEF Whole, Writing
    <3>5. QED
      BY <3>1, <3>2, <3>3, <3>4 DEF AloneInv, SoundFiles, OnePlace, ClearedSoFar, SnapshotCarried
  <2>3. QED BY <2>1, <2>2
<1>3. CASE EndVacuum(c)
  <2>1. req'[c].at = "answered" /\ UNCHANGED <<db, file, copy>> /\ req[c].at = "EndVacuum"
    BY <1>3 DEF EndVacuum, Answer, Answered, Continue, Typed
  <2>2. handle'.linked = handle.linked
    BY <1>3 DEF EndVacuum, Typed, Handles
  <2>3. snapshot' = Whole(req[c].contents) \/ snapshot' = snapshot
    BY <1>3 DEF EndVacuum
  <2>4. \A contents \in Contents : snapshot' = Whole(contents) => Sound(contents)
    BY <2>1, <2>3, WholeIsRead DEF AloneInv, SoundFiles
  <2>5. QED
    BY <2>1, <2>2, <2>4 DEF AloneInv, SoundFiles, OnePlace, ClearedSoFar, SnapshotCarried
<1>4. QED BY <1>1, <1>2, <1>3

\* A restore.
LEMMA RestoreAlone ==
  ASSUME Typed, NEW c \in Clients, Relies(c), AloneInv(c), CarriesSnapshot(c),
         \/ BeginRestore(c) \/ RemoveStale(c) \/ CopySnapshot(c) \/ EndCopy(c) \/ CloseDB(c)
         \/ SwapFile(c) \/ OpenDB(c) \/ InitPragma(c) \/ InitTables(c)
  PROVE  AloneInv(c)'
<1> USE DEF AloneInv, SoundFiles, OnePlace, ClearedSoFar, SnapshotCarried
<1>1. CASE Fail(c) \/ BeginRestore(c)
  <2>1. req'[c].at \in {"answered", "RemoveStale"}
        /\ UNCHANGED <<db, handle, file, snapshot, copy>>
    BY <1>1 DEF BeginRestore, Fail, OnlyReq, Answer, Answered, Continue, Typed, files
  <2>2. QED BY <2>1
<1>2. CASE RemoveStale(c)
  <2>1. /\ req'[c].at = "CopySnapshot" /\ copy' = Null
        /\ UNCHANGED <<db, handle, file, snapshot>>
    BY <1>2 DEF RemoveStale, Continue, Typed
  <2>2. QED BY <2>1, WholeIsNotNull
<1>3. CASE CopySnapshot(c) /\ ~Fail(c)
  <2>1. PICK contents \in ReadOutcomes(snapshot) :
          Continue(c, [at |-> "EndCopy", contents |-> contents])
    BY <1>3 DEF CopySnapshot
  <2>2. /\ req'[c].at = "EndCopy" /\ req'[c].contents = contents
        /\ snapshot # Null /\ copy' = Writing(c) /\ UNCHANGED <<db, handle, file, snapshot>>
    BY <1>3, <2>1 DEF CopySnapshot, Continue, Typed
  <2>3. Sound(contents)
    <3>1. CASE snapshot \in Half
      BY <3>1, EmptyIsSound DEF ReadOutcomes, Sound, Half
    <3>2. CASE snapshot \notin Half
      <4>1. snapshot \in [contents : Databases] /\ contents = snapshot.contents
        BY <2>2, <3>2 DEF Typed, ReadOutcomes, Half
      <4>2. contents \in Contents /\ snapshot = Whole(contents)
        BY <4>1 DEF Databases, Whole
      <4>3. QED BY <4>2
    <3>3. QED BY <3>1, <3>2
  <2>4. copy' \notin [contents : Databases \cup {Broken}]
    BY <2>2, HalfIsNotWhole
  <2>5. QED BY <2>2, <2>3, <2>4
<1>10. CASE EndCopy(c)
  <2>1. /\ req[c].at = "EndCopy" /\ req'[c].at = "CloseDB" /\ copy' = Whole(req[c].contents)
        /\ UNCHANGED <<db, handle, file, snapshot>>
    BY <1>10 DEF EndCopy, Relies, Continue, Typed
  <2>2. copy'.contents = req[c].contents
    BY <2>1, WholeIsRead
  <2>3. QED BY <2>1, <2>2
<1>4. CASE CloseDB(c)
  <2>1. /\ req[c].at = "CloseDB" /\ req'[c].at = "SwapFile" /\ handle' = Closed
        /\ UNCHANGED <<db, file, snapshot, copy>>
    BY <1>4 DEF CloseDB, Continue, Typed, files
  <2>2. QED BY <2>1, NewHandles
<1>5. CASE SwapFile(c)
  <2>1. /\ copy \in [contents : Databases \cup {Broken}] /\ req[c].at = "SwapFile"
        /\ ~handle.connected
        /\ Torn \/ copy = snapshot
    BY <1>5 DEF SwapFile, Relies, CarriesSnapshot
  <2>2. copy = Whole(copy.contents) /\ copy # Null
    BY <2>1, WholeIsNotNull DEF Whole
  <2>3. /\ file' \in ReadOutcomes(copy) /\ db' = file' /\ copy' = Null
        /\ UNCHANGED <<handle, snapshot>>
        /\ Continue(c, [at |-> "OpenDB"])
    BY <1>5, <2>1, <2>2 DEF SwapFile
  <2>4. req'[c].at = "OpenDB" /\ file' = copy.contents
    BY <2>2, <2>3, WholeIsRead DEF Continue, Typed
  <2>5. QED BY <2>1, <2>2, <2>3, <2>4, WholeIsNotNull DEF Torn
<1>6. CASE OpenDB(c)
  <2>1. /\ req[c].at = "OpenDB" /\ req'[c].at = "InitPragma" /\ handle' = Opened(FALSE, FALSE)
        /\ db' = file /\ UNCHANGED <<file, snapshot, copy>>
    BY <1>6 DEF OpenDB, Continue, Typed, files
  <2>2. QED BY <2>1, NewHandles DEF Torn
<1>7. CASE InitPragma(c)
  <2>1. Executed(TRUE) /\ UNCHANGED db /\ Continue(c, [at |-> "InitTables"])
    BY <1>7 DEF InitPragma, Relies
  <2>2. req[c].at = "InitPragma" /\ req'[c].at = "InitTables"
    BY <1>7, <2>1 DEF InitPragma, Continue, Typed
  <2>3. handle'.linked /\ file' = db' /\ UNCHANGED <<snapshot, copy>>
    BY <2>1, ExecutedInPlace
  <2>4. QED BY <2>1, <2>2, <2>3 DEF Torn
<1>8. CASE InitTables(c) /\ ~Fail(c)
  <2>1. Executed(handle.fk) /\ UNCHANGED db /\ Answer(c, "ok")
    BY <1>8 DEF InitTables
  <2>2. req'[c].at = "answered"
    BY <2>1 DEF Answer, Answered, Continue, Typed
  <2>3. handle'.linked /\ file' = db' /\ UNCHANGED <<snapshot, copy>>
    BY <2>1, ExecutedInPlace DEF Typed, Handles
  <2>4. QED BY <2>1, <2>2, <2>3
<1>9. QED BY <1>1, <1>2, <1>3, <1>4, <1>5, <1>6, <1>7, <1>8, <1>10

\* A kill: the file that is opened again is the one that was in use, or a new one.
LEMMA CrashAlone ==
  ASSUME Typed, NEW c \in Clients, AloneInv(c), Crash
  PROVE  AloneInv(c)'
<1>1. req'[c].at = "answered" /\ handle'.linked
  BY NewHandles DEF Crash, Answered
<1>2. CASE db' = file /\ UNCHANGED files
  <2>1. db' = file' /\ file' = db /\ UNCHANGED <<snapshot, copy>>
    BY <1>2 DEF AloneInv, OnePlace, files
  <2>2. QED BY <1>1, <2>1 DEF AloneInv, SoundFiles, OnePlace, ClearedSoFar, SnapshotCarried
<1>3. CASE db' = Empty /\ file' = Empty /\ snapshot' = Null /\ copy' = Null
  BY <1>1, <1>3, EmptyIsSound, NoSnapshotIsSound, WholeIsNotNull
     DEF AloneInv, SoundFiles, OnePlace, ClearedSoFar, SnapshotCarried
<1>4. QED BY <1>2, <1>3 DEF Crash

\* The beginning.
LEMMA InitSerial == MCInit => SerialInv
<1> SUFFICES ASSUME MCInit PROVE SerialInv
  OBVIOUS
<1>1. RestoreInv
  BY InitRestore
<1>2. ASSUME NEW c \in acting PROVE AloneInv(c)
  <2>1. c \in Clients /\ Init
    BY DEF MCInit
  <2>2. req[c].at = "answered" /\ handle.linked /\ db = Empty /\ file = Empty
    BY <2>1, NewHandles DEF Init, Answered
  <2>3. \A contents \in Contents : snapshot # Whole(contents)
    BY <2>1, NoSnapshotIsSound DEF Init
  <2>4. copy = Null
    BY <2>1 DEF Init
  <2>5. QED
    BY <2>2, <2>3, <2>4, EmptyIsSound, WholeIsNotNull
       DEF AloneInv, SoundFiles, OnePlace, ClearedSoFar, SnapshotCarried
<1>3. QED BY <1>1, <1>2 DEF SerialInv

\* One request at a time, whoever it is about.
LEMMA OneActs ==
  ASSUME OneAdminInv, Serial, NEW a \in acting
  PROVE  /\ OneAdmin /\ a \in Clients /\ Relies(a)
         /\ \A c \in active : c = a
         /\ \A c \in acting : c = a
BY DEF OneAdminInv, Serial, OneAdmin

\* Every step keeps the invariant.
LEMMA SerialInvKept ==
  ASSUME SerialInv, [SomeNext]_mcVars
  PROVE  SerialInv'
<1>1. /\ RestoreInv /\ RestoreInv' /\ OneAdminInv /\ Typed
      /\ UNCHANGED <<active, acting>>
  BY RestoreInvKept DEF SerialInv, RestoreInv, OneAdminInv, SomeNext, mcVars
<1>2. SUFFICES ASSUME Serial, NEW a \in acting PROVE AloneInv(a)'
  BY <1>1 DEF SerialInv, Serial
<1>3. /\ OneAdmin /\ a \in Clients /\ Relies(a) /\ AloneInv(a)
      /\ \A c \in active : c = a
      /\ \A c \in acting : c = a
  BY <1>1, <1>2, OneActs DEF SerialInv
<1>4. CarriesSnapshot(a)
  BY <1>1, <1>3 DEF RestoreInv
<1>5. CASE UNCHANGED mcVars
  BY <1>3, <1>5 DEF AloneInv, SoundFiles, OnePlace, ClearedSoFar, SnapshotCarried, Sound,
                    Torn, mcVars, adminVars, vars, files
<1>6. CASE Crash
  BY <1>1, <1>3, <1>6, CrashAlone
<1>7. CASE OrdinaryRequest(a)
  BY <1>1, <1>3, <1>7, OrdinaryAlone
<1>8. CASE AdminStep(a)
  BY <1>1, <1>3, <1>4, <1>8, ResetAlone, SnapshotAlone, RestoreAlone DEF AdminStep, Proceed
<1>9. QED BY <1>1, <1>3, <1>5, <1>6, <1>7, <1>8, WhoActs

\* One request at a time, whoever sends it and wherever the process is killed, no
\* private network outlives its VPC.
THEOREM SerialNetworksKeepTheirVpc == SomeSpec => []SerialNetworksHaveTheirVpc
<1>1. SerialInv => SerialNetworksHaveTheirVpc
  BY OneActs DEF SerialInv, RestoreInv, OneAdminInv, AloneInv, SoundFiles, Sound,
                 SerialNetworksHaveTheirVpc, NetworksHaveTheirVpc
<1>2. QED BY <1>1, InitSerial, SerialInvKept, PTL DEF SomeSpec

\* Only the client that acts is at a statement of an admin request.
LEMMA WhoIsNotIdle ==
  ASSUME SerialInv, Serial, NEW c \in Clients, ~Idle(c)
  PROVE  c \in acting /\ AloneInv(c) /\ Typed
BY DEF SerialInv, RestoreInv, OneAdminInv, Others

\* One request at a time, after a reset that succeeds there is no row in any table and no
\* snapshot to go back to.
THEOREM SerialResetsWipeAll == SomeSpec => SerialResetWipesAllState
<1>1. ASSUME SerialInv, Serial PROVE ResetWipesAllState
  <2>1. SUFFICES ASSUME NEW c \in Clients, EndReset(c), req'[c].status = "ok"
                 PROVE  db' = Empty /\ snapshot' = Null
    BY DEF ResetWipesAllState
  <2>2. AloneInv(c) /\ Typed
    BY <1>1, <2>1, WhoIsNotIdle DEF EndReset, Idle
  <2>3. req[c].at = "EndReset" /\ req[c].status = "ok"
    BY <2>1, <2>2 DEF EndReset, Answer, Continue, Answered, Typed
  <2>4. db = Empty /\ snapshot = Null
    BY <2>2, <2>3 DEF AloneInv, ClearedSoFar
  <2>5. UNCHANGED <<db, snapshot>>
    BY <2>1 DEF EndReset, Executed, files
  <2>6. QED BY <2>4, <2>5
<1>2. SerialInv /\ [SomeNext]_mcVars => [Serial => ResetWipesAllState]_mcVars
  BY <1>1
<1>3. QED BY <1>2, InitSerial, SerialInvKept, PTL DEF SomeSpec, SerialResetWipesAllState

\* One request at a time, after a restore that succeeds the database is the file a
\* restarted process would open, and both are the snapshot, unless its VACUUM was killed.
THEOREM SerialRestoresBringBack == SomeSpec => SerialRestoreBringsSnapshotBack
<1>1. ASSUME SerialInv, Serial PROVE RestoreBringsSnapshotBack
  <2>1. SUFFICES ASSUME NEW c \in Clients, InitTables(c), req'[c].status = "ok"
                 PROVE  file' = db' /\ (Torn \/ snapshot = Whole(db'))
    BY DEF RestoreBringsSnapshotBack
  <2>2. AloneInv(c) /\ Typed
    BY <1>1, <2>1, WhoIsNotIdle DEF InitTables, Idle
  <2>3. ~Fail(c)
    BY <2>1, <2>2 DEF Fail, Answer, Continue, Answered, Typed
  <2>4. Executed(handle.fk) /\ UNCHANGED db
    BY <2>1, <2>3 DEF InitTables
  <2>5. file' = db'
    BY <2>2, <2>4, ExecutedInPlace DEF AloneInv, OnePlace, Typed, Handles
  <2>6. (Torn \/ snapshot = Whole(file)) /\ db = file
    BY <2>1, <2>2 DEF InitTables, AloneInv, SnapshotCarried, OnePlace
  <2>7. QED BY <2>4, <2>5, <2>6
<1>2. SerialInv /\ [SomeNext]_mcVars => [Serial => RestoreBringsSnapshotBack]_mcVars
  BY <1>1
<1>3. QED BY <1>2, InitSerial, SerialInvKept, PTL DEF SomeSpec, SerialRestoreBringsSnapshotBack

=============================================================================
