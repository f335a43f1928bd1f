----------------------------- MODULE RdbProofs -----------------------------
(***************************************************************************)
(* The Managed Database API, for every number of clients and every set of  *)
(* ids and names: types, privileges that are replaced at once, that the    *)
(* tables implement ReferentialStore, and, for requests that come one at a *)
(* time, what happens to lists of endpoints.                               *)
(*                                                                         *)
(* Two UPDATEs of the API check nothing: of a user, and of the document of *)
(* a replica whose endpoints change.  References stay live because they do *)
(* not change the instance of the row they meet.  For a user this is in    *)
(* its key.  For replicas it is the inductive invariant: while a handler   *)
(* holds a row, the row in the table, if it is still there, belongs to the *)
(* same instance, and it cannot have gone and come back below another, for *)
(* a uuid is drawn once.  Snapshots and backups may move to another        *)
(* instance: their UPDATE writes the column, and the key checks it.        *)
(*                                                                         *)
(* One request at a time, a handler that writes a list back relies on what *)
(* it has read: that it is the list in the table but for the endpoint of   *)
(* its request, that the network of a new one is live, and that no two     *)
(* endpoints share a uuid, so that a deletion removes one.                 *)
(***************************************************************************)
EXTENDS MCRdb, ForeignKeysProofs

\* The tables whose rows belong to an instance, and those whose rows say so in their key.
NamedTables == {"rdb_databases", "rdb_users", "rdb_privileges"}
BelowTables == CopyTables \cup NamedTables \cup {"rdb_acls"}

Sound(t, k, row) ==
  /\ t \in NamedTables => row.instance_id = k[1]
  /\ t = "rdb_acls" => row.instance_id = k

Typed(d) ==
  /\ DOMAIN d = RdbTables /\ d = [t \in DOMAIN d |-> d[t]]
  /\ \A t \in RdbTables :
       /\ DOMAIN d[t] \subseteq IdsOf(t)
       /\ d[t] \in [DOMAIN d[t] -> RowsOf(t)]
       /\ \A k \in DOMAIN d[t] : Sound(t, k, d[t][k])

Good(d) == Typed(d) /\ RefIntegrity(Keys, d)

\* The uuids of replicas, snapshots and backups have been drawn.
Drawn(iss, d) == \A t \in CopyTables : DOMAIN d[t] \subseteq iss

\* A handler that will write a replica back.
WritesReplica(r) == r.at = "WriteDoc" /\ r.table = "rdb_read_replicas"

LocalsSound(iss, d, r) ==
  /\ r.at = "WriteUser" => r.row.instance_id = r.key[1]
  /\ WritesReplica(r) =>
       /\ r.key \in iss
       /\ r.key \in DOMAIN d[r.table] =>
            d[r.table][r.key].instance_id = r.row.instance_id

IInv ==
  /\ Good(db)
  /\ Drawn(issued, db)
  /\ req \in [Clients -> Requests]
  /\ \A c \in Clients : LocalsSound(issued, db, req[c])

-----------------------------------------------------------------------------
(***************************************************************************)
(* The keys and the rows of the service.                                   *)
(***************************************************************************)

\* Every key leads from a table below to the instances, and cascades.
LEMMA RdbKeysEnd ==
  /\ \A fk \in Keys : /\ fk.child \in BelowTables /\ fk.parent = "rdb_instances"
                      /\ fk.col = "instance_id" /\ fk.action = Cascade
  /\ \A t \in BelowTables : \E fk \in Keys : fk.child = t
  /\ CascadesEndAtOnce(Keys)
<1>1. \A fk \in Keys : /\ fk.child \in BelowTables /\ fk.parent = "rdb_instances"
                       /\ fk.col = "instance_id" /\ fk.action = Cascade
  BY DEF Keys, RdbKeys, RdbCopyKeys, ForeignKey, BelowTables, NamedTables, CopyTables
<1>2. ASSUME NEW t \in BelowTables PROVE \E fk \in Keys : fk.child = t
  <2>1. ForeignKey(t, "instance_id", "rdb_instances", Cascade) \in Keys
    BY DEF Keys, RdbKeys, RdbCopyKeys, BelowTables, NamedTables, CopyTables
  <2>2. ForeignKey(t, "instance_id", "rdb_instances", Cascade).child = t
    BY DEF ForeignKey
  <2>3. QED BY <2>1, <2>2
<1>3. "rdb_instances" \notin BelowTables
  BY DEF BelowTables, NamedTables, CopyTables
<1>4. QED BY <1>1, <1>2, <1>3 DEF CascadesEndAtOnce

\* The sets of ids and rows, table by table.
LEMMA RdbSchema ==
  /\ IdsOf("rdb_instances") = Instances /\ RowsOf("rdb_instances") = InstanceRows
  /\ IdsOf("rdb_databases") = Instances \X Databases
  /\ RowsOf("rdb_databases") = [instance_id : Instances]
  /\ IdsOf("rdb_users") = Instances \X Users /\ RowsOf("rdb_users") = UserRows
  /\ IdsOf("rdb_privileges") = Instances \X Users \X Databases
  /\ RowsOf("rdb_privileges") = [instance_id : Instances]
  /\ IdsOf("rdb_acls") = Instances
  /\ RowsOf("rdb_acls") = [instance_id : Instances, rules : SUBSET RuleIPs]
  /\ \A t \in CopyTables : IdsOf(t) = Copies /\ RowsOf(t) = CopyRows
  /\ IdsOf("private_networks") = Networks /\ RowsOf("private_networks") = {NetworkRow}
BY DEF IdsOf, RowsOf, CopyTables

\* Which table is which.
LEMMA RdbTablesGiven ==
  /\ RdbTables = BelowTables \cup {"rdb_instances", "private_networks"}
  /\ BelowTables = CopyTables \cup {"rdb_databases", "rdb_users", "rdb_privileges", "rdb_acls"}
  /\ NamedTables = {"rdb_databases", "rdb_users", "rdb_privileges"}
  /\ CopyTables \cap (NamedTables \cup {"rdb_acls", "rdb_instances", "private_networks"}) = {}
  /\ BelowTables \cap {"rdb_instances", "private_networks"} = {}
BY DEF RdbTables, BelowTables, NamedTables, CopyTables

\* A well-formed row is a record, and below an instance it names one.
LEMMA RowsAreRecords ==
  ASSUME NEW t \in RdbTables, NEW row \in RowsOf(t)
  PROVE  /\ row = [col \in DOMAIN row |-> row[col]]
         /\ t \in BelowTables =>
              /\ "instance_id" \in DOMAIN row
              /\ row["instance_id"] = row.instance_id
              /\ row.instance_id \in Instances
<1>1. \/ row \in InstanceRows \/ row \in [instance_id : Instances] \/ row \in UserRows
      \/ row \in [instance_id : Instances, rules : SUBSET RuleIPs] \/ row \in CopyRows
      \/ row = NetworkRow
  BY RdbSchema, RdbTablesGiven
<1>2. row = [col \in DOMAIN row |-> row[col]]
  BY <1>1 DEF InstanceRows, UserRows, CopyRows, NetworkRow
<1>3. ASSUME t \in BelowTables
      PROVE  "instance_id" \in DOMAIN row /\ row.instance_id \in Instances
  <2>1. \/ row \in [instance_id : Instances] \/ row \in UserRows
        \/ row \in [instance_id : Instances, rules : SUBSET RuleIPs] \/ row \in CopyRows
    BY <1>3, RdbSchema, RdbTablesGiven
  <2>2. QED BY <2>1 DEF UserRows, CopyRows
<1>4. QED BY <1>2, <1>3

\* The tables and columns the keys speak of are there.
LEMMA RdbLayout ==
  ASSUME NEW d, Typed(d) PROVE LaidOutFor(Keys, d)
<1>1. \A fk \in Keys : /\ fk.child \in RdbTables /\ fk.parent \in RdbTables
                       /\ fk.action \in {NoAction, Cascade, SetNull}
  BY RdbKeysEnd, RdbTablesGiven
<1>2. ASSUME NEW fk \in Keys, NEW k \in DOMAIN d[fk.child]
      PROVE  fk.col \in DOMAIN d[fk.child][k]
  <2>1. d[fk.child][k] \in RowsOf(fk.child)
    BY <1>1 DEF Typed
  <2>2. QED BY <1>1, <2>1, RowsAreRecords, RdbKeysEnd
<1>3. QED BY <1>1, <1>2 DEF LaidOutFor, Typed

\* Whatever is below an instance is below one that is there.
LEMMA InstancesAreLive ==
  ASSUME NEW d, Good(d), NEW t \in BelowTables, NEW k \in DOMAIN d[t]
  PROVE  d[t][k].instance_id \in DOMAIN d["rdb_instances"]
<1>1. PICK fk \in Keys : fk.child = t
  BY RdbKeysEnd
<1>2. d[t][k][fk.col] \in DOMAIN d["rdb_instances"] \cup {Null}
  BY <1>1, RdbKeysEnd DEF Good, RefIntegrity
<1>3. d[t][k] \in RowsOf(t) /\ t \in RdbTables
  BY RdbTablesGiven DEF Good, Typed
<1>4. d[t][k][fk.col] = d[t][k].instance_id /\ d[t][k].instance_id # Null
  BY <1>1, <1>3, RdbKeysEnd, RowsAreRecords, RdbIdsAreNotNull
<1>5. QED BY <1>2, <1>4

\* A row is accepted if its instance is there, or if there is none to have.
LEMMA AcceptedRows ==
  ASSUME NEW d, NEW t \in RdbTables, NEW row \in RowsOf(t)
  PROVE  /\ t \in BelowTables =>
              (RowOK(Keys, d, t, row) <=> row.instance_id \in DOMAIN d["rdb_instances"])
         /\ t \notin BelowTables => RowOK(Keys, d, t, row)
<1>1. CASE t \in BelowTables
  <2>1. row["instance_id"] = row.instance_id /\ row.instance_id # Null
    BY <1>1, RowsAreRecords, RdbIdsAreNotNull
  <2>2. QED BY <1>1, <2>1, RdbKeysEnd DEF RowOK
<1>2. CASE t \notin BelowTables
  BY <1>2, RdbKeysEnd DEF RowOK
<1>3. QED BY <1>1, <1>2

-----------------------------------------------------------------------------
(***************************************************************************)
(* What statements and transactions do to the tables.                      *)
(***************************************************************************)
Inserted(iss, new, d, e) ==
  \E t \in RdbTables \ {"rdb_privileges"} : \E k \in IdsOf(t) : \E row \in RowsOf(t) :
    /\ k \notin DOMAIN d[t] /\ RowOK(Keys, d, t, row) /\ Sound(t, k, row)
    /\ t \in CopyTables => k \notin iss /\ k \in new
    /\ e = InsertRow(d, t, k, row)

\* An accepted UPDATE; it moves no replica to another instance.
Updated(d, e) ==
  \E t \in RdbTables : \E k \in DOMAIN d[t] : \E row \in RowsOf(t) :
    /\ Sound(t, k, row) /\ RowOK(Keys, d, t, row)
    /\ t = "rdb_read_replicas" => row.instance_id = d[t][k].instance_id
    /\ e = UpdateRow(d, t, k, row)

Deleted(d, e) ==
  \E t \in RdbTables \ {"rdb_privileges"} : \E k \in DOMAIN d[t] : e = DeleteRow(Keys, d, t, k)

Statement(iss, new, d, e) ==
  d = e \/ Inserted(iss, new, d, e) \/ Updated(d, e) \/ Deleted(d, e)

\* The privileges of instance i are replaced.
PrivilegesReplaced(d, i, keys, e) ==
  /\ i \in DOMAIN d["rdb_instances"]
  /\ keys \subseteq {i} \X Users \X Databases
  /\ e = [d EXCEPT !["rdb_privileges"] = WithPrivileges(d["rdb_privileges"], i, keys)]

Step(iss, new, d, e) ==
  \/ Statement(iss, new, d, e)
  \/ \E i \in Instances : \E keys : PrivilegesReplaced(d, i, keys, e)

\* An accepted INSERT of a well-formed row.
LEMMA InsertKeepsGood ==
  ASSUME NEW iss, NEW new, iss \subseteq new, NEW d, Good(d), Drawn(iss, d), NEW e,
         Inserted(iss, new, d, e)
  PROVE  Good(e) /\ Drawn(new, e)
<1>1. PICK t \in RdbTables : \E k \in IdsOf(t) : \E row \in RowsOf(t) :
        /\ k \notin DOMAIN d[t] /\ RowOK(Keys, d, t, row) /\ Sound(t, k, row)
        /\ t \in CopyTables => k \notin iss /\ k \in new
        /\ e = InsertRow(d, t, k, row)
  BY DEF Inserted
<1>2. PICK k \in IdsOf(t) : \E row \in RowsOf(t) :
        /\ k \notin DOMAIN d[t] /\ RowOK(Keys, d, t, row) /\ Sound(t, k, row)
        /\ t \in CopyTables => k \notin iss /\ k \in new
        /\ e = InsertRow(d, t, k, row)
  BY <1>1
<1>3. PICK row \in RowsOf(t) :
        /\ k \notin DOMAIN d[t] /\ RowOK(Keys, d, t, row) /\ Sound(t, k, row)
        /\ t \in CopyTables => k \notin iss /\ k \in new
        /\ e = InsertRow(d, t, k, row)
  BY <1>2
<1>4. /\ DOMAIN e = RdbTables
      /\ \A u \in RdbTables \ {t} : e[u] = d[u]
      /\ DOMAIN e[t] = DOMAIN d[t] \cup {k}
      /\ e[t][k] = row
      /\ \A x \in DOMAIN d[t] : e[t][x] = d[t][x]
      /\ e[t] = [x \in DOMAIN e[t] |-> e[t][x]]
  BY <1>3 DEF InsertRow, Good, Typed
<1>5. e = [u \in DOMAIN e |-> e[u]]
  BY <1>3 DEF InsertRow
<1>6. Typed(e)
  BY <1>3, <1>4, <1>5 DEF Good, Typed
<1>7. RefIntegrity(Keys, e)
  BY <1>3, RdbLayout, InsertKeepsIntegrity DEF Good, Typed
<1>8. Drawn(new, e)
  BY <1>3, <1>4, RdbTablesGiven DEF Drawn
<1>9. QED BY <1>6, <1>7, <1>8 DEF Good

\* An UPDATE with a well-formed row.
LEMMA UpdateKeepsGood ==
  ASSUME NEW iss, NEW d, Good(d), Drawn(iss, d), NEW e, Updated(d, e)
  PROVE  Good(e) /\ Drawn(iss, e)
<1>1. PICK t \in RdbTables : \E k \in DOMAIN d[t] : \E row \in RowsOf(t) :
        /\ Sound(t, k, row) /\ RowOK(Keys, d, t, row)
        /\ e = UpdateRow(d, t, k, row)
  BY DEF Updated
<1>2. PICK k \in DOMAIN d[t] : \E row \in RowsOf(t) :
        /\ Sound(t, k, row) /\ RowOK(Keys, d, t, row)
        /\ e = UpdateRow(d, t, k, row)
  BY <1>1
<1>3. PICK row \in RowsOf(t) :
        /\ Sound(t, k, row) /\ RowOK(Keys, d, t, row)
        /\ e = UpdateRow(d, t, k, row)
  BY <1>2
<1>4. /\ DOMAIN e = RdbTables
      /\ \A u \in RdbTables \ {t} : e[u] = d[u]
      /\ DOMAIN e[t] = DOMAIN d[t]
      /\ e[t][k] = row
      /\ \A x \in DOMAIN d[t] \ {k} : e[t][x] = d[t][x]
      /\ e[t] = [x \in DOMAIN e[t] |-> e[t][x]]
  BY <1>3 DEF UpdateRow, Good, Typed
<1>5. e = [u \in DOMAIN e |-> e[u]]
  BY <1>3 DEF UpdateRow
<1>6. Typed(e)
  BY <1>3, <1>4, <1>5 DEF Good, Typed
<1>7. RefIntegrity(Keys, e)
  BY <1>3, RdbLayout, UpdateKeepsIntegrity DEF Good, Typed
<1>8. Drawn(iss, e)
  BY <1>3, <1>4, RdbTablesGiven DEF Drawn
<1>9. QED BY <1>6, <1>7, <1>8 DEF Good

\* A DELETE takes rows away and leaves the others as they are.
LEMMA DeleteTakesAway ==
  ASSUME NEW d, Good(d), NEW t, NEW k, NEW u \in RdbTables
  PROVE  /\ DOMAIN DeleteRow(Keys, d, t, k)[u] = DOMAIN d[u] \ Doomed(Keys, d, t, k, u)
         /\ \A x \in DOMAIN DeleteRow(Keys, d, t, k)[u] :
              DeleteRow(Keys, d, t, k)[u][x] = d[u][x]
<1>1. u \in DOMAIN d /\ \A x \in DOMAIN d[u] : d[u][x] \in RowsOf(u)
  BY DEF Good, Typed
<1>2. \A x \in DOMAIN d[u] : d[u][x] = [col \in DOMAIN d[u][x] |-> d[u][x][col]]
  BY <1>1, RowsAreRecords
<1>3. \A fk \in Keys : fk.action # SetNull
  BY RdbKeysEnd DEF Cascade, SetNull
<1>4. QED BY <1>1, <1>2, <1>3, DeleteOnlyTakesAway

\* Nothing refuses a DELETE here.
LEMMA NothingBlocks ==
  ASSUME NEW d, NEW t, NEW k PROVE ~Blocked(Keys, d, t, k)
BY RdbKeysEnd DEF Blocked, Cascade, NoAction

\* A DELETE, with its cascades.
LEMMA DeleteKeepsGood ==
  ASSUME NEW iss, NEW d, Good(d), Drawn(iss, d), NEW e, Deleted(d, e)
  PROVE  Good(e) /\ Drawn(iss, e)
<1>1. PICK t \in RdbTables : \E k \in DOMAIN d[t] : e = DeleteRow(Keys, d, t, k)
  BY DEF Deleted
<1>2. PICK k \in DOMAIN d[t] : e = DeleteRow(Keys, d, t, k)
  BY <1>1
<1>3. /\ DOMAIN e = RdbTables /\ \A u \in RdbTables : e[u] = [x \in DOMAIN e[u] |-> e[u][x]]
      /\ e = [u \in DOMAIN e |-> e[u]]
  BY <1>2 DEF DeleteRow, Good, Typed
<1>4. ASSUME NEW u \in RdbTables
      PROVE  /\ DOMAIN e[u] \subseteq DOMAIN d[u]
             /\ \A x \in DOMAIN e[u] : e[u][x] = d[u][x]
  BY <1>2, DeleteTakesAway
<1>5. ASSUME NEW u \in RdbTables
      PROVE  /\ DOMAIN e[u] \subseteq IdsOf(u)
             /\ \A x \in DOMAIN e[u] : e[u][x] \in RowsOf(u) /\ Sound(u, x, e[u][x])
  BY <1>4 DEF Good, Typed
<1>6. Typed(e)
  BY <1>3, <1>5 DEF Typed
<1>7. RefIntegrity(Keys, e)
  BY <1>2, RdbLayout, RdbKeysEnd, NothingBlocks, DeleteKeepsIntegrity DEF Good, Typed
<1>8. Drawn(iss, e)
  BY <1>4, RdbTablesGiven DEF Drawn
<1>9. QED BY <1>6, <1>7, <1>8 DEF Good

\* The privileges after a replacement, row by row.
Kept(d, i) == {k \in DOMAIN d["rdb_privileges"] : d["rdb_privileges"][k].instance_id # i}

PrivilegesDiffer(d, i, keys, e) ==
  /\ DOMAIN e = RdbTables
  /\ \A u \in RdbTables \ {"rdb_privileges"} : e[u] = d[u]
  /\ DOMAIN e["rdb_privileges"] = Kept(d, i) \cup keys
  /\ \A k \in keys : e["rdb_privileges"][k] = BelowInstance(i)
  /\ \A k \in Kept(d, i) : e["rdb_privileges"][k] = d["rdb_privileges"][k]
  /\ e["rdb_privileges"] = [k \in DOMAIN e["rdb_privileges"] |-> e["rdb_privileges"][k]]
  /\ e = [u \in DOMAIN e |-> e[u]]

\* A replacement does just that, and the rows it keeps are not among the new ones.
LEMMA ReplacedPrivileges ==
  ASSUME NEW d, Good(d), NEW i \in Instances, NEW keys, NEW e, PrivilegesReplaced(d, i, keys, e)
  PROVE  PrivilegesDiffer(d, i, keys, e) /\ Kept(d, i) \cap keys = {}
<1>1. "rdb_privileges" \in DOMAIN d /\ DOMAIN d = RdbTables
  BY RdbTablesGiven DEF Good, Typed
<1>2. e["rdb_privileges"] = WithPrivileges(d["rdb_privileges"], i, keys)
  BY <1>1 DEF PrivilegesReplaced
<1>3. ASSUME NEW k \in Kept(d, i) PROVE k \notin keys
  <2>1. d["rdb_privileges"][k].instance_id = k[1]
    BY <1>1, RdbTablesGiven DEF Good, Typed, Sound, Kept
  <2>2. k \in keys => k[1] = i
    BY DEF PrivilegesReplaced
  <2>3. QED BY <2>1, <2>2 DEF Kept
<1>4. e["rdb_privileges"] = [k \in Kept(d, i) \cup keys |->
                               IF k \in keys THEN BelowInstance(i) ELSE d["rdb_privileges"][k]]
  BY <1>2 DEF WithPrivileges, Kept
<1>5. /\ DOMAIN e = RdbTables
      /\ \A u \in RdbTables \ {"rdb_privileges"} : e[u] = d[u]
      /\ e = [u \in DOMAIN e |-> e[u]]
  BY <1>1 DEF PrivilegesReplaced
<1>6. /\ DOMAIN e["rdb_privileges"] = Kept(d, i) \cup keys
      /\ \A k \in keys : e["rdb_privileges"][k] = BelowInstance(i)
      /\ \A k \in Kept(d, i) : e["rdb_privileges"][k] = d["rdb_privileges"][k]
      /\ e["rdb_privileges"] = [k \in DOMAIN e["rdb_privileges"] |-> e["rdb_privileges"][k]]
  BY <1>3, <1>4
<1>7. QED BY <1>3, <1>5, <1>6 DEF PrivilegesDiffer

\* The transaction of SetRDBPrivileges.
LEMMA ReplacementKeepsGood ==
  ASSUME NEW iss, NEW d, Good(d), Drawn(iss, d), NEW e, NEW i \in Instances, NEW keys,
         PrivilegesReplaced(d, i, keys, e)
  PROVE  Good(e) /\ Drawn(iss, e)
<1> DEFINE p == "rdb_privileges"
<1>1. /\ DOMAIN e = RdbTables
      /\ \A u \in RdbTables \ {p} : e[u] = d[u]
      /\ DOMAIN e[p] = Kept(d, i) \cup keys
      /\ \A k \in keys : e[p][k] = BelowInstance(i)
      /\ \A k \in Kept(d, i) : e[p][k] = d[p][k]
      /\ e[p] = [k \in DOMAIN e[p] |-> e[p][k]]
      /\ e = [u \in DOMAIN e |-> e[u]]
  BY ReplacedPrivileges DEF PrivilegesDiffer
<1>2. p \in RdbTables /\ p \in BelowTables /\ p \notin CopyTables
  BY RdbTablesGiven
<1>3. ASSUME NEW k \in DOMAIN e[p]
      PROVE  /\ k \in IdsOf(p) /\ e[p][k] \in RowsOf(p) /\ Sound(p, k, e[p][k])
             /\ RowOK(Keys, d, p, e[p][k])
  <2>1. CASE k \in keys
    <3>1. k \in Instances \X Users \X Databases /\ k[1] = i
      BY <2>1 DEF PrivilegesReplaced
    <3>2. BelowInstance(i) \in [instance_id : Instances] /\ BelowInstance(i).instance_id = i
      BY DEF BelowInstance
    <3>3. Sound(p, k, BelowInstance(i))
      BY <3>1, <3>2 DEF Sound
    <3>4. i \in DOMAIN d["rdb_instances"]
      BY DEF PrivilegesReplaced
    <3>5. BelowInstance(i) \in RowsOf(p) /\ k \in IdsOf(p) /\ e[p][k] = BelowInstance(i)
      BY <1>1, <2>1, <3>1, <3>2, RdbSchema
    <3>6. RowOK(Keys, d, p, BelowInstance(i))
      BY <1>2, <3>2, <3>4, <3>5, AcceptedRows
    <3>7. QED BY <3>3, <3>5, <3>6
  <2>2. CASE k \in Kept(d, i)
    <3>1. k \in DOMAIN d[p] /\ e[p][k] = d[p][k]
      BY <1>1, <2>2 DEF Kept
    <3>2. k \in IdsOf(p) /\ d[p][k] \in RowsOf(p) /\ Sound(p, k, d[p][k])
      BY <1>2, <3>1 DEF Good, Typed
    <3>3. QED BY <1>2, <3>1, <3>2, AcceptedRows, InstancesAreLive
  <2>3. QED BY <1>1, <1>3, <2>1, <2>2
<1> HIDE DEF p
<1>4. Typed(e)
  <2>1. ASSUME NEW u \in RdbTables, u # p
        PROVE  /\ DOMAIN e[u] \subseteq IdsOf(u)
               /\ e[u] \in [DOMAIN e[u] -> RowsOf(u)]
               /\ \A k \in DOMAIN e[u] : Sound(u, k, e[u][k])
    BY <1>1, <2>1 DEF Good, Typed
  <2>2. e[p] \in [DOMAIN e[p] -> RowsOf(p)]
    BY <1>1, <1>3
  <2>3. QED BY <1>1, <1>3, <2>1, <2>2 DEF Typed
<1>5. RefIntegrity(Keys, e)
  <2>1. SUFFICES ASSUME NEW fk \in Keys, NEW x \in DOMAIN e[fk.child]
                 PROVE  e[fk.child][x][fk.col] \in DOMAIN e[fk.parent] \cup {Null}
    BY DEF RefIntegrity
  <2>2. /\ fk.parent \in RdbTables /\ fk.child \in RdbTables /\ fk.parent # p
        /\ e[fk.parent] = d[fk.parent]
    BY <1>1, <1>2, RdbKeysEnd, RdbTablesGiven
  <2>3. CASE fk.child = p
    BY <1>3, <2>2, <2>3 DEF RowOK
  <2>4. CASE fk.child # p
    BY <1>1, <2>2, <2>4 DEF Good, RefIntegrity
  <2>5. QED BY <2>3, <2>4
<1>6. Drawn(iss, e)
  BY <1>1, <1>2, RdbTablesGiven DEF Drawn
<1>7. QED BY <1>4, <1>5, <1>6 DEF Good

\* Whatever a statement or transaction does, the tables stay good.
LEMMA StepKeepsGood ==
  ASSUME NEW iss, NEW new, iss \subseteq new, NEW d, Good(d), Drawn(iss, d), NEW e,
         Step(iss, new, d, e)
  PROVE  Good(e) /\ Drawn(new, e)
<1>1. \A f : Drawn(iss, f) => Drawn(new, f)
  BY DEF Drawn
<1>2. CASE d = e
  BY <1>1, <1>2
<1>3. CASE Inserted(iss, new, d, e)
  BY <1>3, InsertKeepsGood
<1>4. CASE Updated(d, e)
  BY <1>1, <1>4, UpdateKeepsGood
<1>5. CASE Deleted(d, e)
  BY <1>1, <1>5, DeleteKeepsGood
<1>6. CASE \E i \in Instances : \E keys : PrivilegesReplaced(d, i, keys, e)
  BY <1>1, <1>6, ReplacementKeepsGood
<1>7. QED BY <1>2, <1>3, <1>4, <1>5, <1>6 DEF Step, Statement

-----------------------------------------------------------------------------
(***************************************************************************)
(* What a handler holds stays as sound as it was, whatever others do.      *)
(***************************************************************************)

\* A replica is below the instance it was below, or new, or gone.
StayBelow(iss, d, e) ==
  \A k \in iss : k \in DOMAIN e["rdb_read_replicas"] =>
    /\ k \in DOMAIN d["rdb_read_replicas"]
    /\ e["rdb_read_replicas"][k].instance_id = d["rdb_read_replicas"][k].instance_id

\* Whatever a step does, it moves no replica to another instance.
LEMMA ReplicasStayBelow ==
  ASSUME NEW iss, NEW new, iss \subseteq new, NEW d, Good(d), NEW e, Good(e),
         Step(iss, new, d, e)
  PROVE  StayBelow(iss, d, e)
<1> DEFINE t == "rdb_read_replicas"
<1>0. SUFFICES ASSUME NEW k \in iss, k \in DOMAIN e[t]
               PROVE  k \in DOMAIN d[t] /\ e[t][k].instance_id = d[t][k].instance_id
  BY DEF StayBelow
<1>1. t \in RdbTables /\ t \in CopyTables /\ t # "rdb_privileges"
  BY RdbTablesGiven DEF CopyTables
<1> HIDE DEF t
<1>2. t \in DOMAIN d
  BY <1>1 DEF Good, Typed
<1>3. CASE Inserted(iss, new, d, e)
  <2>1. PICK u \in RdbTables : \E x \in IdsOf(u) : \E row \in RowsOf(u) :
          /\ u \in CopyTables => x \notin iss
          /\ x \notin DOMAIN d[u] /\ e = InsertRow(d, u, x, row)
    BY <1>3 DEF Inserted
  <2>2. PICK x \in IdsOf(u) : \E row \in RowsOf(u) :
          /\ u \in CopyTables => x \notin iss
          /\ x \notin DOMAIN d[u] /\ e = InsertRow(d, u, x, row)
    BY <2>1
  <2>3. PICK row \in RowsOf(u) :
          /\ u \in CopyTables => x \notin iss
          /\ x \notin DOMAIN d[u] /\ e = InsertRow(d, u, x, row)
    BY <2>2
  <2>4. u \in DOMAIN d
    BY DEF Good, Typed
  <2>5. CASE u = t
    <3>1. k # x /\ DOMAIN e[t] = DOMAIN d[t] \cup {x}
      BY <1>1, <2>3, <2>4, <2>5, InsertAddsOneRow
    <3>2. k \in DOMAIN d[t]
      BY <1>0, <3>1
    <3>3. QED BY <2>3, <2>4, <2>5, <3>2, InsertAddsOneRow
  <2>6. CASE u # t
    BY <1>0, <1>2, <2>3, <2>4, <2>6, InsertAddsOneRow
  <2>7. QED BY <2>5, <2>6
<1>4. CASE Updated(d, e)
  <2>1. PICK u \in RdbTables : \E x \in DOMAIN d[u] : \E row \in RowsOf(u) :
          /\ u = t => row.instance_id = d[u][x].instance_id
          /\ e = UpdateRow(d, u, x, row)
    BY <1>4 DEF Updated, t
  <2>2. PICK x \in DOMAIN d[u] : \E row \in RowsOf(u) :
          /\ u = t => row.instance_id = d[u][x].instance_id
          /\ e = UpdateRow(d, u, x, row)
    BY <2>1
  <2>3. PICK row \in RowsOf(u) :
          /\ u = t => row.instance_id = d[u][x].instance_id
          /\ e = UpdateRow(d, u, x, row)
    BY <2>2
  <2>4. u \in DOMAIN d
    BY DEF Good, Typed
  <2>5. /\ \A v \in DOMAIN d \ {u} : e[v] = d[v]
        /\ DOMAIN e[u] = DOMAIN d[u]
        /\ e[u][x] = row
        /\ \A y \in DOMAIN d[u] \ {x} : e[u][y] = d[u][y]
    BY <2>3, <2>4, UpdateChangesOneRow
  <2>6. QED BY <1>0, <1>1, <1>2, <2>3, <2>5
<1>5. CASE Deleted(d, e)
  <2>1. PICK u \in RdbTables : \E x \in DOMAIN d[u] : e = DeleteRow(Keys, d, u, x)
    BY <1>5 DEF Deleted
  <2>2. PICK x \in DOMAIN d[u] : e = DeleteRow(Keys, d, u, x)
    BY <2>1
  <2>3. /\ DOMAIN e[t] = DOMAIN d[t] \ Doomed(Keys, d, u, x, t)
        /\ \A y \in DOMAIN e[t] : e[t][y] = d[t][y]
    BY <1>1, <2>2, DeleteTakesAway
  <2>4. QED BY <1>0, <2>3
<1>6. CASE \E i \in Instances : \E keys : PrivilegesReplaced(d, i, keys, e)
  <2>1. PICK i \in Instances : \E keys : PrivilegesReplaced(d, i, keys, e)
    BY <1>6
  <2>2. PICK keys : PrivilegesReplaced(d, i, keys, e)
    BY <2>1
  <2>3. PrivilegesDiffer(d, i, keys, e)
    BY <2>2, ReplacedPrivileges
  <2>4. e[t] = d[t]
    BY <1>1, <2>3 DEF PrivilegesDiffer
  <2>5. QED BY <1>0, <2>4
<1>7. QED BY <1>0, <1>3, <1>4, <1>5, <1>6 DEF Step, Statement

\* The locals of each statement that is still to come.
LEMMA LocalsTyped ==
  ASSUME NEW r \in Requests
  PROVE  /\ r.at = "CreateInstance" =>
              r.endpoints \in SUBSET EndpointRecords /\ r.todo \in SUBSET Networks
         /\ r.at \in {"UpdateInstance", "DeleteInstance", "WriteInstance", "CreateEndpoint",
                      "SetPrivileges", "WriteACLs", "DeleteACLs", "ReadACLs"} =>
              r.instance \in Instances
         /\ r.at \in {"WriteInstance", "CreateEndpoint"} => r.row \in InstanceRows
         /\ r.at = "CreateEndpoint" => r.endpoint \in EndpointRecords
         /\ r.at = "WriteDoc" =>
              \/ /\ r.table = "rdb_instances" /\ r.key \in Instances
                 /\ r.row \in InstanceRows
              \/ r.table = "rdb_read_replicas" /\ r.key \in Copies /\ r.row \in CopyRows
         /\ r.at = "WriteUser" => r.key \in Instances \X Users /\ r.row \in UserRows
         /\ r.at = "SetPrivileges" => r.list \in PrivilegeLists
         /\ r.at = "WriteACLs" => r.rules \in SUBSET RuleIPs /\ r.body \in Bodies
         /\ r.at \in {"DeleteACLs", "ReadACLs"} => r.body \in DeleteACLBodies
         /\ r.at = "WriteCopy" => r.table \in MovedTables
         /\ r.at \in {"WriteCopy", "DeleteCopy"} => r.table \in CopyTables /\ r.key \in Copies
         /\ r.at = "WriteCopy" => r.row \in CopyRows
BY DEF Requests, MovedTables, CopyTables

\* Locals stay sound while others take steps.
LEMMA LocalsStaySound ==
  ASSUME NEW iss, NEW new, iss \subseteq new, NEW d, Good(d), NEW e, Good(e),
         Step(iss, new, d, e), NEW r \in Requests, LocalsSound(iss, d, r)
  PROVE  LocalsSound(new, e, r)
<1>1. ASSUME WritesReplica(r)
      PROVE  /\ r.key \in new
             /\ r.key \in DOMAIN e[r.table] =>
                  e[r.table][r.key].instance_id = r.row.instance_id
  <2>1. r.key \in iss
    BY <1>1 DEF LocalsSound
  <2>2. StayBelow(iss, d, e)
    BY ReplicasStayBelow
  <2>3. QED BY <1>1, <2>1, <2>2 DEF LocalsSound, WritesReplica, StayBelow
<1>2. QED BY <1>1 DEF LocalsSound

-----------------------------------------------------------------------------
(***************************************************************************)
(* Every action is a Step and leaves its client with sound locals.         *)
(***************************************************************************)
Ready == Good(db) /\ Drawn(issued, db) /\ req \in [Clients -> Requests]
           /\ \A c \in Clients : LocalsSound(issued, db, req[c])

Handled(c) == \E r \in Requests : LocalsSound(issued', db', r) /\ req' = [req EXCEPT ![c] = r]

\* All but the transaction of SetRDBPrivileges.
Fits(c) == issued \subseteq issued' /\ Statement(issued, issued', db, db') /\ Handled(c)

\* That is all the invariant needs.
LEMMA FittingKeepsInvariant ==
  ASSUME Ready, NEW c \in Clients, issued \subseteq issued', Step(issued, issued', db, db'),
         Handled(c)
  PROVE  IInv'
<1>1. PICK r \in Requests : LocalsSound(issued', db', r) /\ req' = [req EXCEPT ![c] = r]
  BY DEF Handled
<1>2. Good(db') /\ Drawn(issued', db')
  BY StepKeepsGood DEF Ready
<1>3. req' \in [Clients -> Requests]
  BY <1>1 DEF Ready
<1>4. ASSUME NEW d \in Clients PROVE LocalsSound(issued', db', req'[d])
  <2>1. CASE d = c
    BY <1>1, <2>1 DEF Ready
  <2>2. CASE d # c
    <3>1. req'[d] = req[d] /\ req[d] \in Requests /\ LocalsSound(issued, db, req[d])
      BY <1>1, <2>2 DEF Ready
    <3>2. QED BY <1>2, <3>1, LocalsStaySound DEF Ready
  <2>3. QED BY <2>1, <2>2
<1>5. QED BY <1>2, <1>3, <1>4 DEF IInv

\* The answers that statements give.
LEMMA StatusesGiven == {"ok", "not_found", "conflict", "invalid", "error"} \subseteq Statuses
BY DEF Statuses

\* Locals that are no row have nothing to be sound about.
LEMMA OtherLocals ==
  ASSUME NEW r, r.at \notin {"WriteUser", "WriteDoc"}
  PROVE  LocalsSound(issued', db', r)
BY DEF LocalsSound, WritesReplica

\* An answer is such a one.
LEMMA AnswersFit ==
  ASSUME NEW c, NEW status \in Statuses, Answer(c, status)
  PROVE  Handled(c)
<1>1. Answered(status) \in Requests
  BY DEF Answered, Requests
<1>2. LocalsSound(issued', db', Answered(status))
  BY DEF Answered, LocalsSound, WritesReplica
<1>3. QED BY <1>1, <1>2 DEF Answer, Continue, Handled

\* A step that changes no table, with sound locals.
LEMMA WaitingFits ==
  ASSUME issued \subseteq issued', UNCHANGED db, NEW c, NEW r \in Requests,
         LocalsSound(issued', db', r), Continue(c, r)
  PROVE  Fits(c)
BY DEF Fits, Statement, Handled, Continue

\* An answer without a change.
LEMMA RefusalFits ==
  ASSUME issued \subseteq issued', UNCHANGED db, NEW c, NEW status \in Statuses,
         Answer(c, status)
  PROVE  Fits(c)
BY AnswersFit DEF Fits, Statement

\* The look-up at the head of a handler.
LEMMA ReadFits ==
  ASSUME NEW c, NEW t, NEW k, NEW next, Read(c, t, k, next),
         Found(t, k) => next \in Requests /\ LocalsSound(issued', db', next)
  PROVE  Fits(c)
<1>1. UNCHANGED <<db, issued>>
  BY DEF Read
<1>2. CASE Found(t, k) /\ Continue(c, next)
  BY <1>1, <1>2, WaitingFits
<1>3. CASE Answer(c, "not_found")
  BY <1>1, <1>3, RefusalFits, StatusesGiven
<1>4. QED BY <1>2, <1>3 DEF Read

\* An INSERT, accepted or not.
LEMMA InsertJSONFits ==
  ASSUME issued \subseteq issued', NEW c, NEW t \in RdbTables \ {"rdb_privileges"},
         NEW k \in IdsOf(t), NEW row \in RowsOf(t), Sound(t, k, row),
         t \in CopyTables => k \notin issued /\ k \in issued',
         InsertJSON(Keys, c, t, k, row)
  PROVE  Fits(c)
<1>1. CASE UNCHANGED db /\ \E status \in Statuses : Answer(c, status)
  BY <1>1, RefusalFits
<1>2. CASE /\ ~Found(t, k) /\ RowOK(Keys, db, t, row)
           /\ db' = InsertRow(db, t, k, row)
           /\ Answer(c, "ok")
  <2>1. Inserted(issued, issued', db, db')
    BY <1>2 DEF Inserted, Found
  <2>2. QED BY <1>2, <2>1, AnswersFit, StatusesGiven DEF Fits, Statement
<1>3. QED BY <1>1, <1>2, StatusesGiven DEF InsertJSON

\* The same under a fresh uuid.
LEMMA CreateFits ==
  ASSUME NEW c, NEW t \in RdbTables \ {"rdb_privileges"}, NEW k \in IdsOf(t),
         NEW row \in RowsOf(t), Sound(t, k, row), CreateSimple(Keys, c, t, k, row)
  PROVE  Fits(c)
<1>1. k \notin issued /\ issued' = issued \cup {k} /\ InsertJSON(Keys, c, t, k, row)
  BY DEF CreateSimple
<1>2. QED BY <1>1, InsertJSONFits

\* A DELETE, of a row that is there or not.
LEMMA DeleteFits ==
  ASSUME NEW c, NEW t \in RdbTables \ {"rdb_privileges"}, NEW k, DeleteBy(Keys, c, t, k)
  PROVE  Fits(c)
<1>1. issued' = issued
  BY DEF DeleteBy
<1>2. CASE UNCHANGED db /\ \E status \in Statuses : Answer(c, status)
  BY <1>1, <1>2, RefusalFits
<1>3. CASE /\ Found(t, k)
           /\ db' = DeleteRow(Keys, db, t, k)
           /\ Answer(c, "ok")
  <2>1. Deleted(db, db')
    BY <1>3 DEF Deleted, Found
  <2>2. QED BY <1>1, <1>3, <2>1, AnswersFit, StatusesGiven DEF Fits, Statement
<1>4. QED BY <1>2, <1>3, StatusesGiven DEF DeleteBy

\* An UPDATE by id, of a row that is there or not.
LEMMA UpdateFits ==
  ASSUME NEW c, issued' = issued, NEW t \in RdbTables, NEW k, NEW row \in RowsOf(t),
         Sound(t, k, row),
         k \in DOMAIN db[t] => RowOK(Keys, db, t, row),
         t = "rdb_read_replicas" /\ k \in DOMAIN db[t] =>
           row.instance_id = db[t][k].instance_id,
         db' = UpdateRow(db, t, k, row), \E status \in Statuses : Answer(c, status)
  PROVE  Fits(c)
<1>1. CASE k \in DOMAIN db[t]
  <2>1. Updated(db, db')
    BY <1>1 DEF Updated
  <2>2. QED BY <2>1, AnswersFit DEF Fits, Statement
<1>2. CASE k \notin DOMAIN db[t]
  <2>1. UNCHANGED db
    BY <1>2 DEF UpdateRow
  <2>2. QED BY <2>1, RefusalFits
<1>3. QED BY <1>1, <1>2

\* An UPDATE that leaves the row below the instance it is below: the instance is there.
LEMMA UpdateInPlaceFits ==
  ASSUME Ready, NEW c, issued' = issued, NEW t \in RdbTables, NEW k, NEW row \in RowsOf(t),
         Sound(t, k, row),
         t \in BelowTables /\ k \in DOMAIN db[t] => row.instance_id = db[t][k].instance_id,
         db' = UpdateRow(db, t, k, row), \E status \in Statuses : Answer(c, status)
  PROVE  Fits(c)
<1>1. k \in DOMAIN db[t] => RowOK(Keys, db, t, row)
  BY AcceptedRows, InstancesAreLive DEF Ready
<1>2. "rdb_read_replicas" \in BelowTables
  BY RdbTablesGiven DEF CopyTables
<1>3. QED BY <1>1, <1>2, UpdateFits

\* What is in the tables is of the right kind.
LEMMA FoundRow ==
  ASSUME Ready, NEW t \in RdbTables, NEW k, Found(t, k)
  PROVE  k \in IdsOf(t) /\ db[t][k] \in RowsOf(t) /\ Sound(t, k, db[t][k])
BY DEF Ready, Good, Typed, Found

-----------------------------------------------------------------------------
(***************************************************************************)
(* Networks and instances.                                                 *)
(***************************************************************************)
\* Networks are inserted and deleted; nothing refers to them.
LEMMA NetworksFit ==
  ASSUME NEW c \in Clients, CreatePrivateNetwork(c) \/ DeletePrivateNetwork(c)
  PROVE  Fits(c)
<1>1. /\ "private_networks" \in RdbTables \ {"rdb_privileges"}
      /\ \A k : Sound("private_networks", k, NetworkRow)
  BY RdbTablesGiven DEF Sound
<1>2. QED BY <1>1, CreateFits, DeleteFits, RdbSchema
          DEF CreatePrivateNetwork, DeletePrivateNetwork

\* What handlers know of an instance they will insert.
LEMMA NewInstanceLocals ==
  ASSUME NEW eps \in SUBSET EndpointRecords, NEW todo \in SUBSET Networks
  PROVE  LET r == [at |-> "CreateInstance", endpoints |-> eps, todo |-> todo]
         IN  r \in Requests /\ LocalsSound(issued', db', r)
<1> DEFINE r == [at |-> "CreateInstance", endpoints |-> eps, todo |-> todo]
<1>1. r \in Requests
  BY DEF Requests
<1>2. r.at = "CreateInstance"
  OBVIOUS
<1> HIDE DEF r
<1>3. LocalsSound(issued', db', r)
  BY <1>2, OtherLocals
<1>4. QED BY <1>1, <1>3 DEF r

\* Endpoints are well-formed records.
LEMMA EndpointsTyped ==
  /\ \A e \in Endpoints, n \in Networks \cup {Null} : Endpoint(e, n) \in EndpointRecords
  /\ InitEndpoints \subseteq SUBSET EndpointRecords
<1>1. \A e \in Endpoints, n \in Networks \cup {Null} : Endpoint(e, n) \in EndpointRecords
  BY DEF Endpoint, EndpointRecords
<1>2. {Endpoint(e, n) : e \in Endpoints \ issued, n \in Networks \cup {Null}}
        \subseteq EndpointRecords
  BY <1>1
<1>3. QED BY <1>1, <1>2 DEF InitEndpoints

\* The handler of a creation holds endpoints with fresh ids.
LEMMA BeginCreateInstanceFits ==
  ASSUME NEW c \in Clients, BeginCreateInstance(c)
  PROVE  Fits(c)
<1>1. PICK eps \in InitEndpoints :
        /\ issued' = issued \cup {x.id : x \in eps}
        /\ Continue(c, [at |-> "CreateInstance", endpoints |-> eps,
                        todo |-> {x.network : x \in eps} \ {Null}])
  BY DEF BeginCreateInstance
<1>2. eps \in SUBSET EndpointRecords
  BY EndpointsTyped
<1>3. {x.network : x \in eps} \ {Null} \in SUBSET Networks
  BY <1>2 DEF EndpointRecords
<1>4. UNCHANGED db /\ issued \subseteq issued'
  BY <1>1 DEF BeginCreateInstance
<1>5. QED BY <1>1, <1>2, <1>3, <1>4, NewInstanceLocals, WaitingFits

\* So does that of a creation from a snapshot.
LEMMA FromSnapshotFits ==
  ASSUME NEW c \in Clients, CreateInstanceFromSnapshot(c)
  PROVE  Fits(c)
<1>1. UNCHANGED db
  BY DEF CreateInstanceFromSnapshot
<1>2. CASE \E e \in Endpoints \ issued :
             /\ issued' = issued \cup {e}
             /\ Continue(c, [at |-> "CreateInstance", endpoints |-> {Endpoint(e, Null)},
                             todo |-> {}])
  <2>1. PICK e \in Endpoints :
             /\ issued' = issued \cup {e}
             /\ Continue(c, [at |-> "CreateInstance", endpoints |-> {Endpoint(e, Null)},
                             todo |-> {}])
    BY <1>2
  <2>2. {Endpoint(e, Null)} \in SUBSET EndpointRecords
    BY EndpointsTyped
  <2>3. {} \in SUBSET Networks /\ issued \subseteq issued'
    BY <2>1
  <2>4. QED BY <1>1, <2>1, <2>2, <2>3, NewInstanceLocals, WaitingFits
<1>3. CASE Answer(c, "not_found") /\ UNCHANGED issued
  BY <1>1, <1>3, RefusalFits, StatusesGiven
<1>4. QED BY <1>2, <1>3 DEF CreateInstanceFromSnapshot

\* Looking a network up leaves the list shorter by one.
LEMMA CheckInitNetworkFits ==
  ASSUME Ready, NEW c \in Clients, CheckInitNetwork(c)
  PROVE  Fits(c)
<1> DEFINE r == req[c]
<1>1. PICK n \in r.todo : Read(c, "private_networks", n, [r EXCEPT !.todo = @ \ {n}])
  BY DEF CheckInitNetwork
<1>2. r \in [at : {"CreateInstance"}, endpoints : SUBSET EndpointRecords, todo : SUBSET Networks]
  BY DEF CheckInitNetwork, Ready, Requests
<1>3. [r EXCEPT !.todo = @ \ {n}]
        \in [at : {"CreateInstance"}, endpoints : SUBSET EndpointRecords, todo : SUBSET Networks]
  BY <1>2
<1>4. [r EXCEPT !.todo = @ \ {n}] \in Requests
  BY <1>3 DEF Requests
<1>5. [r EXCEPT !.todo = @ \ {n}].at = "CreateInstance"
  BY <1>3
<1>6. LocalsSound(issued', db', [r EXCEPT !.todo = @ \ {n}])
  BY <1>5, OtherLocals
<1>7. QED BY <1>1, <1>4, <1>6, ReadFits

\* The INSERT of an instance.
LEMMA InsertInstanceFits ==
  ASSUME Ready, NEW c \in Clients, InsertInstance(c)
  PROVE  Fits(c)
<1>1. PICK i \in Instances :
        CreateSimple(Keys, c, "rdb_instances", i, InstanceRow(req[c].endpoints))
  BY DEF InsertInstance
<1>2. req[c].endpoints \in SUBSET EndpointRecords
  BY LocalsTyped DEF InsertInstance, Ready
<1>3. InstanceRow(req[c].endpoints) \in RowsOf("rdb_instances")
  BY <1>2, RdbSchema DEF InstanceRow, InstanceRows
<1>4. /\ "rdb_instances" \in RdbTables \ {"rdb_privileges"} /\ i \in IdsOf("rdb_instances")
      /\ Sound("rdb_instances", i, InstanceRow(req[c].endpoints))
  BY RdbTablesGiven, RdbSchema DEF Sound
<1>5. QED BY <1>1, <1>3, <1>4, CreateFits

\* The look-ups that hold no row.
LEMMA LookupsFit ==
  ASSUME NEW c \in Clients, UpgradeInstance(c) \/ BeginDeleteInstance(c) \/ BeginDeleteCopy(c)
  PROVE  Fits(c)
<1>1. ASSUME NEW i \in Instances, NEW at \in {"UpdateInstance", "DeleteInstance"},
             Read(c, "rdb_instances", i, [at |-> at, instance |-> i])
      PROVE  Fits(c)
  <2> DEFINE r == [at |-> at, instance |-> i]
  <2>1. r \in Requests /\ r.at \in {"UpdateInstance", "DeleteInstance"}
    BY DEF Requests
  <2>2. LocalsSound(issued', db', r)
    BY <2>1, OtherLocals
  <2>3. QED BY <1>1, <2>1, <2>2, ReadFits
<1>2. ASSUME NEW t \in CopyTables, NEW k \in Copies,
             Read(c, t, k, [at |-> "DeleteCopy", table |-> t, key |-> k])
      PROVE  Fits(c)
  <2> DEFINE r == [at |-> "DeleteCopy", table |-> t, key |-> k]
  <2>1. r \in Requests /\ r.at = "DeleteCopy"
    BY DEF Requests
  <2>2. LocalsSound(issued', db', r)
    BY <2>1, OtherLocals
  <2>3. QED BY <1>2, <2>1, <2>2, ReadFits
<1>3. QED BY <1>1, <1>2 DEF UpgradeInstance, BeginDeleteInstance, BeginDeleteCopy

\* The handler that will write an instance back holds a well-formed row.
LEMMA ReadInstanceFits ==
  ASSUME Ready, NEW c \in Clients, ReadInstance(c)
  PROVE  Fits(c)
<1>1. PICK i \in Instances :
        Read(c, "rdb_instances", i, [at |-> "WriteInstance", instance |-> i,
                                     row |-> db["rdb_instances"][i]])
  BY DEF ReadInstance
<1> DEFINE r == [at |-> "WriteInstance", instance |-> i, row |-> db["rdb_instances"][i]]
<1>2. ASSUME Found("rdb_instances", i) PROVE r \in Requests /\ LocalsSound(issued', db', r)
  <2>1. db["rdb_instances"][i] \in InstanceRows
    BY <1>2, FoundRow, RdbSchema, RdbTablesGiven
  <2>2. r \in Requests
    BY <2>1 DEF Requests
  <2>3. r.at = "WriteInstance"
    OBVIOUS
  <2>4. QED BY <2>2, <2>3, OtherLocals
<1>3. QED BY <1>1, <1>2, ReadFits

\* The UPDATE of an instance, which refers to nothing.
LEMMA WriteInstanceFits ==
  ASSUME Ready, NEW c \in Clients, WriteInstance(c)
  PROVE  Fits(c)
<1>1. req[c].row \in RowsOf("rdb_instances")
  BY LocalsTyped, RdbSchema DEF WriteInstance, Ready
<1>2. /\ "rdb_instances" \in RdbTables /\ "rdb_instances" \notin BelowTables
      /\ Sound("rdb_instances", req[c].instance, req[c].row)
  BY RdbTablesGiven DEF Sound
<1>3. QED BY <1>1, <1>2, UpdateInPlaceFits, StatusesGiven DEF WriteInstance

\* The DELETEs.
LEMMA DeletionsFit ==
  ASSUME Ready, NEW c \in Clients,
         DeleteInstance(c) \/ DeleteDatabase(c) \/ DeleteUser(c) \/ DeleteCopy(c)
  PROVE  Fits(c)
<1>1. DeleteCopy(c) => req[c].table \in CopyTables
  BY LocalsTyped DEF DeleteCopy, Ready
<1>2. {"rdb_instances", "rdb_databases", "rdb_users"} \cup CopyTables
        \subseteq RdbTables \ {"rdb_privileges"}
  BY RdbTablesGiven
<1>3. QED BY <1>1, <1>2, DeleteFits DEF DeleteInstance, DeleteDatabase, DeleteUser, DeleteCopy

-----------------------------------------------------------------------------
(***************************************************************************)
(* Endpoints and documents.                                                *)
(***************************************************************************)

\* The document of an instance that is still to be written.
LEMMA EndpointsLocals ==
  ASSUME NEW i \in Instances, NEW eps \in SUBSET EndpointRecords,
         NEW adds \in SUBSET Endpoints, NEW drops \in SUBSET Endpoints
  PROVE  LET r == WriteEndpoints(i, eps, adds, drops) IN
         r \in Requests /\ LocalsSound(issued', db', r)
<1> DEFINE r == WriteEndpoints(i, eps, adds, drops)
<1>1. InstanceRow(eps) \in InstanceRows
  BY DEF InstanceRow, InstanceRows
<1>2. r \in Requests
  BY <1>1 DEF WriteEndpoints, Requests
<1>3. r.at = "WriteDoc" /\ r.table = "rdb_instances"
  BY DEF WriteEndpoints
<1> HIDE DEF r
<1>4. r \in Requests /\ LocalsSound(issued', db', r)
  BY <1>2, <1>3 DEF LocalsSound, WritesReplica
<1>5. QED BY <1>4 DEF r

\* The handler of a new endpoint holds the row of its instance.
LEMMA BeginCreateEndpointFits ==
  ASSUME Ready, NEW c \in Clients, BeginCreateEndpoint(c)
  PROVE  Fits(c)
<1>1. UNCHANGED db
  BY DEF BeginCreateEndpoint
<1>2. ASSUME NEW i \in Instances, Found("rdb_instances", i),
             NEW e \in Endpoints, NEW n \in Networks \cup {Null},
             issued' = issued \cup {e},
             Continue(c, [at |-> "CreateEndpoint", instance |-> i,
                          row |-> db["rdb_instances"][i], endpoint |-> Endpoint(e, n)])
      PROVE  Fits(c)
  <2> DEFINE r == [at |-> "CreateEndpoint", instance |-> i,
                   row |-> db["rdb_instances"][i], endpoint |-> Endpoint(e, n)]
  <2>1. db["rdb_instances"][i] \in InstanceRows
    BY <1>2, FoundRow, RdbSchema, RdbTablesGiven
  <2>2. Endpoint(e, n) \in EndpointRecords
    BY EndpointsTyped
  <2>3. r \in Requests /\ r.at = "CreateEndpoint"
    BY <2>1, <2>2 DEF Requests
  <2>4. LocalsSound(issued', db', r)
    BY <2>3, OtherLocals
  <2>5. QED BY <1>1, <1>2, <2>3, <2>4, WaitingFits
<1>3. CASE Answer(c, "not_found") /\ UNCHANGED issued
  BY <1>1, <1>3, RefusalFits, StatusesGiven
<1>4. QED BY <1>2, <1>3 DEF BeginCreateEndpoint

\* From there on it holds the longer list.
LEMMA CheckEndpointNetworkFits ==
  ASSUME Ready, NEW c \in Clients, CheckEndpointNetwork(c)
  PROVE  Fits(c)
<1> DEFINE r == req[c]
           next == WriteEndpoints(r.instance, r.row.endpoints \cup {r.endpoint},
                                  {r.endpoint.id}, {})
<1>1. r.instance \in Instances /\ r.row \in InstanceRows /\ r.endpoint \in EndpointRecords
  BY LocalsTyped DEF CheckEndpointNetwork, Ready
<1>2. r.row.endpoints \cup {r.endpoint} \in SUBSET EndpointRecords
  BY <1>1 DEF InstanceRows
<1>3. next \in Requests /\ LocalsSound(issued', db', next)
  <2>1. {r.endpoint.id} \in SUBSET Endpoints /\ {} \in SUBSET Endpoints
    BY <1>1 DEF EndpointRecords
  <2>2. QED BY <1>1, <1>2, <2>1, EndpointsLocals
<1>4. CASE Continue(c, next) /\ UNCHANGED <<db, issued>>
  BY <1>3, <1>4, WaitingFits
<1>5. CASE Read(c, "private_networks", r.endpoint.network, next)
  BY <1>3, <1>5, ReadFits
<1>6. QED BY <1>4, <1>5 DEF CheckEndpointNetwork

\* The handler of a deletion holds the shorter list.
LEMMA DeleteEndpointFits ==
  ASSUME Ready, NEW c \in Clients, DeleteEndpoint(c)
  PROVE  Fits(c)
<1>1. UNCHANGED <<db, issued>>
  BY DEF DeleteEndpoint
<1>2. ASSUME NEW e \in Endpoints, NEW i \in DOMAIN db["rdb_instances"],
             Continue(c, WriteEndpoints(i, {x \in db["rdb_instances"][i].endpoints : x.id # e},
                                        {}, {e}))
      PROVE  Fits(c)
  <2>1. i \in Instances /\ db["rdb_instances"][i] \in InstanceRows
    BY FoundRow, RdbSchema, RdbTablesGiven DEF Found
  <2>2. {x \in db["rdb_instances"][i].endpoints : x.id # e} \in SUBSET EndpointRecords
    BY <2>1 DEF InstanceRows
  <2>3. QED BY <1>1, <1>2, <2>1, <2>2, EndpointsLocals, WaitingFits
<1>3. CASE Answer(c, "not_found")
  BY <1>1, <1>3, RefusalFits, StatusesGiven
<1>4. QED BY <1>2, <1>3 DEF DeleteEndpoint

\* The UPDATE of a document does not change what its row is below.
LEMMA WriteDocFits ==
  ASSUME Ready, NEW c \in Clients, WriteDoc(c)
  PROVE  Fits(c)
<1> DEFINE r == req[c]
<1>1. r \in Requests /\ r.at = "WriteDoc" /\ LocalsSound(issued, db, r)
  BY DEF WriteDoc, Ready
<1>2. /\ issued' = issued /\ db' = UpdateRow(db, r.table, r.key, r.row)
      /\ \E status \in Statuses : Answer(c, status)
  BY StatusesGiven DEF WriteDoc
<1> HIDE DEF r
<1>3. CASE r.table = "rdb_instances" /\ r.row \in InstanceRows
  <2>1. /\ "rdb_instances" \in RdbTables /\ "rdb_instances" \notin BelowTables
        /\ Sound("rdb_instances", r.key, r.row) /\ r.row \in RowsOf("rdb_instances")
    BY <1>3, RdbTablesGiven, RdbSchema DEF Sound
  <2>2. QED BY <1>2, <1>3, <2>1, UpdateInPlaceFits
<1>4. CASE r.table = "rdb_read_replicas" /\ r.row \in CopyRows
  <2>1. r.table \in CopyTables /\ r.table \in RdbTables
    BY <1>4, RdbTablesGiven DEF CopyTables
  <2>2. Sound(r.table, r.key, r.row) /\ r.row \in RowsOf(r.table)
    BY <1>4, <2>1, RdbTablesGiven, RdbSchema DEF Sound
  <2>3. r.key \in DOMAIN db[r.table] => r.row.instance_id = db[r.table][r.key].instance_id
    BY <1>1, <1>4 DEF LocalsSound, WritesReplica
  <2>4. QED BY <1>2, <2>1, <2>2, <2>3, UpdateInPlaceFits
<1>5. QED BY <1>1, <1>3, <1>4, LocalsTyped


-----------------------------------------------------------------------------
(***************************************************************************)
(* Databases, users and ACLs.                                              *)
(***************************************************************************)

\* INSERTs under the name the client chose.
LEMMA NamedInsertsFit ==
  ASSUME NEW c \in Clients, CreateDatabase(c) \/ CreateUser(c)
  PROVE  Fits(c)
<1>1. CASE CreateDatabase(c)
  <2>1. PICK i \in Instances, n \in Databases :
          InsertJSON(Keys, c, "rdb_databases", <<i, n>>, BelowInstance(i))
    BY <1>1 DEF CreateDatabase
  <2>2. /\ "rdb_databases" \in RdbTables \ {"rdb_privileges"}
        /\ "rdb_databases" \notin CopyTables
    BY RdbTablesGiven
  <2>3. <<i, n>> \in IdsOf("rdb_databases") /\ BelowInstance(i) \in RowsOf("rdb_databases")
    BY RdbSchema DEF BelowInstance
  <2>4. Sound("rdb_databases", <<i, n>>, BelowInstance(i))
    BY DEF Sound, BelowInstance
  <2>5. issued \subseteq issued'
    BY <1>1 DEF CreateDatabase
  <2>6. QED BY <2>1, <2>2, <2>3, <2>4, <2>5, InsertJSONFits
<1>2. CASE CreateUser(c)
  <2>1. PICK i \in Instances, n \in Users, admin \in BOOLEAN :
          InsertJSON(Keys, c, "rdb_users", <<i, n>>, UserRow(i, admin))
    BY <1>2 DEF CreateUser
  <2>2. "rdb_users" \in RdbTables \ {"rdb_privileges"} /\ "rdb_users" \notin CopyTables
    BY RdbTablesGiven
  <2>3. <<i, n>> \in IdsOf("rdb_users") /\ UserRow(i, admin) \in RowsOf("rdb_users")
    BY RdbSchema DEF UserRow, UserRows
  <2>4. Sound("rdb_users", <<i, n>>, UserRow(i, admin))
    BY DEF Sound, UserRow
  <2>5. issued \subseteq issued'
    BY <1>2 DEF CreateUser
  <2>6. QED BY <2>1, <2>2, <2>3, <2>4, <2>5, InsertJSONFits
<1>3. QED BY <1>1, <1>2

\* The handler that will write a user back holds a row of the instance in its key.
LEMMA ReadUserFits ==
  ASSUME Ready, NEW c \in Clients, ReadUser(c)
  PROVE  Fits(c)
<1>1. ASSUME NEW i \in Instances, NEW n \in Users, NEW row,
             Found("rdb_users", <<i, n>>) => row \in UserRows /\ row.instance_id = i,
             Read(c, "rdb_users", <<i, n>>, [at |-> "WriteUser", key |-> <<i, n>>, row |-> row])
      PROVE  Fits(c)
  <2> DEFINE r == [at |-> "WriteUser", key |-> <<i, n>>, row |-> row]
  <2>1. ASSUME Found("rdb_users", <<i, n>>)
        PROVE  r \in Requests /\ LocalsSound(issued', db', r)
    <3>1. r \in Requests
      BY <1>1, <2>1 DEF Requests
    <3>2. r.at = "WriteUser" /\ r.row.instance_id = r.key[1]
      BY <1>1, <2>1
    <3>3. QED BY <3>1, <3>2 DEF LocalsSound, WritesReplica
  <2>2. QED BY <1>1, <2>1, ReadFits
<1>2. PICK i \in Instances, n \in Users, admin \in BOOLEAN :
        LET row == db["rdb_users"][<<i, n>>] IN
        \/ Read(c, "rdb_users", <<i, n>>, [at |-> "WriteUser", key |-> <<i, n>>, row |-> row])
        \/ Read(c, "rdb_users", <<i, n>>,
                [at |-> "WriteUser", key |-> <<i, n>>, row |-> [row EXCEPT !.is_admin = admin]])
  BY DEF ReadUser
<1> DEFINE row == db["rdb_users"][<<i, n>>]
<1>3. ASSUME Found("rdb_users", <<i, n>>)
      PROVE  /\ row \in UserRows /\ row.instance_id = i
             /\ [row EXCEPT !.is_admin = admin] \in UserRows
             /\ [row EXCEPT !.is_admin = admin].instance_id = i
  <2>1. "rdb_users" \in RdbTables /\ "rdb_users" \in NamedTables
    BY RdbTablesGiven
  <2>2. row \in UserRows /\ Sound("rdb_users", <<i, n>>, row)
    BY <1>3, <2>1, FoundRow, RdbSchema
  <2>3. row.instance_id = i
    BY <2>1, <2>2 DEF Sound
  <2> HIDE DEF row
  <2>4. QED BY <2>2, <2>3 DEF UserRows
<1>4. QED BY <1>1, <1>2, <1>3

\* Users keep their instance.
LEMMA WriteUserFits ==
  ASSUME Ready, NEW c \in Clients, WriteUser(c)
  PROVE  Fits(c)
<1> DEFINE r == req[c]
           t == "rdb_users"
<1>1. r \in Requests /\ r.at = "WriteUser" /\ LocalsSound(issued, db, r)
  BY DEF WriteUser, Ready
<1>2. t \in RdbTables /\ t \in NamedTables /\ t # "rdb_acls"
  BY RdbTablesGiven
<1>3. r.row \in RowsOf(t) /\ r.row.instance_id = r.key[1]
  BY <1>1, LocalsTyped, RdbSchema DEF LocalsSound
<1>4. Sound(t, r.key, r.row)
  BY <1>2, <1>3 DEF Sound
<1>5. r.key \in DOMAIN db[t] => r.row.instance_id = db[t][r.key].instance_id
  BY <1>2, <1>3, FoundRow DEF Found, Sound
<1>6. /\ issued' = issued /\ db' = UpdateRow(db, t, r.key, r.row)
      /\ \E status \in Statuses : Answer(c, status)
  BY StatusesGiven DEF WriteUser
<1> HIDE DEF r, t
<1>7. QED BY <1>2, <1>3, <1>4, <1>5, <1>6, UpdateInPlaceFits

\* The look-ups of the lists.
LEMMA ListLookupsFit ==
  ASSUME NEW c \in Clients, BeginSetPrivileges(c) \/ BeginSetACLs(c) \/ BeginDeleteACLs(c)
  PROVE  Fits(c)
<1>1. ASSUME NEW i \in Instances, NEW list \in PrivilegeLists,
             Read(c, "rdb_instances", i, [at |-> "SetPrivileges", instance |-> i, list |-> list])
      PROVE  Fits(c)
  <2> DEFINE r == [at |-> "SetPrivileges", instance |-> i, list |-> list]
  <2>1. r \in Requests /\ r.at = "SetPrivileges"
    BY DEF Requests
  <2>2. LocalsSound(issued', db', r)
    BY <2>1, OtherLocals
  <2>3. QED BY <1>1, <2>1, <2>2, ReadFits
<1>2. ASSUME NEW i \in Instances, NEW rules \in SUBSET RuleIPs,
             Read(c, "rdb_instances", i, [at |-> "WriteACLs", instance |-> i, rules |-> rules,
                                          body |-> [rules |-> rules]])
      PROVE  Fits(c)
  <2> DEFINE r == [at |-> "WriteACLs", instance |-> i, rules |-> rules, body |-> [rules |-> rules]]
  <2>1. [rules |-> rules] \in Bodies
    BY DEF Bodies
  <2>2. r \in Requests /\ r.at = "WriteACLs"
    BY <2>1 DEF Requests
  <2>3. LocalsSound(issued', db', r)
    BY <2>2, OtherLocals
  <2>4. QED BY <1>2, <2>2, <2>3, ReadFits
<1>3. ASSUME NEW i \in Instances, NEW body \in DeleteACLBodies,
             Read(c, "rdb_instances", i, [at |-> "DeleteACLs", instance |-> i, body |-> body])
      PROVE  Fits(c)
  <2> DEFINE r == [at |-> "DeleteACLs", instance |-> i, body |-> body]
  <2>1. r \in Requests /\ r.at = "DeleteACLs"
    BY DEF Requests
  <2>2. LocalsSound(issued', db', r)
    BY <2>1, OtherLocals
  <2>3. QED BY <1>3, <2>1, <2>2, ReadFits
<1>4. QED BY <1>1, <1>2, <1>3 DEF BeginSetPrivileges, BeginSetACLs, BeginDeleteACLs

\* The rules of an instance are inserted, or written over those that are there.
LEMMA WriteACLsFits ==
  ASSUME Ready, NEW c \in Clients, WriteACLs(c)
  PROVE  Fits(c)
<1> DEFINE r == req[c]
           t == "rdb_acls"
           row == AclRow(r.instance, r.rules)
<1>1. r.instance \in Instances /\ r.rules \in SUBSET RuleIPs
  BY LocalsTyped DEF WriteACLs, Ready
<1>2. t \in RdbTables \ {"rdb_privileges"} /\ t \notin CopyTables /\ t \notin NamedTables
  BY RdbTablesGiven
<1>3. row \in RowsOf(t) /\ r.instance \in IdsOf(t) /\ row.instance_id = r.instance
  BY <1>1, RdbSchema DEF AclRow
<1>4. Sound(t, r.instance, row)
  BY <1>2, <1>3 DEF Sound
<1>5. issued' = issued
  BY DEF WriteACLs
<1>6. CASE RowOK(Keys, db, t, row) /\ db' = InsertRow(db, t, r.instance, row) /\ Answer(c, "ok")
  <2>1. CASE ~Found(t, r.instance)
    <3>1. Inserted(issued, issued', db, db')
      BY <1>2, <1>3, <1>4, <1>6, <2>1 DEF Inserted, Found
    <3>2. QED BY <1>5, <1>6, <3>1, AnswersFit, StatusesGiven DEF Fits, Statement
  <2>2. CASE Found(t, r.instance)
    <3>1. t \in DOMAIN db /\ db[t] = [x \in DOMAIN db[t] |-> db[t][x]]
      BY <1>2 DEF Ready, Good, Typed
    <3>2. db' = UpdateRow(db, t, r.instance, row)
      BY <1>6, <2>2, <3>1, InsertOverRow DEF Found
    <3>3. db[t][r.instance].instance_id = r.instance
      BY <1>2, <2>2, FoundRow DEF Sound
    <3>4. /\ row.instance_id = db[t][r.instance].instance_id
          /\ \E status \in Statuses : Answer(c, status)
      BY <1>3, <1>6, <3>3, StatusesGiven
    <3> HIDE DEF t, row, r
    <3>5. QED BY <1>2, <1>3, <1>4, <1>5, <3>2, <3>4, UpdateInPlaceFits
  <2>3. QED BY <2>1, <2>2
<1>7. CASE Answer(c, "not_found") /\ UNCHANGED db
  BY <1>5, <1>7, RefusalFits, StatusesGiven
<1>8. QED BY <1>6, <1>7 DEF WriteACLs

\* A DELETE that meets no row changes nothing.
LEMMA DeleteAllACLsFits ==
  ASSUME Ready, NEW c \in Clients, DeleteAllACLs(c)
  PROVE  Fits(c)
<1> DEFINE i == req[c].instance
<1>1. issued' = issued /\ db' = DeleteRow(Keys, db, "rdb_acls", i) /\ Answer(c, "ok")
  BY DEF DeleteAllACLs
<1>2. "rdb_acls" \in RdbTables \ {"rdb_privileges"}
  BY RdbTablesGiven
<1>3. CASE i \in DOMAIN db["rdb_acls"]
  <2>1. Deleted(db, db')
    BY <1>1, <1>2, <1>3 DEF Deleted
  <2>2. QED BY <1>1, <2>1, AnswersFit, StatusesGiven DEF Fits, Statement
<1>4. CASE i \notin DOMAIN db["rdb_acls"]
  <2>1. "rdb_acls" # "rdb_instances"
    OBVIOUS
  <2>2. \A u : Doomed(Keys, db, "rdb_acls", i, u) = {}
    BY <1>4, <2>1, RdbKeysEnd DEF Doomed
  <2>3. ASSUME NEW u \in RdbTables
        PROVE  /\ DOMAIN db'[u] = DOMAIN db[u]
               /\ \A x \in DOMAIN db[u] : db'[u][x] = db[u][x]
    BY <1>1, <2>2, <2>3, DeleteTakesAway DEF Ready
  <2>4. /\ DOMAIN db = RdbTables /\ db = [u \in RdbTables |-> db[u]]
        /\ \A u \in RdbTables : db[u] = [x \in DOMAIN db[u] |-> db[u][x]]
    BY DEF Ready, Good, Typed
  <2>5. /\ DOMAIN db' = RdbTables /\ db' = [u \in RdbTables |-> db'[u]]
        /\ \A u \in RdbTables : db'[u] = [x \in DOMAIN db'[u] |-> db'[u][x]]
    BY <1>1, <2>4 DEF DeleteRow
  <2>6. db' = db
    BY <2>3, <2>4, <2>5
  <2>7. QED BY <1>1, <2>6, RefusalFits, StatusesGiven
<1>5. QED BY <1>3, <1>4

\* The look-up before some of the rules are deleted.
LEMMA DeleteSomeACLsFits ==
  ASSUME Ready, NEW c \in Clients, DeleteSomeACLs(c)
  PROVE  Fits(c)
<1> DEFINE next == [req[c] EXCEPT !.at = "ReadACLs"]
<1>1. Read(c, "rdb_instances", req[c].instance, next)
  BY DEF DeleteSomeACLs
<1>2. req[c] \in [at : {"DeleteACLs", "ReadACLs"}, instance : Instances, body : DeleteACLBodies]
  BY DEF DeleteSomeACLs, Ready, Requests
<1>3. next \in [at : {"DeleteACLs", "ReadACLs"}, instance : Instances, body : DeleteACLBodies]
  BY <1>2
<1>4. next \in Requests /\ next.at = "ReadACLs"
  BY <1>2, <1>3 DEF Requests
<1>5. LocalsSound(issued', db', next)
  BY <1>4, OtherLocals
<1>6. QED BY <1>1, <1>4, <1>5, ReadFits

\* The rules that will be left are well-formed.
LEMMA ReadACLsFits ==
  ASSUME Ready, NEW c \in Clients, ReadACLs(c)
  PROVE  Fits(c)
<1> DEFINE i == req[c].instance
           rest == Rules(db, i) \ IPsRead(req[c].body)
           r == [at |-> "WriteACLs", instance |-> i, body |-> req[c].body, rules |-> rest]
<1>1. UNCHANGED <<db, issued>> /\ Continue(c, r)
  BY DEF ReadACLs
<1>2. i \in Instances /\ req[c].body \in DeleteACLBodies
  BY LocalsTyped DEF ReadACLs, Ready
<1>3. Rules(db, i) \in SUBSET RuleIPs
  <2>1. ASSUME Found("rdb_acls", i) PROVE db["rdb_acls"][i].rules \in SUBSET RuleIPs
    <3>1. "rdb_acls" \in RdbTables
      BY RdbTablesGiven
    <3>2. db["rdb_acls"][i] \in [instance_id : Instances, rules : SUBSET RuleIPs]
      BY <2>1, <3>1, FoundRow, RdbSchema
    <3>3. QED BY <3>2
  <2>2. QED BY <2>1 DEF Rules, Found
<1>4. rest \in SUBSET RuleIPs /\ req[c].body \in Bodies
  BY <1>2, <1>3 DEF Bodies
<1>5. r \in Requests /\ r.at = "WriteACLs"
  BY <1>2, <1>4 DEF Requests
<1>6. LocalsSound(issued', db', r)
  BY <1>5, OtherLocals
<1>7. QED BY <1>1, <1>5, <1>6, WaitingFits

-----------------------------------------------------------------------------
(***************************************************************************)
(* Replicas, snapshots and backups.                                        *)
(***************************************************************************)
\* A replica, snapshot or backup gets a fresh uuid.
LEMMA CreateCopyFits ==
  ASSUME NEW c \in Clients, CreateCopy(c)
  PROVE  Fits(c)
<1>1. PICK t \in CopyTables, k \in Copies, i \in Instances :
        CreateSimple(Keys, c, t, k, CopyRow(i, {}))
  BY DEF CreateCopy
<1>2. t \in RdbTables \ {"rdb_privileges"} /\ t \notin NamedTables /\ t # "rdb_acls"
  BY RdbTablesGiven
<1>3. CopyRow(i, {}) \in RowsOf(t) /\ k \in IdsOf(t)
  BY RdbSchema DEF CopyRow, CopyRows
<1>4. Sound(t, k, CopyRow(i, {}))
  BY <1>2 DEF Sound
<1>5. QED BY <1>1, <1>2, <1>3, <1>4, CreateFits

\* The handler holds the row that it has read, below the instance of the request.
LEMMA ReadCopyFits ==
  ASSUME Ready, NEW c \in Clients, ReadCopy(c)
  PROVE  Fits(c)
<1>1. PICK t \in MovedTables, k \in Copies, i \in Instances :
        Read(c, t, k, [at |-> "WriteCopy", table |-> t, key |-> k,
                       row |-> [db[t][k] EXCEPT !.instance_id = i]])
  BY DEF ReadCopy, MovedTables
<1> DEFINE row == [db[t][k] EXCEPT !.instance_id = i]
           r == [at |-> "WriteCopy", table |-> t, key |-> k, row |-> row]
<1>2. t \in CopyTables /\ t \in RdbTables
  BY RdbTablesGiven DEF CopyTables, MovedTables
<1>3. ASSUME Found(t, k) PROVE r \in Requests /\ LocalsSound(issued', db', r)
  <2>1. db[t][k] \in CopyRows
    BY <1>2, <1>3, FoundRow, RdbSchema
  <2>2. row \in CopyRows
    BY <2>1 DEF CopyRows
  <2> HIDE DEF row
  <2>3. r \in Requests /\ r.at = "WriteCopy"
    BY <2>2 DEF Requests
  <2>4. QED BY <2>3, OtherLocals
<1>4. QED BY <1>1, <1>3, ReadFits

\* The UPDATE of a snapshot or backup is accepted if the instance is there.
LEMMA WriteCopyFits ==
  ASSUME Ready, NEW c \in Clients, WriteCopy(c)
  PROVE  Fits(c)
<1> DEFINE r == req[c]
<1>1. r \in Requests /\ r.at = "WriteCopy"
  BY DEF WriteCopy, Ready
<1>2. /\ r.table \in CopyTables /\ r.table # "rdb_read_replicas"
      /\ r.row \in CopyRows /\ issued' = issued
  BY <1>1, LocalsTyped DEF WriteCopy, MovedTables
<1>3. r.table \in RdbTables /\ r.table \notin NamedTables /\ r.table # "rdb_acls"
  BY <1>2, RdbTablesGiven
<1>4. r.row \in RowsOf(r.table) /\ Sound(r.table, r.key, r.row)
  BY <1>2, <1>3, RdbSchema DEF Sound
<1>5. WriteCopyOK(r) => (r.key \in DOMAIN db[r.table] => RowOK(Keys, db, r.table, r.row))
  BY DEF WriteCopyOK, Found
<1>6. CASE /\ WriteCopyOK(r)
           /\ db' = UpdateRow(db, r.table, r.key, r.row)
           /\ Answer(c, "ok")
  <2>1. \E status \in Statuses : Answer(c, status)
    BY <1>6, StatusesGiven
  <2> HIDE DEF r
  <2>2. QED BY <1>2, <1>3, <1>4, <1>5, <1>6, <2>1, UpdateFits
<1>7. CASE Answer(c, "not_found") /\ UNCHANGED db
  BY <1>2, <1>7, RefusalFits, StatusesGiven
<1>8. QED BY <1>6, <1>7 DEF WriteCopy

\* So does the one that adds an endpoint to a replica.
LEMMA CreateReplicaEndpointFits ==
  ASSUME Ready, NEW c \in Clients, CreateReplicaEndpoint(c)
  PROVE  Fits(c)
<1>1. UNCHANGED db
  BY DEF CreateReplicaEndpoint
<1> DEFINE t == "rdb_read_replicas"
<1>2. ASSUME NEW k \in Copies, Found(t, k), NEW e \in Endpoints, issued' = issued \cup {e},
             Continue(c, [at |-> "WriteDoc", table |-> t, key |-> k,
                          row |-> [db[t][k] EXCEPT !.endpoints = @ \cup {Endpoint(e, Null)}]])
      PROVE  Fits(c)
  <2> DEFINE row == [db[t][k] EXCEPT !.endpoints = @ \cup {Endpoint(e, Null)}]
             r == [at |-> "WriteDoc", table |-> t, key |-> k, row |-> row]
  <2>1. t \in CopyTables /\ t \in RdbTables
    BY RdbTablesGiven DEF CopyTables
  <2>2. db[t][k] \in CopyRows /\ k \in issued
    BY <1>2, <2>1, FoundRow, RdbSchema DEF Ready, Drawn, Found
  <2>3. Endpoint(e, Null) \in EndpointRecords
    BY EndpointsTyped
  <2>4. row \in CopyRows /\ row.instance_id = db[t][k].instance_id
    BY <2>2, <2>3 DEF CopyRows
  <2> HIDE DEF row
  <2>5. r \in Requests
    BY <2>4 DEF Requests
  <2>6. /\ r.at = "WriteDoc" /\ r.key \in issued'
        /\ db'[r.table][r.key].instance_id = r.row.instance_id
    BY <1>1, <1>2, <2>2, <2>4
  <2>7. LocalsSound(issued', db', r)
    BY <2>6 DEF LocalsSound, WritesReplica
  <2>8. QED BY <1>1, <1>2, <2>5, <2>7, WaitingFits DEF row
<1>3. CASE Answer(c, "not_found") /\ UNCHANGED issued
  BY <1>1, <1>3, RefusalFits, StatusesGiven
<1>4. QED BY <1>2, <1>3 DEF CreateReplicaEndpoint

-----------------------------------------------------------------------------
(***************************************************************************)
(* The transaction of SetRDBPrivileges, and all actions together.          *)
(***************************************************************************)

\* It replaces the privileges of an instance that is there, or changes nothing: when
\* the instance has gone there were no privileges left to delete.
LEMMA SetPrivilegesSteps ==
  ASSUME Ready, NEW c \in Clients, SetPrivileges(c)
  PROVE  /\ issued' = issued
         /\ Handled(c)
         /\ \/ db' = db
            \/ /\ PrivilegesReplaced(db, req[c].instance,
                                     PrivilegeKeys(req[c].instance, req[c].list), db')
               /\ req' = [req EXCEPT ![c] = Answered("ok")]
<1> DEFINE i == req[c].instance
           list == req[c].list
           keys == PrivilegeKeys(i, list)
           p == "rdb_privileges"
<1>1. issued' = issued
  BY DEF SetPrivileges
<1>2. i \in Instances /\ list \in PrivilegeLists
  BY LocalsTyped DEF SetPrivileges, Ready
<1>3. \A x \in DOMAIN list : list[x] \in Users \X Databases
  BY <1>2 DEF PrivilegeLists
<1>4. \/ UNCHANGED db /\ \E status \in Statuses : Answer(c, status)
      \/ /\ list # <<>> => i \in DOMAIN db["rdb_instances"]
         /\ db' = [db EXCEPT ![p] = WithPrivileges(@, i, keys)]
         /\ Answer(c, "ok")
  BY StatusesGiven DEF SetPrivileges, Found
<1> HIDE DEF list, i
<1>5. keys \subseteq {i} \X Users \X Databases
  BY <1>3 DEF PrivilegeKeys
<1>6. CASE UNCHANGED db /\ \E status \in Statuses : Answer(c, status)
  BY <1>1, <1>6, AnswersFit
<1>7. CASE /\ list # <<>> => i \in DOMAIN db["rdb_instances"]
           /\ db' = [db EXCEPT ![p] = WithPrivileges(@, i, keys)]
           /\ Answer(c, "ok")
  <2>1. Handled(c) /\ req' = [req EXCEPT ![c] = Answered("ok")]
    BY <1>7, AnswersFit, StatusesGiven DEF Answer, Continue
  <2>2. db' = [db EXCEPT ![p] = WithPrivileges(db[p], i, keys)]
    BY <1>7
  <2>3. CASE i \in DOMAIN db["rdb_instances"]
    <3>1. PrivilegesReplaced(db, i, keys, db')
      BY <1>5, <2>2, <2>3 DEF PrivilegesReplaced
    <3>2. QED BY <1>1, <2>1, <3>1 DEF i, list
  <2>4. CASE i \notin DOMAIN db["rdb_instances"]
    <3>1. list = <<>>
      BY <1>7, <2>4
    <3>2. keys = {}
      BY <3>1 DEF PrivilegeKeys
    <3>3. p \in BelowTables /\ p \in RdbTables
      BY RdbTablesGiven
    <3>4. \A k \in DOMAIN db[p] : db[p][k].instance_id # i
      BY <2>4, <3>3, InstancesAreLive DEF Ready
    <3>5. db[p] = [k \in DOMAIN db[p] |-> db[p][k]] /\ db = [t \in DOMAIN db |-> db[t]]
      BY <3>3 DEF Ready, Good, Typed
    <3>6. {k \in DOMAIN db[p] : db[p][k].instance_id # i} = DOMAIN db[p]
      BY <3>4
    <3>7. WithPrivileges(db[p], i, keys) = [k \in DOMAIN db[p] |-> db[p][k]]
      BY <3>2, <3>6 DEF WithPrivileges
    <3>8. db' = db
      BY <2>2, <3>5, <3>7
    <3>9. QED BY <1>1, <2>1, <3>8
  <2>5. QED BY <2>3, <2>4
<1>8. QED BY <1>4, <1>6, <1>7

\* Every action but that one fits.
LEMMA ActionsFit ==
  ASSUME Ready, NEW c \in Clients, Arrive(c) \/ Proceed(c)
  PROVE  Fits(c) \/ SetPrivileges(c)
<1>1. CASE \/ CreatePrivateNetwork(c) \/ DeletePrivateNetwork(c)
           \/ BeginCreateInstance(c) \/ CreateInstanceFromSnapshot(c) \/ UpgradeInstance(c)
           \/ ReadInstance(c) \/ BeginDeleteInstance(c) \/ BeginCreateEndpoint(c)
           \/ DeleteEndpoint(c)
  BY <1>1, NetworksFit, BeginCreateInstanceFits, FromSnapshotFits, LookupsFit, ReadInstanceFits,
     BeginCreateEndpointFits, DeleteEndpointFits
<1>2. CASE \/ CreateDatabase(c) \/ DeleteDatabase(c)
           \/ CreateUser(c) \/ ReadUser(c) \/ DeleteUser(c)
           \/ BeginSetPrivileges(c) \/ BeginSetACLs(c) \/ BeginDeleteACLs(c)
           \/ CreateCopy(c) \/ ReadCopy(c) \/ CreateReplicaEndpoint(c) \/ BeginDeleteCopy(c)
  BY <1>2, NamedInsertsFit, DeletionsFit, ReadUserFits, ListLookupsFit, CreateCopyFits,
     ReadCopyFits, CreateReplicaEndpointFits, LookupsFit
<1>3. CASE \/ CheckInitNetwork(c) \/ InsertInstance(c) \/ WriteInstance(c) \/ DeleteInstance(c)
           \/ CheckEndpointNetwork(c) \/ WriteDoc(c) \/ WriteUser(c)
  BY <1>3, CheckInitNetworkFits, InsertInstanceFits, WriteInstanceFits, DeletionsFit,
     CheckEndpointNetworkFits, WriteDocFits, WriteUserFits
<1>4. CASE \/ WriteACLs(c) \/ DeleteAllACLs(c) \/ DeleteSomeACLs(c) \/ ReadACLs(c)
           \/ WriteCopy(c) \/ DeleteCopy(c)
  BY <1>4, WriteACLsFits, DeleteAllACLsFits, DeleteSomeACLsFits, ReadACLsFits, WriteCopyFits,
     DeletionsFit
<1>5. QED BY <1>1, <1>2, <1>3, <1>4 DEF Arrive, Proceed

\* Every action is a Step.
LEMMA ActionsStep ==
  ASSUME Ready, NEW c \in Clients, Arrive(c) \/ Proceed(c)
  PROVE  issued \subseteq issued' /\ Step(issued, issued', db, db') /\ Handled(c)
<1>1. CASE Fits(c)
  BY <1>1 DEF Fits, Step
<1>2. CASE SetPrivileges(c)
  <2>1. req[c].instance \in Instances
    BY <1>2, LocalsTyped DEF SetPrivileges, Ready
  <2>2. QED BY <1>2, <2>1, SetPrivilegesSteps DEF Step, Statement
<1>3. QED BY <1>1, <1>2, ActionsFit

-----------------------------------------------------------------------------
(***************************************************************************)
(* The invariant.                                                          *)
(***************************************************************************)

\* At the start there are no rows, and everybody waits for a request.
LEMMA InitFits == ASSUME Init PROVE IInv
<1>1. DOMAIN db = RdbTables /\ \A t \in RdbTables : DOMAIN db[t] = {}
  BY DEF Init, EmptyTable
<1>2. /\ db = [t \in RdbTables |-> db[t]]
      /\ \A t \in RdbTables : db[t] \in [{} -> RowsOf(t)]
  BY DEF Init, EmptyTable
<1>3. Typed(db)
  BY <1>1, <1>2 DEF Typed
<1>4. RefIntegrity(Keys, db) /\ Drawn(issued, db)
  BY <1>1, RdbKeysEnd, RdbTablesGiven DEF RefIntegrity, Drawn
<1>5. req = [c \in Clients |-> Answered("ok")] /\ Answered("ok").at = "answered"
  BY DEF Init, Answered
<1>6. Answered("ok") \in Requests
  BY StatusesGiven DEF Answered, Requests
<1>7. \A c \in Clients : LocalsSound(issued, db, req[c])
  BY <1>5 DEF LocalsSound, WritesReplica
<1>8. QED BY <1>3, <1>4, <1>5, <1>6, <1>7 DEF IInv, Good

\* Every step of a handler keeps it.
LEMMA StepKeepsInvariant == ASSUME IInv, [Next]_vars PROVE IInv'
<1>1. CASE UNCHANGED vars
  BY <1>1 DEF vars, IInv, Good, Typed, Drawn, RefIntegrity, LocalsSound, Sound
<1>2. CASE Next
  <2>1. PICK c \in Clients : Arrive(c) \/ Proceed(c)
    BY <1>2 DEF Next
  <2>2. Ready
    BY DEF IInv, Ready
  <2>3. QED BY <2>1, <2>2, ActionsStep, FittingKeepsInvariant
<1>3. QED BY <1>1, <1>2

\* The invariant that all that follows rests on.
THEOREM RdbInvariant == Spec => []IInv
BY InitFits, StepKeepsInvariant, PTL DEF Spec

\* Rows and handlers' locals keep their types, and the names in the keys are true.
THEOREM RdbTypeCorrect == Spec => []RdbTypeOK
<1>1. ASSUME IInv, NEW t \in RdbTables, NEW k \in DOMAIN db[t]
      PROVE  db[t][k] \in RowsOf(t) /\ Sound(t, k, db[t][k])
  BY <1>1 DEF IInv, Good, Typed
<1>2. ASSUME IInv PROVE RdbTypeOK
  <2>1. DOMAIN db = RdbTables /\ \A t \in RdbTables : DOMAIN db[t] \subseteq IdsOf(t)
    BY <1>2 DEF IInv, Good, Typed
  <2>2. \A t \in RdbTables : \A k \in DOMAIN db[t] : db[t][k] \in RowsOf(t)
    BY <1>1, <1>2
  <2>3. \A t \in NamedTables : \A k \in DOMAIN db[t] : db[t][k].instance_id = k[1]
    BY <1>1, <1>2, RdbTablesGiven DEF Sound
  <2>4. \A i \in DOMAIN db["rdb_acls"] : db["rdb_acls"][i].instance_id = i
    BY <1>1, <1>2, RdbTablesGiven DEF Sound
  <2>5. \A c \in Clients : req[c] \in Requests
    BY <1>2 DEF IInv
  <2>6. QED BY <2>1, <2>2, <2>3, <2>4, <2>5, RdbTablesGiven DEF RdbTypeOK
<1>3. QED BY <1>2, RdbInvariant, PTL

-----------------------------------------------------------------------------
(***************************************************************************)
(* Privileges.                                                             *)
(***************************************************************************)

\* The privileges of instance i, by key and by column.
LEMMA PrivilegesByColumn ==
  ASSUME NEW d, Good(d), NEW k \in DOMAIN d["rdb_privileges"]
  PROVE  d["rdb_privileges"][k].instance_id = k[1]
BY RdbTablesGiven DEF Good, Typed, Sound

\* A statement touches privileges only if the instance goes, with all of them.
LEMMA StatementsLeavePrivileges ==
  ASSUME NEW iss, NEW new, NEW d, Good(d), NEW e, Good(e), Statement(iss, new, d, e),
         NEW i, Privileges(e, i) # Privileges(d, i)
  PROVE  i \in DOMAIN d["rdb_instances"] /\ i \notin DOMAIN e["rdb_instances"]
<1> DEFINE p == "rdb_privileges"
<1>1. p \in RdbTables /\ DOMAIN d = RdbTables /\ DOMAIN e = RdbTables /\ p # "rdb_instances"
  BY RdbTablesGiven DEF Good, Typed
<1>2. DOMAIN e[p] # DOMAIN d[p]
  BY DEF Privileges
<1>3. CASE Inserted(iss, new, d, e)
  <2>1. PICK t \in RdbTables \ {p} : \E k \in IdsOf(t) : \E row \in RowsOf(t) :
          k \notin DOMAIN d[t] /\ e = InsertRow(d, t, k, row)
    BY <1>3 DEF Inserted
  <2>2. e[p] = d[p]
    BY <1>1, <2>1, InsertAddsOneRow
  <2>3. QED BY <1>2, <2>2
<1>4. CASE Updated(d, e)
  <2>1. PICK t \in RdbTables : \E k \in DOMAIN d[t] : \E row \in RowsOf(t) :
          e = UpdateRow(d, t, k, row)
    BY <1>4 DEF Updated
  <2>2. DOMAIN e[p] = DOMAIN d[p]
    BY <1>1, <2>1, UpdateChangesOneRow
  <2>3. QED BY <1>2, <2>2
<1>5. CASE Deleted(d, e)
  <2>1. PICK t \in RdbTables \ {p} : \E k \in DOMAIN d[t] : e = DeleteRow(Keys, d, t, k)
    BY <1>5 DEF Deleted
  <2>2. PICK k \in DOMAIN d[t] : e = DeleteRow(Keys, d, t, k)
    BY <2>1
  <2>3. \A u \in RdbTables : DOMAIN e[u] = DOMAIN d[u] \ Doomed(Keys, d, t, k, u)
    BY <2>2, DeleteTakesAway
  <2>4. PICK x \in DOMAIN d[p] \cap Doomed(Keys, d, t, k, p) : x[1] = i
    BY <1>1, <2>3 DEF Privileges
  <2>5. t # p
    BY <2>1
  <2>6. PICK fk \in Keys : fk.child = p /\ fk.parent = t /\ d[p][x][fk.col] = k
    BY <2>4, <2>5 DEF Doomed, Referencing
  <2>7. t = "rdb_instances" /\ d[p][x]["instance_id"] = k
    BY <2>6, RdbKeysEnd
  <2>8. k = i
    BY <2>4, <2>7, PrivilegesByColumn
  <2>9. i \in Doomed(Keys, d, t, k, "rdb_instances")
    BY <2>2, <2>7, <2>8 DEF Doomed
  <2>10. "rdb_instances" \in RdbTables
    BY RdbTablesGiven
  <2>11. QED BY <2>2, <2>3, <2>7, <2>8, <2>9, <2>10
<1>6. QED BY <1>2, <1>3, <1>4, <1>5 DEF Statement

\* A replacement touches those of its instance, and leaves it the new list.
LEMMA ReplacementsOfOneInstance ==
  ASSUME NEW d, Good(d), NEW i \in Instances, NEW keys, NEW e, PrivilegesReplaced(d, i, keys, e)
  PROVE  /\ Privileges(e, i) = keys
         /\ \A j \in Instances \ {i} : Privileges(e, j) = Privileges(d, j)
<1>1. PrivilegesDiffer(d, i, keys, e)
  BY ReplacedPrivileges
<1>2. DOMAIN e["rdb_privileges"] = Kept(d, i) \cup keys
  BY <1>1 DEF PrivilegesDiffer
<1>3. Kept(d, i) = {k \in DOMAIN d["rdb_privileges"] : k[1] # i}
  BY PrivilegesByColumn DEF Kept
<1>4. \A k \in keys : k[1] = i
  BY DEF PrivilegesReplaced
<1>5. QED BY <1>2, <1>3, <1>4 DEF Privileges

\* "Replace all privileges atomically": the privileges of an instance change only when
\* the instance goes or a request for it succeeds, and are then the list of the request.
THEOREM RdbPrivilegesReplacedAtOnce == Spec => PrivilegesAreReplacedAtOnce
<1> DEFINE Replaced ==
             \A i \in Instances : Privileges(db', i) # Privileges(db, i) =>
               \/ Found("rdb_instances", i) /\ i \notin DOMAIN db'["rdb_instances"]
               \/ \E c \in Clients : /\ req[c].at = "SetPrivileges" /\ req[c].instance = i
                                     /\ req'[c] = Answered("ok")
                                     /\ Privileges(db', i) = PrivilegeKeys(i, req[c].list)
<1>1. ASSUME IInv, [Next]_vars PROVE [Replaced]_vars
  <2>1. SUFFICES ASSUME Next, NEW i \in Instances, Privileges(db', i) # Privileges(db, i)
                 PROVE  \/ Found("rdb_instances", i) /\ i \notin DOMAIN db'["rdb_instances"]
                        \/ \E c \in Clients :
                             /\ req[c].at = "SetPrivileges" /\ req[c].instance = i
                             /\ req'[c] = Answered("ok")
                             /\ Privileges(db', i) = PrivilegeKeys(i, req[c].list)
    BY <1>1
  <2>2. PICK c \in Clients : Arrive(c) \/ Proceed(c)
    BY <2>1 DEF Next
  <2>3. Ready /\ Good(db) /\ Good(db')
    BY <1>1, StepKeepsInvariant DEF IInv, Ready
  <2>4. CASE Fits(c)
    <3>1. Statement(issued, issued', db, db')
      BY <2>4 DEF Fits
    <3>2. QED BY <2>1, <2>3, <3>1, StatementsLeavePrivileges DEF Found
  <2>5. CASE SetPrivileges(c)
    <3>1. req[c].at = "SetPrivileges" /\ req[c].instance \in Instances
      BY <2>3, <2>5, LocalsTyped DEF SetPrivileges, Ready
    <3>2. /\ PrivilegesReplaced(db, req[c].instance,
                                PrivilegeKeys(req[c].instance, req[c].list), db')
          /\ req' = [req EXCEPT ![c] = Answered("ok")]
      BY <2>1, <2>3, <2>5, SetPrivilegesSteps
    <3>3. req[c].instance = i
      BY <2>1, <2>3, <3>1, <3>2, ReplacementsOfOneInstance
    <3>4. Privileges(db', i) = PrivilegeKeys(i, req[c].list)
      BY <2>3, <3>1, <3>2, <3>3, ReplacementsOfOneInstance
    <3>5. req'[c] = Answered("ok")
      BY <2>3, <3>2 DEF Ready
    <3>6. QED BY <3>1, <3>3, <3>4, <3>5
  <2>6. QED BY <2>2, <2>3, <2>4, <2>5, ActionsFit
<1>2. QED BY <1>1, RdbInvariant, PTL DEF Spec, PrivilegesAreReplacedAtOnce

-----------------------------------------------------------------------------
(***************************************************************************)
(* Every Step is a step of the store, or none.                             *)
(***************************************************************************)

\* The references of the store are the keys of the schema.
LEMMA StoreReferences ==
  /\ Store!References = Keys
  /\ \A fk \in Keys : fk.child \in RdbTables /\ fk.parent \in RdbTables
  /\ With(Keys, SetNull) = {}
<1>1. \A fk \in Keys : /\ fk.child \in RdbTables /\ fk.parent \in RdbTables
                       /\ fk.action = Cascade
  BY RdbKeysEnd, RdbTablesGiven
<1>2. QED BY <1>1 DEF Store!References, With, Cascade, SetNull, NoAction

\* A row that the foreign keys accept is settled.
LEMMA AcceptedRowsAreSettled ==
  ASSUME Good(db), Good(db'), NEW t \in RdbTables, NEW k \in DOMAIN db'[t],
         RowOK(Keys, db, t, db'[t][k])
  PROVE  Store!Settled(t, ReferencesIn(Keys, db')[t][k])
<1>1. \A fk \in Keys : fk.parent \in DOMAIN db
  BY StoreReferences DEF Good, Typed
<1>2. t \in DOMAIN db'
  BY DEF Good, Typed
<1>3. QED BY <1>1, <1>2, AcceptedRowSeen, StoreReferences DEF Store!Settled, Store!Live

\* An INSERT is a resource that appears.
LEMMA InsertIsAppear ==
  ASSUME Good(db), Good(db'), Inserted(issued, issued', db, db')
  PROVE  Store!Next
<1> DEFINE old == ReferencesIn(Keys, db)
           new == ReferencesIn(Keys, db')
<1>1. PICK t \in RdbTables : \E k, row :
        /\ k \notin DOMAIN db[t] /\ RowOK(Keys, db, t, row)
        /\ db' = InsertRow(db, t, k, row)
  BY DEF Inserted
<1>2. PICK k, row : /\ k \notin DOMAIN db[t] /\ RowOK(Keys, db, t, row)
                    /\ db' = InsertRow(db, t, k, row)
  BY <1>1
<1>3. /\ DOMAIN db = RdbTables /\ DOMAIN db' = RdbTables
      /\ \A u \in RdbTables \ {t} : db'[u] = db[u]
      /\ DOMAIN db'[t] = DOMAIN db[t] \cup {k}
      /\ db'[t][k] = row
      /\ \A x \in DOMAIN db[t] : db'[t][x] = db[t][x]
  BY <1>2, InsertAddsOneRow DEF Good, Typed
<1>4. /\ DOMAIN new[t] = DOMAIN old[t] \cup {k}
      /\ k \notin DOMAIN old[t]
      /\ \A x \in DOMAIN old[t] : new[t][x] = old[t][x]
  <2>1. DOMAIN new[t] = DOMAIN db'[t] /\ DOMAIN old[t] = DOMAIN db[t]
    BY <1>3, ReferencesSeen
  <2>2. \A x \in DOMAIN db[t] : new[t][x] = old[t][x]
    BY <1>3, SameRowSeen
  <2>3. QED BY <1>2, <1>3, <2>1, <2>2
<1>5. \A u \in RdbTables \ {t} : new[u] = old[u]
  BY <1>3, SameRowsSeen
<1>6. Store!Settled(t, new[t][k])
  BY <1>2, <1>3, AcceptedRowsAreSettled
<1>7. Store!Appear(t, k)
  BY <1>4, <1>5, <1>6 DEF Store!Appear, Store!Live, Store!Unchanged
<1>8. QED BY <1>4, <1>7 DEF Store!Next, Store!Live

\* An UPDATE is a resource that refers to others from now on, if it changes references.
LEMMA UpdateIsRelink ==
  ASSUME Good(db), Good(db'), Updated(db, db')
  PROVE  [Store!Next]_(ReferencesIn(Keys, db))
<1> DEFINE old == ReferencesIn(Keys, db)
           new == ReferencesIn(Keys, db')
<1>1. PICK t \in RdbTables : \E k \in DOMAIN db[t] : \E row \in RowsOf(t) :
        /\ RowOK(Keys, db, t, row)
        /\ db' = UpdateRow(db, t, k, row)
  BY DEF Updated
<1>2. PICK k \in DOMAIN db[t] : \E row \in RowsOf(t) :
        /\ RowOK(Keys, db, t, row)
        /\ db' = UpdateRow(db, t, k, row)
  BY <1>1
<1>3. PICK row \in RowsOf(t) :
        /\ RowOK(Keys, db, t, row)
        /\ db' = UpdateRow(db, t, k, row)
  BY <1>2
<1>4. RowOK(Keys, db, t, row)
  BY <1>3
<1>5. /\ DOMAIN db = RdbTables /\ DOMAIN db' = RdbTables
      /\ \A u \in RdbTables \ {t} : db'[u] = db[u]
      /\ DOMAIN db'[t] = DOMAIN db[t]
      /\ db'[t][k] = row
      /\ \A x \in DOMAIN db[t] \ {k} : db'[t][x] = db[t][x]
  BY <1>3, UpdateChangesOneRow DEF Good, Typed
<1>6. /\ DOMAIN new[t] = DOMAIN old[t]
      /\ k \in DOMAIN old[t]
      /\ \A x \in DOMAIN old[t] \ {k} : new[t][x] = old[t][x]
  <2>1. DOMAIN new[t] = DOMAIN db'[t] /\ DOMAIN old[t] = DOMAIN db[t]
    BY <1>5, ReferencesSeen
  <2>2. \A x \in DOMAIN db[t] \ {k} : new[t][x] = old[t][x]
    BY <1>5, SameRowSeen
  <2>3. QED BY <1>5, <2>1, <2>2
<1>7. \A u \in RdbTables \ {t} : new[u] = old[u]
  BY <1>5, SameRowsSeen
<1>8. Store!Settled(t, new[t][k])
  BY <1>4, <1>5, AcceptedRowsAreSettled
<1>9. Store!Relink(t, k)
  BY <1>6, <1>7, <1>8 DEF Store!Relink, Store!Live, Store!Unchanged
<1>10. CASE new[t] # old[t]
  BY <1>6, <1>9, <1>10 DEF Store!Next, Store!Live
<1>11. CASE new[t] = old[t]
  BY <1>5, <1>7, <1>11, SameTablesSeen
<1>12. QED BY <1>10, <1>11

\* A DELETE is a resource that disappears, with the rules or memberships it owns.
LEMMA DeleteIsDisappear ==
  ASSUME Good(db), Good(db'), Deleted(db, db')
  PROVE  Store!Next
<1> DEFINE old == ReferencesIn(Keys, db)
           new == ReferencesIn(Keys, db')
<1>1. PICK t \in RdbTables : \E k \in DOMAIN db[t] : db' = DeleteRow(Keys, db, t, k)
  BY DEF Deleted
<1>2. PICK k \in DOMAIN db[t] : db' = DeleteRow(Keys, db, t, k)
  BY <1>1
<1>3. DOMAIN db = RdbTables /\ DOMAIN db' = RdbTables
  BY DEF Good, Typed
<1>4. /\ \A u \in RdbTables : DOMAIN old[u] = DOMAIN db[u] /\ DOMAIN new[u] = DOMAIN db'[u]
      /\ \A fk \in Keys : \A x \in DOMAIN db[fk.child] :
           old[fk.child][x][fk.col] = db[fk.child][x][fk.col]
  BY <1>3, ReferencesSeen, StoreReferences
<1>5. ASSUME NEW u \in RdbTables
      PROVE  /\ DOMAIN db'[u] = DOMAIN db[u] \ Doomed(Keys, db, t, k, u)
             /\ \A x \in DOMAIN db'[u] : db'[u][x] = db[u][x]
  BY <1>2, DeleteTakesAway
<1>6. ASSUME NEW u \in RdbTables
      PROVE  Store!Goes(t, k, u) = Doomed(Keys, db, t, k, u)
  <2>1. ASSUME NEW fk \in Keys, fk.child = u, NEW x \in DOMAIN db[u]
        PROVE  old[u][x][fk.col] = db[u][x][fk.col]
    BY <1>4, <2>1
  <2>2. Store!Goes(t, k, u) = {x \in DOMAIN old[u] :
           \/ u = t /\ x = k
           \/ \E fk \in With(Keys, Cascade) :
                fk.child = u /\ fk.parent = t /\ old[u][x][fk.col] = k}
    BY DEF Store!Goes, Store!Live
  <2>3. DOMAIN old[u] = DOMAIN db[u]
    BY <1>4
  <2> HIDE DEF old
  <2>4. QED BY <2>1, <2>2, <2>3 DEF Doomed, With
<1>7. ASSUME NEW u \in RdbTables, NEW x \in DOMAIN db[u]
      PROVE  Store!Detached(t, k, u, old[u][x]) = old[u][x]
  <2>1. old[u][x] = [col \in Columns(Keys, u) |-> db[u][x][col]]
    BY <1>3, ReferencesSeen
  <2>2. Store!Detached(t, k, u, old[u][x]) = [col \in DOMAIN old[u][x] |-> old[u][x][col]]
    BY StoreReferences DEF Store!Detached
  <2>3. QED BY <2>1, <2>2
<1>8. \A fk \in With(Keys, NoAction) : fk.parent = t =>
        \A x \in DOMAIN old[fk.child] : old[fk.child][x][fk.col] # k
  BY RdbKeysEnd DEF With, Cascade, NoAction
<1>9. ASSUME NEW u \in RdbTables
      PROVE  /\ DOMAIN new[u] = DOMAIN old[u] \ Store!Goes(t, k, u)
             /\ \A x \in DOMAIN old[u] \ Store!Goes(t, k, u) :
                  new[u][x] = Store!Detached(t, k, u, old[u][x])
  <2>1. DOMAIN new[u] = DOMAIN old[u] \ Store!Goes(t, k, u)
    BY <1>4, <1>5, <1>6
  <2>2. ASSUME NEW x \in DOMAIN old[u] \ Store!Goes(t, k, u)
        PROVE  new[u][x] = Store!Detached(t, k, u, old[u][x])
    <3>1. x \in DOMAIN db[u] /\ x \in DOMAIN db'[u] /\ db'[u][x] = db[u][x]
      BY <1>4, <1>5, <1>6, <2>2
    <3>2. new[u][x] = old[u][x]
      BY <1>3, <3>1, SameRowSeen
    <3>3. QED BY <1>7, <3>1, <3>2
  <2>3. QED BY <2>1, <2>2
<1>10. Store!Disappear(t, k)
  BY <1>2, <1>4, <1>8, <1>9 DEF Store!Disappear, Store!Live
<1>11. k \in DOMAIN old[t] /\ k \notin DOMAIN new[t]
  BY <1>2, <1>4, <1>5 DEF Doomed
<1>12. new[t] # old[t]
  BY <1>11
<1>13. QED BY <1>10, <1>11, <1>12 DEF Store!Next, Store!Live

\* Privileges that are replaced: those of no other instance change.
LEMMA ReplacementIsReplace ==
  ASSUME Good(db), Good(db'), NEW i \in Instances, NEW keys, PrivilegesReplaced(db, i, keys, db')
  PROVE  [Store!Next]_(ReferencesIn(Keys, db))
<1> DEFINE before == ReferencesIn(Keys, db)
           after == ReferencesIn(Keys, db')
           t == "rdb_privileges"
<1>1. PICK ref \in Keys : ref.child = t
  BY RdbKeysEnd, RdbTablesGiven
<1>2. /\ ref \in Privilege /\ ref.parent = "rdb_instances" /\ ref.col = "instance_id"
      /\ i \in DOMAIN db["rdb_instances"]
  BY <1>1, RdbKeysEnd DEF Privilege, PrivilegesReplaced
<1>3. PrivilegesDiffer(db, i, keys, db')
  BY ReplacedPrivileges
<1>4. /\ DOMAIN db = RdbTables /\ DOMAIN db' = RdbTables
      /\ t \in RdbTables /\ "rdb_instances" \in RdbTables /\ t \in BelowTables
  BY RdbTablesGiven DEF Good, Typed
<1>5. /\ \A u \in RdbTables \ {t} : db'[u] = db[u]
      /\ DOMAIN db'[t] = Kept(db, i) \cup keys
      /\ \A x \in keys : db'[t][x] = BelowInstance(i)
      /\ \A x \in Kept(db, i) : x \in DOMAIN db[t] /\ db'[t][x] = db[t][x]
  BY <1>3 DEF PrivilegesDiffer, Kept
<1>6. /\ DOMAIN before[t] = DOMAIN db[t] /\ DOMAIN after[t] = DOMAIN db'[t]
      /\ DOMAIN before["rdb_instances"] = DOMAIN db["rdb_instances"]
      /\ \A x \in DOMAIN db[t] : before[t][x]["instance_id"] = db[t][x]["instance_id"]
      /\ \A x \in DOMAIN db'[t] : after[t][x]["instance_id"] = db'[t][x]["instance_id"]
  BY <1>1, <1>2, <1>4, ReferencesSeen
<1>7. {x \in DOMAIN before[t] : before[t][x]["instance_id"] # i} = Kept(db, i)
  <2>1. \A x \in DOMAIN db[t] : before[t][x]["instance_id"] = db[t][x].instance_id
    BY <1>6
  <2>2. QED BY <1>6, <2>1 DEF Kept
<1>8. ASSUME NEW x \in DOMAIN after[t]
      PROVE  IF x \in Kept(db, i)
             THEN after[t][x] = before[t][x]
             ELSE after[t][x]["instance_id"] = i /\ Store!Settled(t, after[t][x])
  <2>1. CASE x \in Kept(db, i)
    BY <1>4, <1>5, <2>1, SameRowSeen
  <2>2. CASE x \notin Kept(db, i)
    <3>1. x \in DOMAIN db'[t] /\ db'[t][x] = BelowInstance(i)
      BY <1>5, <1>6, <2>2
    <3>2. BelowInstance(i)["instance_id"] = i /\ BelowInstance(i).instance_id = i
      BY DEF BelowInstance
    <3>3. BelowInstance(i) \in RowsOf(t)
      BY RdbSchema DEF BelowInstance
    <3>4. RowOK(Keys, db, t, db'[t][x])
      BY <1>2, <1>4, <3>1, <3>2, <3>3, AcceptedRows
    <3>5. Store!Settled(t, after[t][x])
      BY <1>4, <3>1, <3>4, AcceptedRowsAreSettled
    <3>6. QED BY <1>6, <2>2, <3>1, <3>2, <3>5
  <2>3. QED BY <2>1, <2>2
<1>9. \A u \in RdbTables \ {t} : after[u] = before[u]
  BY <1>4, <1>5, SameRowsSeen
<1>10. Kept(db, i) \subseteq DOMAIN after[t]
  BY <1>5, <1>6
<1> HIDE DEF before, after
<1>11. Store!Replace(ref, i)
  BY <1>1, <1>2, <1>7, <1>8, <1>9, <1>10
  DEF Store!Replace, Store!Live, Store!Unchanged, before, after
<1>12. CASE after[t] # before[t]
  BY <1>1, <1>2, <1>4, <1>6, <1>11, <1>12 DEF Store!Next, Store!Live, before, after
<1>13. CASE after[t] = before[t]
  BY <1>4, <1>9, <1>13, SameTablesSeen DEF before, after
<1>14. QED BY <1>12, <1>13 DEF before

\* Every Step is one step of the store, or none.
LEMMA StepIsStoreStep ==
  ASSUME Good(db), Drawn(issued, db), issued \subseteq issued',
         Step(issued, issued', db, db')
  PROVE  [Store!Next]_(ReferencesIn(Keys, db))
<1>1. Good(db')
  BY StepKeepsGood
<1>2. CASE db = db'
  BY <1>2
<1>3. CASE Inserted(issued, issued', db, db')
  BY <1>1, <1>3, InsertIsAppear
<1>4. CASE Updated(db, db')
  BY <1>1, <1>4, UpdateIsRelink
<1>5. CASE Deleted(db, db')
  BY <1>1, <1>5, DeleteIsDisappear
<1>6. CASE \E i \in Instances : \E keys : PrivilegesReplaced(db, i, keys, db')
  BY <1>1, <1>6, ReplacementIsReplace
<1>7. QED BY <1>2, <1>3, <1>4, <1>5, <1>6 DEF Step, Statement

\* The service implements the store: whatever runs at the same time, each request makes
\* one resource appear, makes one go with all it owns, or replaces the privileges of one
\* instance; what is below an instance stays there until it goes.
THEOREM RdbImplementsStore == Spec => RdbKeepsReferences
<1>1. Init => Store!Init
  BY DEF Init, Store!Init, ReferencesIn, EmptyTable
<1>2. IInv /\ [Next]_vars => [Store!Next]_(ReferencesIn(Keys, db))
  <2>1. SUFFICES ASSUME IInv, [Next]_vars PROVE [Store!Next]_(ReferencesIn(Keys, db))
    OBVIOUS
  <2>2. CASE UNCHANGED vars
    BY <2>2 DEF vars
  <2>3. CASE Next
    <3>1. PICK c \in Clients : Arrive(c) \/ Proceed(c)
      BY <2>3 DEF Next
    <3>2. issued \subseteq issued' /\ Step(issued, issued', db, db')
      BY <2>1, <3>1, ActionsStep DEF IInv, Ready
    <3>3. QED BY <2>1, <3>2, StepIsStoreStep DEF IInv
  <2>4. QED BY <2>1, <2>2, <2>3
<1>3. QED BY <1>1, <1>2, RdbInvariant, PTL DEF Spec, RdbKeepsReferences, Store!Spec

-----------------------------------------------------------------------------
(***************************************************************************)
(* One request at a time: the behaviours that TLC runs, without its bounds *)
(* and scopes.                                                             *)
(***************************************************************************)
SomeNext == (\E c \in active : Arrive(c) \/ Proceed(c)) /\ active' = active

SomeSpec ==
  Init /\ active \in (SUBSET Clients) \ {{}} /\ [][SomeNext]_<<vars, active>>

\* What TLC explores is among them.
LEMMA BoundedRunsAreRuns == MCSpec => SomeSpec
<1>1. MCInit => Init /\ active \in (SUBSET Clients) \ {{}}
  BY DEF MCInit
<1>2. [MCNext]_<<vars, active, scope>> => [SomeNext]_<<vars, active>>
  BY DEF MCNext, SomeNext
<1>3. QED BY <1>1, <1>2, PTL DEF MCSpec, SomeSpec

\* The endpoints of one list have uuids of their own, and drawn ones.
Distinct(iss, eps) ==
  /\ \A x \in eps : x.id \in iss
  /\ \A x, y \in eps : x.id = y.id => x = y

Tidy(iss, d) == \A i \in DOMAIN d["rdb_instances"] : Distinct(iss, EndpointsOf(d, i))

\* What is added to a list is on a private network that is there, or on none.
OnLiveNetworks(d, eps) == \A x \in eps : x.network \in DOMAIN d["private_networks"] \cup {Null}

WritesAList(r) == r.at = "WriteDoc" /\ r.table = "rdb_instances"

\* What a handler relies on at its next statement: that the list it changes is still
\* the one it has read.
Relies(iss, d, r) ==
  /\ r.at = "CreateInstance" =>
       /\ Distinct(iss, r.endpoints)
       /\ \A x \in r.endpoints :
            x.network \in DOMAIN d["private_networks"] \cup {Null} \cup r.todo
  /\ r.at \in {"WriteInstance", "CreateEndpoint"} =>
       r.instance \in DOMAIN d["rdb_instances"] /\ r.row = d["rdb_instances"][r.instance]
  /\ r.at = "CreateEndpoint" =>
       r.endpoint.id \in iss /\ \A x \in r.row.endpoints : x.id # r.endpoint.id
  /\ WritesAList(r) =>
       /\ r.key \in DOMAIN d["rdb_instances"]
       /\ Distinct(iss, r.row.endpoints)
       /\ OnLiveNetworks(d, r.row.endpoints \ EndpointsOf(d, r.key))
       /\ ListChange(EndpointsOf(d, r.key), r.row.endpoints, r.adds, r.drops)

\* Handlers that are not about to write a list rely on nothing.
LEMMA OthersRelyOnNothing ==
  ASSUME NEW iss, NEW d, NEW r,
         \/ r.at \notin {"CreateInstance", "WriteInstance", "CreateEndpoint", "WriteDoc"}
         \/ r.at = "WriteDoc" /\ r.table # "rdb_instances"
  PROVE  Relies(iss, d, r)
BY DEF Relies, WritesAList

\* The handler's next statement.
LEMMA GoesOn ==
  ASSUME Ready, NEW c \in Clients, NEW r, Continue(c, r)
  PROVE  req'[c] = r
BY DEF Continue, Ready

\* An answered request relies on nothing.
LEMMA AnswersRelyOnNothing ==
  ASSUME Ready, NEW c \in Clients, NEW status, Answer(c, status)
  PROVE  Relies(issued', db', req'[c])
<1>1. req'[c] = Answered(status)
  BY GoesOn DEF Answer
<1>2. QED BY <1>1, OthersRelyOnNothing DEF Answered

\* A look-up that is passed relies on what comes next.
LEMMA ReadsRely ==
  ASSUME Ready, NEW c \in Clients, NEW t, NEW k, NEW next, Read(c, t, k, next),
         Found(t, k) => Relies(issued, db, next)
  PROVE  Relies(issued', db', req'[c])
<1>1. CASE Found(t, k) /\ Continue(c, next)
  BY <1>1, GoesOn DEF Read
<1>2. CASE Answer(c, "not_found")
  BY <1>2, AnswersRelyOnNothing
<1>3. QED BY <1>1, <1>2 DEF Read

\* A statement or look-up after which the request is answered or relies on nothing.
LEMMA StatementsRely ==
  ASSUME Ready, NEW c \in Clients, NEW t, NEW k, NEW row,
         \/ CreateSimple(Keys, c, t, k, row) \/ InsertJSON(Keys, c, t, k, row)
         \/ DeleteBy(Keys, c, t, k)
  PROVE  Relies(issued', db', req'[c])
BY AnswersRelyOnNothing DEF CreateSimple, InsertJSON, DeleteBy

-----------------------------------------------------------------------------
(***************************************************************************)
(* Relying handlers: the statements that read a list.                      *)
(***************************************************************************)
\* Initial endpoints: fresh uuids, and networks that were looked up or will be.
LEMMA CreateInstanceRelies ==
  ASSUME Ready, NEW c \in Clients, Relies(issued, db, req[c]),
         BeginCreateInstance(c) \/ CreateInstanceFromSnapshot(c) \/ CheckInitNetwork(c)
  PROVE  Relies(issued', db', req'[c])
<1>1. ASSUME NEW eps, NEW todo, Distinct(issued', eps),
             \A x \in eps : x.network \in DOMAIN db'["private_networks"] \cup {Null} \cup todo
      PROVE  Relies(issued', db', [at |-> "CreateInstance", endpoints |-> eps, todo |-> todo])
  BY <1>1 DEF Relies, WritesAList
<1>2. CASE BeginCreateInstance(c)
  <2>1. PICK eps \in InitEndpoints :
          /\ issued' = issued \cup {x.id : x \in eps}
          /\ Continue(c, [at |-> "CreateInstance", endpoints |-> eps,
                          todo |-> {x.network : x \in eps} \ {Null}])
    BY <1>2 DEF BeginCreateInstance
  <2>2. Distinct(issued', eps)
    BY <2>1 DEF Distinct, InitEndpoints
  <2>3. \A x \in eps : x.network \in {Null} \cup ({y.network : y \in eps} \ {Null})
    OBVIOUS
  <2>4. QED BY <1>1, <2>1, <2>2, <2>3, GoesOn
<1>3. CASE CreateInstanceFromSnapshot(c)
  <2>1. CASE \E e \in Endpoints \ issued :
               /\ issued' = issued \cup {e}
               /\ Continue(c, [at |-> "CreateInstance", endpoints |-> {Endpoint(e, Null)},
                               todo |-> {}])
    <3>1. PICK e \in Endpoints \ issued :
               /\ issued' = issued \cup {e}
               /\ Continue(c, [at |-> "CreateInstance", endpoints |-> {Endpoint(e, Null)},
                               todo |-> {}])
      BY <2>1
    <3>2. Distinct(issued', {Endpoint(e, Null)})
      BY <3>1 DEF Distinct, Endpoint
    <3>3. \A x \in {Endpoint(e, Null)} : x.network = Null
      BY DEF Endpoint
    <3> DEFINE r == [at |-> "CreateInstance", endpoints |-> {Endpoint(e, Null)}, todo |-> {}]
    <3>4. Relies(issued', db', r)
      BY <1>1, <3>2, <3>3
    <3> HIDE DEF r
    <3>5. req'[c] = r
      BY <3>1, GoesOn DEF r
    <3>6. QED BY <3>4, <3>5
  <2>2. CASE Answer(c, "not_found")
    BY <2>2, AnswersRelyOnNothing
  <2>3. QED BY <1>3, <2>1, <2>2 DEF CreateInstanceFromSnapshot
<1>4. CASE CheckInitNetwork(c)
  <2> DEFINE r == req[c]
  <2>1. PICK n \in r.todo : Read(c, "private_networks", n, [r EXCEPT !.todo = @ \ {n}])
    BY <1>4 DEF CheckInitNetwork
  <2>2. r.at = "CreateInstance" /\ r \in Requests
    BY <1>4 DEF CheckInitNetwork, Ready
  <2>3. r = [at |-> "CreateInstance", endpoints |-> r.endpoints, todo |-> r.todo]
    BY <2>2 DEF Requests
  <2> DEFINE next == [at |-> "CreateInstance", endpoints |-> r.endpoints,
                      todo |-> r.todo \ {n}]
  <2>4. [r EXCEPT !.todo = @ \ {n}] = next
    BY <2>3
  <2>5. Found("private_networks", n) => Relies(issued, db, next)
    BY <2>2 DEF Relies, WritesAList, Found
  <2> HIDE DEF next
  <2>6. QED BY <2>1, <2>4, <2>5, ReadsRely
<1>5. QED BY <1>2, <1>3, <1>4

\* The row of the instance, read to be written back.
LEMMA InstanceReadsRely ==
  ASSUME Ready, NEW c \in Clients, UpgradeInstance(c) \/ ReadInstance(c) \/ BeginDeleteInstance(c)
  PROVE  Relies(issued', db', req'[c])
<1>1. CASE UpgradeInstance(c) \/ BeginDeleteInstance(c)
  BY <1>1, ReadsRely, OthersRelyOnNothing DEF UpgradeInstance, BeginDeleteInstance
<1>2. CASE ReadInstance(c)
  <2>1. PICK i \in Instances :
          Read(c, "rdb_instances", i, [at |-> "WriteInstance", instance |-> i,
                                       row |-> db["rdb_instances"][i]])
    BY <1>2 DEF ReadInstance
  <2>2. Found("rdb_instances", i) =>
          Relies(issued, db, [at |-> "WriteInstance", instance |-> i,
                              row |-> db["rdb_instances"][i]])
    BY DEF Relies, WritesAList, Found
  <2>3. QED BY <2>1, <2>2, ReadsRely
<1>3. QED BY <1>1, <1>2

\* The list of an instance, read to be written back one endpoint longer.
LEMMA CreateEndpointRelies ==
  ASSUME Ready, NEW c \in Clients, Tidy(issued, db), Relies(issued, db, req[c]),
         BeginCreateEndpoint(c) \/ CheckEndpointNetwork(c)
  PROVE  Relies(issued', db', req'[c])
<1>1. CASE BeginCreateEndpoint(c)
  <2>1. CASE Answer(c, "not_found")
    BY <2>1, AnswersRelyOnNothing
  <2>2. CASE \E i, n : \E e \in Endpoints \ issued :
               /\ Found("rdb_instances", i) /\ UNCHANGED db
               /\ issued' = issued \cup {e}
               /\ Continue(c, [at |-> "CreateEndpoint", instance |-> i,
                               row |-> db["rdb_instances"][i], endpoint |-> Endpoint(e, n)])
    <3>1. PICK i, n : \E e \in Endpoints \ issued :
               /\ Found("rdb_instances", i) /\ UNCHANGED db
               /\ issued' = issued \cup {e}
               /\ Continue(c, [at |-> "CreateEndpoint", instance |-> i,
                               row |-> db["rdb_instances"][i], endpoint |-> Endpoint(e, n)])
      BY <2>2
    <3>2. PICK e \in Endpoints \ issued :
               /\ Found("rdb_instances", i) /\ UNCHANGED db
               /\ issued' = issued \cup {e}
               /\ Continue(c, [at |-> "CreateEndpoint", instance |-> i,
                               row |-> db["rdb_instances"][i], endpoint |-> Endpoint(e, n)])
      BY <3>1
    <3>3. i \in DOMAIN db["rdb_instances"]
      BY <3>2 DEF Found
    <3>4. \A x \in db["rdb_instances"][i].endpoints : x.id # e
      BY <3>2, <3>3 DEF Tidy, Distinct, EndpointsOf
    <3>5. Relies(issued', db', [at |-> "CreateEndpoint", instance |-> i,
                                row |-> db["rdb_instances"][i], endpoint |-> Endpoint(e, n)])
      BY <3>2, <3>3, <3>4 DEF Relies, WritesAList, Endpoint
    <3>6. QED BY <3>2, <3>5, GoesOn
  <2>3. QED BY <1>1, <2>1, <2>2 DEF BeginCreateEndpoint
<1>2. CASE CheckEndpointNetwork(c)
  <2> DEFINE r == req[c]
             new == r.row.endpoints \cup {r.endpoint}
             next == WriteEndpoints(r.instance, new, {r.endpoint.id}, {})
  <2>1. /\ r.instance \in DOMAIN db["rdb_instances"]
        /\ r.row.endpoints = EndpointsOf(db, r.instance)
        /\ r.endpoint.id \in issued /\ \A x \in r.row.endpoints : x.id # r.endpoint.id
    BY <1>2 DEF CheckEndpointNetwork, Relies, EndpointsOf
  <2>2. Distinct(issued, new)
    BY <2>1 DEF Tidy, Distinct
  <2>3. ASSUME r.endpoint.network \in DOMAIN db["private_networks"] \cup {Null}
        PROVE  Relies(issued, db, next)
    <3>1. OnLiveNetworks(db, new \ EndpointsOf(db, r.instance))
      BY <2>1, <2>3 DEF OnLiveNetworks
    <3>2. /\ new \ EndpointsOf(db, r.instance) = {r.endpoint}
          /\ EndpointsOf(db, r.instance) \ new = {}
      BY <2>1
    <3> HIDE DEF new
    <3>3. ListChange(EndpointsOf(db, r.instance), new, {r.endpoint.id}, {})
      BY <3>2 DEF ListChange, Ids
    <3>4. QED BY <2>1, <2>2, <3>1, <3>3 DEF Relies, WritesAList, WriteEndpoints, InstanceRow
  <2> HIDE DEF next
  <2>4. CASE r.endpoint.network = Null /\ Continue(c, next) /\ UNCHANGED <<db, issued>>
    BY <2>3, <2>4, GoesOn
  <2>5. CASE Read(c, "private_networks", r.endpoint.network, next)
    BY <2>3, <2>5, ReadsRely DEF Found
  <2>6. QED BY <1>2, <2>4, <2>5 DEF CheckEndpointNetwork, next
<1>3. QED BY <1>1, <1>2

\* The same list, one endpoint shorter: no other has its uuid.
LEMMA DeleteEndpointRelies ==
  ASSUME Ready, NEW c \in Clients, Tidy(issued, db), DeleteEndpoint(c)
  PROVE  Relies(issued', db', req'[c])
<1>1. PICK e \in Endpoints :
        \/ \E i \in DOMAIN db["rdb_instances"] :
             /\ \E x \in EndpointsOf(db, i) : x.id = e
             /\ Continue(c, WriteEndpoints(i, {x \in EndpointsOf(db, i) : x.id # e}, {}, {e}))
        \/ Answer(c, "not_found")
  BY DEF DeleteEndpoint, EndpointsOf
<1>2. UNCHANGED <<db, issued>>
  BY DEF DeleteEndpoint
<1>3. CASE Answer(c, "not_found")
  BY <1>3, AnswersRelyOnNothing
<1>4. CASE \E i \in DOMAIN db["rdb_instances"] :
             /\ \E x \in EndpointsOf(db, i) : x.id = e
             /\ Continue(c, WriteEndpoints(i, {x \in EndpointsOf(db, i) : x.id # e}, {}, {e}))
  <2>1. PICK i \in DOMAIN db["rdb_instances"] :
             /\ \E x \in EndpointsOf(db, i) : x.id = e
             /\ Continue(c, WriteEndpoints(i, {x \in EndpointsOf(db, i) : x.id # e}, {}, {e}))
    BY <1>4
  <2> DEFINE old == EndpointsOf(db, i)
             new == {x \in old : x.id # e}
  <2>2. PICK x \in old : x.id = e
    BY <2>1
  <2>3. Distinct(issued, old)
    BY DEF Tidy
  <2>4. old \ new = {x}
    BY <2>2, <2>3 DEF Distinct
  <2>5. ListChange(old, new, {}, {e}) /\ OnLiveNetworks(db, new \ old)
    BY <2>2, <2>4 DEF ListChange, Ids, OnLiveNetworks
  <2>6. Distinct(issued, new)
    BY <2>3 DEF Distinct
  <2>7. req'[c] = WriteEndpoints(i, new, {}, {e})
    BY <2>1, GoesOn
  <2> HIDE DEF new
  <2>8. Relies(issued, db, WriteEndpoints(i, new, {}, {e}))
    BY <2>5, <2>6 DEF Relies, WritesAList, WriteEndpoints, InstanceRow
  <2>9. QED BY <1>2, <2>7, <2>8
<1>5. QED BY <1>1, <1>3, <1>4

\* The requests about rules are about no list.
LEMMA RuleReadsRely ==
  ASSUME Ready, NEW c \in Clients,
         BeginSetACLs(c) \/ BeginDeleteACLs(c) \/ DeleteSomeACLs(c) \/ ReadACLs(c)
  PROVE  Relies(issued', db', req'[c])
<1>1. CASE BeginSetACLs(c) \/ BeginDeleteACLs(c)
  BY <1>1, ReadsRely, OthersRelyOnNothing DEF BeginSetACLs, BeginDeleteACLs
<1>2. CASE DeleteSomeACLs(c)
  <2> DEFINE r == req[c]
  <2>1. r \in Requests /\ r.at = "DeleteACLs"
    BY <1>2 DEF DeleteSomeACLs, Ready
  <2>2. r = [at |-> "DeleteACLs", instance |-> r.instance, body |-> r.body]
    BY <2>1 DEF Requests
  <2>3. [r EXCEPT !.at = "ReadACLs"].at = "ReadACLs"
    BY <2>2
  <2>4. QED BY <1>2, <2>3, ReadsRely, OthersRelyOnNothing DEF DeleteSomeACLs
<1>3. CASE ReadACLs(c)
  BY <1>3, GoesOn, OthersRelyOnNothing DEF ReadACLs
<1>4. QED BY <1>1, <1>2, <1>3

\* Every handler relies on what is so.
LEMMA StepsRely ==
  ASSUME Ready, NEW c \in Clients, Arrive(c) \/ Proceed(c),
         Tidy(issued, db), Relies(issued, db, req[c])
  PROVE  Relies(issued', db', req'[c])
<1>1. CASE \/ CreatePrivateNetwork(c) \/ DeletePrivateNetwork(c)
           \/ CreateDatabase(c) \/ DeleteDatabase(c) \/ CreateUser(c) \/ DeleteUser(c)
           \/ CreateCopy(c) \/ InsertInstance(c) \/ DeleteInstance(c) \/ DeleteCopy(c)
  BY <1>1, StatementsRely
     DEF CreatePrivateNetwork, DeletePrivateNetwork, CreateDatabase, DeleteDatabase,
         CreateUser, DeleteUser, CreateCopy, InsertInstance, DeleteInstance, DeleteCopy
<1>2. CASE ReadUser(c) \/ BeginSetPrivileges(c) \/ ReadCopy(c) \/ BeginDeleteCopy(c)
  BY <1>2, ReadsRely, OthersRelyOnNothing
     DEF ReadUser, BeginSetPrivileges, ReadCopy, BeginDeleteCopy
<1>3. CASE CreateReplicaEndpoint(c)
  BY <1>3, GoesOn, AnswersRelyOnNothing, OthersRelyOnNothing DEF CreateReplicaEndpoint
<1>4. CASE \/ WriteInstance(c) \/ WriteDoc(c) \/ WriteUser(c) \/ SetPrivileges(c)
           \/ WriteACLs(c) \/ DeleteAllACLs(c) \/ WriteCopy(c)
  BY <1>4, AnswersRelyOnNothing
     DEF WriteInstance, WriteDoc, WriteUser, SetPrivileges, WriteACLs, DeleteAllACLs, WriteCopy
<1>5. CASE Arrive(c)
  BY <1>1, <1>2, <1>3, <1>5, CreateInstanceRelies, InstanceReadsRely, CreateEndpointRelies,
     DeleteEndpointRelies, RuleReadsRely DEF Arrive
<1>6. CASE Proceed(c)
  BY <1>1, <1>4, <1>6, CreateInstanceRelies, InstanceReadsRely, CreateEndpointRelies,
     RuleReadsRely DEF Proceed
<1>7. QED BY <1>5, <1>6

-----------------------------------------------------------------------------
(***************************************************************************)
(* What a step of client c does to the lists of endpoints.                 *)
(***************************************************************************)
SameLists ==
  /\ DOMAIN db'["rdb_instances"] = DOMAIN db["rdb_instances"]
  /\ \A i \in DOMAIN db["rdb_instances"] : db'["rdb_instances"][i] = db["rdb_instances"][i]

ListsServed(c) ==
  \A i \in DOMAIN db["rdb_instances"] \cap DOMAIN db'["rdb_instances"] :
    IF WritesList(c, i)
    THEN ListChange(EndpointsOf(db, i), EndpointsOf(db', i), req[c].adds, req[c].drops)
    ELSE EndpointsOf(db', i) = EndpointsOf(db, i)

Served(c) == Tidy(issued', db') /\ AddsEndpointsOnLiveNetworks /\ ListsServed(c)

\* A step that changes no list.
LEMMA SameListsServe ==
  ASSUME NEW c, ~WritesAList(req[c]), Tidy(issued, db), issued \subseteq issued', SameLists
  PROVE  Served(c)
<1>1. \A i \in DOMAIN db["rdb_instances"] : EndpointsOf(db', i) = EndpointsOf(db, i)
  BY DEF SameLists, EndpointsOf
<1>2. Tidy(issued', db')
  BY <1>1 DEF SameLists, Tidy, Distinct
<1>3. AddsEndpointsOnLiveNetworks
  BY <1>1 DEF SameLists, AddsEndpointsOnLiveNetworks, Found
<1>4. ListsServed(c)
  BY <1>1 DEF ListsServed, WritesList, WritesAList
<1>5. QED BY <1>2, <1>3, <1>4 DEF Served

\* Statements about other tables change none; a DELETE cascades downwards.
LEMMA OtherTablesServe ==
  ASSUME Ready, NEW c, ~WritesAList(req[c]), Tidy(issued, db), issued \subseteq issued',
         NEW t \in RdbTables \ {"rdb_instances"}, NEW k, NEW row,
         \/ db' = InsertRow(db, t, k, row) \/ db' = UpdateRow(db, t, k, row)
         \/ db' = DeleteRow(Keys, db, t, k) \/ UNCHANGED db
  PROVE  Served(c)
<1>1. DOMAIN db = RdbTables /\ "rdb_instances" \in RdbTables
  BY RdbTablesGiven DEF Ready, Good, Typed
<1>2. CASE \/ db' = InsertRow(db, t, k, row) \/ db' = UpdateRow(db, t, k, row) \/ UNCHANGED db
  BY <1>1, <1>2, SameListsServe DEF InsertRow, UpdateRow, SameLists
<1>3. CASE db' = DeleteRow(Keys, db, t, k)
  <2>1. Doomed(Keys, db, t, k, "rdb_instances") = {}
    BY RdbKeysEnd, RdbTablesGiven DEF Doomed
  <2>2. Good(db)
    BY DEF Ready
  <2>3. SameLists
    BY <1>1, <1>3, <2>1, <2>2, DeleteTakesAway DEF SameLists
  <2>4. QED BY <2>3, SameListsServe
<1>4. QED BY <1>2, <1>3

\* The same for the statements of the handlers.
LEMMA StatementsServe ==
  ASSUME Ready, NEW c \in Clients, ~WritesAList(req[c]), Tidy(issued, db),
         issued \subseteq issued', NEW t \in RdbTables \ {"rdb_instances"}, NEW k, NEW row,
         \/ CreateSimple(Keys, c, t, k, row) \/ InsertJSON(Keys, c, t, k, row)
         \/ DeleteBy(Keys, c, t, k)
  PROVE  Served(c)
BY OtherTablesServe DEF CreateSimple, InsertJSON, DeleteBy

\* A step that changes no table at all.
LEMMA WaitingServes ==
  ASSUME NEW c, ~WritesAList(req[c]), Tidy(issued, db), issued \subseteq issued', UNCHANGED db
  PROVE  Served(c)
BY SameListsServe DEF SameLists

\* The list of an instance is written, by the request that added or dropped an endpoint.
LEMMA WrittenListServes ==
  ASSUME Ready, NEW c \in Clients, Tidy(issued, db), Relies(issued, db, req[c]),
         WriteDoc(c), WritesAList(req[c])
  PROVE  Served(c)
<1> DEFINE i == req[c].key
           row == req[c].row
<1>1. /\ i \in DOMAIN db["rdb_instances"]
      /\ Distinct(issued, row.endpoints)
      /\ OnLiveNetworks(db, row.endpoints \ EndpointsOf(db, i))
      /\ ListChange(EndpointsOf(db, i), row.endpoints, req[c].adds, req[c].drops)
  BY DEF Relies
<1>2. UNCHANGED issued /\ db' = UpdateRow(db, "rdb_instances", i, row)
  BY DEF WriteDoc, WritesAList
<1>3. "rdb_instances" \in DOMAIN db
  BY RdbTablesGiven DEF Ready, Good, Typed
<1>4. /\ DOMAIN db'["rdb_instances"] = DOMAIN db["rdb_instances"]
      /\ EndpointsOf(db', i) = row.endpoints
      /\ \A j \in DOMAIN db["rdb_instances"] \ {i} : EndpointsOf(db', j) = EndpointsOf(db, j)
  BY <1>1, <1>2, <1>3 DEF UpdateRow, EndpointsOf
<1>5. Tidy(issued', db')
  BY <1>1, <1>2, <1>4 DEF Tidy
<1>6. AddsEndpointsOnLiveNetworks
  BY <1>1, <1>4 DEF AddsEndpointsOnLiveNetworks, OnLiveNetworks, Found
<1>7. ListsServed(c)
  BY <1>1, <1>4 DEF ListsServed, WritesList, WritesAList
<1>8. QED BY <1>5, <1>6, <1>7 DEF Served

\* The UPDATE of an instance writes the list it has read.
LEMMA UpdatesServe ==
  ASSUME Ready, NEW c \in Clients, Tidy(issued, db), Relies(issued, db, req[c]),
         WriteInstance(c)
  PROVE  Served(c)
<1> DEFINE r == req[c]
<1>1. r.instance \in DOMAIN db["rdb_instances"] /\ r.row = db["rdb_instances"][r.instance]
  BY DEF WriteInstance, Relies
<1>2. "rdb_instances" \in DOMAIN db
  BY RdbTablesGiven DEF Ready, Good, Typed
<1>3. db' = UpdateRow(db, "rdb_instances", r.instance, r.row) /\ UNCHANGED issued
  BY DEF WriteInstance
<1>4. SameLists
  BY <1>1, <1>2, <1>3 DEF SameLists, UpdateRow
<1>5. ~WritesAList(r)
  BY DEF WriteInstance, WritesAList
<1>6. QED BY <1>3, <1>4, <1>5, SameListsServe

\* A new instance brings endpoints whose networks were looked up.
LEMMA InsertInstanceServes ==
  ASSUME Ready, NEW c \in Clients, Tidy(issued, db), Relies(issued, db, req[c]),
         InsertInstance(c)
  PROVE  Served(c)
<1> DEFINE eps == req[c].endpoints
<1>1. PICK i \in Instances : CreateSimple(Keys, c, "rdb_instances", i, InstanceRow(eps))
  BY DEF InsertInstance
<1>2. issued \subseteq issued' /\ ~WritesAList(req[c])
  BY <1>1 DEF CreateSimple, InsertInstance, WritesAList
<1>3. CASE UNCHANGED db
  BY <1>2, <1>3, WaitingServes
<1>4. CASE ~Found("rdb_instances", i) /\ db' = InsertRow(db, "rdb_instances", i, InstanceRow(eps))
  <2>1. "rdb_instances" \in DOMAIN db
    BY RdbTablesGiven DEF Ready, Good, Typed
  <2>2. /\ DOMAIN db'["rdb_instances"] = DOMAIN db["rdb_instances"] \cup {i}
        /\ EndpointsOf(db', i) = eps
        /\ i \notin DOMAIN db["rdb_instances"]
        /\ \A j \in DOMAIN db["rdb_instances"] : EndpointsOf(db', j) = EndpointsOf(db, j)
    BY <1>4, <2>1 DEF InsertRow, EndpointsOf, InstanceRow, Found
  <2>3. /\ Distinct(issued, eps)
        /\ \A x \in eps : x.network \in DOMAIN db["private_networks"] \cup {Null}
    BY DEF InsertInstance, Relies
  <2>4. Tidy(issued', db')
    BY <1>2, <2>2, <2>3 DEF Tidy, Distinct
  <2> HIDE DEF eps
  <2>5. AddsEndpointsOnLiveNetworks
    BY <2>2, <2>3 DEF AddsEndpointsOnLiveNetworks, Found
  <2>6. ListsServed(c)
    BY <1>2, <2>2 DEF ListsServed, WritesList, WritesAList
  <2>7. QED BY <2>4, <2>5, <2>6 DEF Served
<1>5. QED BY <1>1, <1>3, <1>4 DEF CreateSimple, InsertJSON

\* An instance goes with its list, and leaves the others' alone.
LEMMA DeleteInstanceServes ==
  ASSUME Ready, NEW c \in Clients, Tidy(issued, db), DeleteInstance(c)
  PROVE  Served(c)
<1> DEFINE i == req[c].instance
<1>1. /\ UNCHANGED issued /\ ~WritesAList(req[c])
      /\ UNCHANGED db \/ db' = DeleteRow(Keys, db, "rdb_instances", i)
  BY DEF DeleteInstance, DeleteBy, WritesAList
<1>2. CASE UNCHANGED db
  BY <1>1, <1>2, WaitingServes
<1>3. CASE db' = DeleteRow(Keys, db, "rdb_instances", i)
  <2>1. Good(db) /\ "rdb_instances" \in RdbTables
    BY RdbTablesGiven DEF Ready
  <2>2. /\ DOMAIN db'["rdb_instances"] \subseteq DOMAIN db["rdb_instances"]
        /\ \A j \in DOMAIN db'["rdb_instances"] :
             db'["rdb_instances"][j] = db["rdb_instances"][j]
    BY <1>3, <2>1, DeleteTakesAway
  <2>3. \A j \in DOMAIN db'["rdb_instances"] : EndpointsOf(db', j) = EndpointsOf(db, j)
    BY <2>2 DEF EndpointsOf
  <2>4. Tidy(issued', db')
    BY <1>1, <2>2, <2>3 DEF Tidy
  <2>5. AddsEndpointsOnLiveNetworks /\ ListsServed(c)
    BY <1>1, <2>2, <2>3
       DEF AddsEndpointsOnLiveNetworks, ListsServed, WritesList, WritesAList, Found
  <2>6. QED BY <2>4, <2>5 DEF Served
<1>4. QED BY <1>1, <1>2, <1>3

\* The requests about rules, users, databases, privileges and copies touch no list.
LEMMA OtherActionsServe ==
  ASSUME Ready, NEW c \in Clients, ~WritesAList(req[c]), Tidy(issued, db),
         issued \subseteq issued',
         \/ WriteUser(c) \/ SetPrivileges(c) \/ WriteACLs(c) \/ DeleteAllACLs(c)
         \/ WriteCopy(c) \/ DeleteCopy(c) \/ WriteDoc(c)
  PROVE  Served(c)
<1>1. CASE WriteUser(c) \/ WriteACLs(c) \/ DeleteAllACLs(c)
  BY <1>1, OtherTablesServe, WaitingServes, RdbTablesGiven
     DEF WriteUser, WriteACLs, DeleteAllACLs
<1>2. CASE WriteCopy(c) \/ DeleteCopy(c)
  <2>1. req[c].table \in RdbTables \ {"rdb_instances"}
    BY <1>2, LocalsTyped, RdbTablesGiven DEF WriteCopy, DeleteCopy, Ready
  <2>2. QED BY <1>2, <2>1, OtherTablesServe, StatementsServe, WaitingServes
            DEF WriteCopy, DeleteCopy
<1>3. CASE SetPrivileges(c)
  <2>1. DOMAIN db = RdbTables /\ "rdb_instances" \in RdbTables
    BY RdbTablesGiven DEF Ready, Good, Typed
  <2>2. db'["rdb_instances"] = db["rdb_instances"]
    BY <1>3, <2>1 DEF SetPrivileges
  <2>3. QED BY <2>2, SameListsServe DEF SameLists
<1>4. CASE WriteDoc(c)
  <2>1. req[c].table \in RdbTables \ {"rdb_instances"}
    BY <1>4, LocalsTyped, RdbTablesGiven DEF WriteDoc, WritesAList, Ready, CopyTables
  <2>2. QED BY <1>4, <2>1, OtherTablesServe DEF WriteDoc
<1>5. QED BY <1>1, <1>2, <1>3, <1>4

\* A handler that is about to write a list does nothing else.
LEMMA ListWritersWrite ==
  ASSUME NEW c, Arrive(c) \/ Proceed(c), WritesAList(req[c])
  PROVE  WriteDoc(c)
<1>1. req[c].at = "WriteDoc"
  BY DEF WritesAList
<1>2. ~Arrive(c)
  BY <1>1 DEF Arrive, Idle, CreatePrivateNetwork, DeletePrivateNetwork, BeginCreateInstance,
     CreateInstanceFromSnapshot, UpgradeInstance, BeginDeleteInstance, BeginCreateEndpoint,
     DeleteEndpoint, CreateDatabase, DeleteDatabase, CreateUser, ReadUser, DeleteUser,
     BeginSetPrivileges, BeginSetACLs, BeginDeleteACLs, CreateCopy, ReadCopy,
     CreateReplicaEndpoint, BeginDeleteCopy
<1>3. QED
  BY <1>1, <1>2 DEF Proceed, CheckInitNetwork, InsertInstance, ReadInstance, Idle,
     WriteInstance, DeleteInstance, CheckEndpointNetwork, WriteUser, SetPrivileges,
     WriteACLs, DeleteAllACLs, DeleteSomeACLs, ReadACLs, WriteCopy, DeleteCopy

\* Every step.
LEMMA StepsServe ==
  ASSUME Ready, NEW c \in Clients, Arrive(c) \/ Proceed(c),
         Tidy(issued, db), Relies(issued, db, req[c])
  PROVE  Served(c)
<1>1. issued \subseteq issued'
  BY ActionsStep
<1>2. CASE WritesAList(req[c])
  BY <1>2, ListWritersWrite, WrittenListServes
<1>3. CASE ~WritesAList(req[c])
  <2>1. CASE \/ CreatePrivateNetwork(c) \/ DeletePrivateNetwork(c)
             \/ CreateDatabase(c) \/ DeleteDatabase(c) \/ CreateUser(c) \/ DeleteUser(c)
             \/ CreateCopy(c)
    BY <1>1, <1>3, <2>1, StatementsServe, RdbTablesGiven
       DEF CreatePrivateNetwork, DeletePrivateNetwork, CreateDatabase, DeleteDatabase,
           CreateUser, DeleteUser, CreateCopy
  <2>2. CASE \/ BeginCreateInstance(c) \/ CreateInstanceFromSnapshot(c) \/ UpgradeInstance(c)
             \/ ReadInstance(c) \/ BeginDeleteInstance(c) \/ BeginCreateEndpoint(c)
             \/ DeleteEndpoint(c) \/ ReadUser(c) \/ BeginSetPrivileges(c) \/ BeginSetACLs(c)
             \/ BeginDeleteACLs(c) \/ ReadCopy(c) \/ CreateReplicaEndpoint(c)
             \/ BeginDeleteCopy(c)
    <3>1. UNCHANGED db
      BY <2>2 DEF BeginCreateInstance, CreateInstanceFromSnapshot, UpgradeInstance,
         ReadInstance, BeginDeleteInstance, BeginCreateEndpoint, DeleteEndpoint, ReadUser,
         BeginSetPrivileges, BeginSetACLs, BeginDeleteACLs, ReadCopy, CreateReplicaEndpoint,
         BeginDeleteCopy, Read
    <3>2. QED BY <1>1, <1>3, <3>1, WaitingServes
  <2>3. CASE CheckInitNetwork(c) \/ CheckEndpointNetwork(c) \/ DeleteSomeACLs(c) \/ ReadACLs(c)
    <3>1. UNCHANGED db
      BY <2>3 DEF CheckInitNetwork, CheckEndpointNetwork, DeleteSomeACLs, ReadACLs, Read
    <3>2. QED BY <1>1, <1>3, <3>1, WaitingServes
  <2>4. CASE Arrive(c)
    BY <2>1, <2>2, <2>4 DEF Arrive
  <2>5. CASE Proceed(c)
    BY <1>1, <1>3, <2>2, <2>3, <2>5, UpdatesServe, InsertInstanceServes,
       DeleteInstanceServes, OtherActionsServe DEF Proceed
  <2>6. QED BY <2>4, <2>5
<1>4. QED BY <1>2, <1>3

-----------------------------------------------------------------------------
(***************************************************************************)
(* The invariant of requests that come one at a time, and what follows.    *)
(***************************************************************************)

\* When one client sends requests, the others stay idle, and nothing that its handler
\* relies on changes in between.
SerialInv ==
  /\ IInv
  /\ active \subseteq Clients
  /\ Serial => /\ Tidy(issued, db)
               /\ \A c \in Clients : Relies(issued, db, req[c]) /\ (Idle(c) \/ c \in active)

\* It holds at the beginning.
LEMMA InitIsSerial == Init /\ active \in (SUBSET Clients) \ {{}} => SerialInv
<1> SUFFICES ASSUME Init, active \in (SUBSET Clients) \ {{}} PROVE SerialInv
  OBVIOUS
<1>1. Tidy(issued, db)
  BY RdbTablesGiven DEF Init, Tidy, EmptyTable
<1>2. \A c \in Clients : Relies(issued, db, req[c]) /\ Idle(c)
  BY OthersRelyOnNothing DEF Init, Idle, Answered
<1>3. QED BY <1>1, <1>2, InitFits DEF SerialInv

\* A step of the only handler keeps it, and does to the lists what it should.
LEMMA SerialStep ==
  ASSUME SerialInv, SomeNext
  PROVE  /\ SerialInv'
         /\ Serial => AddsEndpointsOnLiveNetworks /\ EndpointsComeAndGoOneByOne
<1>1. PICK c \in active : Arrive(c) \/ Proceed(c)
  BY DEF SomeNext
<1>2. c \in Clients /\ active \subseteq Clients /\ active' = active /\ Ready
  BY DEF SerialInv, SomeNext, IInv, Ready
<1>3. IInv'
  BY <1>1, <1>2, StepKeepsInvariant DEF SerialInv, Next
<1>4. CASE ~Serial
  BY <1>2, <1>3, <1>4 DEF SerialInv, Serial
<1>5. CASE Serial
  <2>1. \A d \in Clients \ {c} : req'[d] = req[d] /\ Idle(d)
    <3>1. \A d \in Clients \ {c} : req'[d] = req[d]
      BY <1>1, <1>2, ActionsStep DEF Handled, Ready
    <3>2. QED BY <1>1, <1>5, <3>1 DEF SerialInv, Serial
  <2>2. Tidy(issued, db) /\ Relies(issued, db, req[c])
    BY <1>2, <1>5 DEF SerialInv
  <2>3. Relies(issued', db', req'[c])
    BY <1>1, <1>2, <2>2, StepsRely
  <2>4. Served(c)
    BY <1>1, <1>2, <2>2, StepsServe
  <2>5. \A d \in Clients : /\ Relies(issued', db', req'[d])
                           /\ req'[d].at = "answered" \/ d \in active
    BY <1>1, <2>1, <2>3, OthersRelyOnNothing DEF Idle
  <2>6. SerialInv'
    BY <1>2, <1>3, <2>4, <2>5 DEF SerialInv, Served, Idle
  <2>7. EndpointsComeAndGoOneByOne
    <3>1. \A d \in Clients : \A i : WritesList(d, i) => d = c
      BY <2>1 DEF WritesList, Idle
    <3>2. \A eps : ListChange(eps, eps, {}, {})
      BY DEF ListChange, Ids
    <3>3. QED BY <1>2, <2>4, <3>1, <3>2 DEF Served, ListsServed, EndpointsComeAndGoOneByOne
  <2>8. QED BY <2>4, <2>6, <2>7 DEF Served
<1>6. QED BY <1>4, <1>5

\* The invariant holds in every state.
LEMMA SerialInvariant == SomeSpec => []SerialInv
<1>1. SerialInv /\ [SomeNext]_<<vars, active>> => SerialInv'
  <2> SUFFICES ASSUME SerialInv, [SomeNext]_<<vars, active>> PROVE SerialInv'
    OBVIOUS
  <2>1. CASE UNCHANGED <<vars, active>>
    <3>1. IInv'
      BY <2>1, StepKeepsInvariant DEF SerialInv
    <3>2. QED BY <2>1, <3>1 DEF SerialInv, Serial, Tidy, Relies, Idle, vars
  <2>2. QED BY <2>1, SerialStep
<1>2. QED BY <1>1, InitIsSerial, PTL DEF SomeSpec

\* One request at a time, an endpoint enters the list of its instance by its own creation
\* only, on a private network that is there, and leaves it by its own deletion only.
THEOREM SerialEndpointsAreKept == SomeSpec => SerialEndpointsComeAndGoOneByOne
<1>1. SerialInv /\ [SomeNext]_<<vars, active>> =>
        [Serial => AddsEndpointsOnLiveNetworks /\ EndpointsComeAndGoOneByOne]_vars
  BY SerialStep
<1>2. QED BY <1>1, SerialInvariant, PTL DEF SomeSpec, SerialEndpointsComeAndGoOneByOne

=============================================================================
