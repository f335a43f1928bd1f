----------------------------- MODULE RdbService -----------------------------
(***************************************************************************)
(* The Managed Database API: instances with their endpoints, databases,    *)
(* users, privileges, ACL rules, and read replicas, snapshots and backups. *)
(*                                                                         *)
(* Endpoints and ACL rules are lists inside a document: handlers read the  *)
(* document, change the list and write the document back.  Everything but  *)
(* private networks refers to its instance through a CASCADE key; the      *)
(* network of an endpoint is named in the document only.                   *)
(***************************************************************************)
EXTENDS Handlers, FiniteSets

CONSTANTS
  Instances, Endpoints, Copies, Networks,   \* uuids newID can return
  Users, Databases,                         \* names clients choose, and use again
  RuleIPs,                                  \* addresses ACL rules are about
  MaxInitEndpoints,                         \* bound: endpoints of a create request
  MaxPrivileges                             \* bound: privileges of a request

ASSUME RdbBoundsAreNat == MaxInitEndpoints \in Nat /\ MaxPrivileges \in Nat

\* A uuid is not empty.
ASSUME RdbIdsAreNotNull == Null \notin Instances \cup Networks

CopyTables == {"rdb_read_replicas", "rdb_snapshots", "rdb_backups"}
RdbTables == CopyTables \cup {"rdb_instances", "rdb_databases", "rdb_users",
                              "rdb_privileges", "rdb_acls", "private_networks"}

Keys == RdbKeys \cup RdbCopyKeys

(***************************************************************************)
(* Rows.  An endpoint without a private network is a public one; what a    *)
(* client puts elsewhere than under "private_network" is not looked at.    *)
(***************************************************************************)
Endpoint(e, network) == [id |-> e, network |-> network]
InstanceRow(endpoints) == [endpoints |-> endpoints]
BelowInstance(i) == [instance_id |-> i]
UserRow(i, admin) == [instance_id |-> i, is_admin |-> admin]
AclRow(i, rules) == [instance_id |-> i, rules |-> rules]

\* Faulty CopyRow: the column is not taken from the document.
CopyRowWithoutInstance(i, endpoints) == [instance_id |-> Null, endpoints |-> endpoints]

CopyRow(i, endpoints) == [instance_id |-> i, endpoints |-> endpoints]
NetworkRow == [doc |-> Null]

-----------------------------------------------------------------------------
(***************************************************************************)
(* updateJSONByID, which answers 404 when it meets no row, and networks.   *)
(***************************************************************************)
WriteDoc(c) ==
  LET r == req[c] IN
  /\ r.at = "WriteDoc"
  /\ UNCHANGED issued
  /\ db' = UpdateRow(db, r.table, r.key, r.row)
  /\ Answer(c, IF Found(r.table, r.key) THEN "ok" ELSE "not_found")

CreatePrivateNetwork(c) ==
  Idle(c) /\ \E n \in Networks : CreateSimple(Keys, c, "private_networks", n, NetworkRow)

DeletePrivateNetwork(c) ==
  Idle(c) /\ \E n \in Networks : DeleteBy(Keys, c, "private_networks", n)

-----------------------------------------------------------------------------
(***************************************************************************)
(* Instances.  The list of initial endpoints is a set here; each of its    *)
(* private networks is looked up, then the instance is inserted.  Without  *)
(* a list the instance gets one public endpoint.                           *)
(***************************************************************************)
InitEndpoints ==
  {eps \in SUBSET {Endpoint(e, n) : e \in Endpoints \ issued, n \in Networks \cup {Null}} :
     /\ Cardinality(eps) \in 1..MaxInitEndpoints
     /\ \A x, y \in eps : x.id = y.id => x = y}

BeginCreateInstance(c) ==
  /\ Idle(c)
  /\ UNCHANGED db
  /\ \E eps \in InitEndpoints :
       /\ issued' = issued \cup {x.id : x \in eps}
       /\ Continue(c, [at |-> "CreateInstance", endpoints |-> eps,
                       todo |-> {x.network : x \in eps} \ {Null}])

CheckInitNetwork(c) ==
  LET r == req[c] IN
  /\ r.at = "CreateInstance"
  /\ \E n \in r.todo : Read(c, "private_networks", n, [r EXCEPT !.todo = @ \ {n}])

InsertInstance(c) ==
  /\ req[c].at = "CreateInstance" /\ req[c].todo = {}
  /\ \E i \in Instances :
       CreateSimple(Keys, c, "rdb_instances", i, InstanceRow(req[c].endpoints))

CreateInstanceFromSnapshot(c) ==
  /\ Idle(c)
  /\ UNCHANGED db
  /\ \E s \in Copies :
       \/ /\ Found("rdb_snapshots", s)
          /\ \E e \in Endpoints \ issued :
               /\ issued' = issued \cup {e}
               /\ Continue(c, [at |-> "CreateInstance", endpoints |-> {Endpoint(e, Null)},
                               todo |-> {}])
       \/ ~Found("rdb_snapshots", s) /\ Answer(c, "not_found") /\ UNCHANGED issued

\* UpgradeRDBInstance looks the instance up and then updates it.
UpgradeInstance(c) ==
  Idle(c) /\ \E i \in Instances :
    Read(c, "rdb_instances", i, [at |-> "UpdateInstance", instance |-> i])

ReadInstance(c) ==
  /\ Idle(c) \/ req[c].at = "UpdateInstance"
  /\ \E i \in Instances :
       /\ ~Idle(c) => req[c].instance = i
       /\ Read(c, "rdb_instances", i, [at |-> "WriteInstance", instance |-> i,
                                       row |-> db["rdb_instances"][i]])

\* Answers 200 even if the row is gone.
WriteInstance(c) ==
  /\ req[c].at = "WriteInstance"
  /\ UNCHANGED issued
  /\ db' = UpdateRow(db, "rdb_instances", req[c].instance, req[c].row)
  /\ Answer(c, "ok")

BeginDeleteInstance(c) ==
  Idle(c) /\ \E i \in Instances :
    Read(c, "rdb_instances", i, [at |-> "DeleteInstance", instance |-> i])

DeleteInstance(c) ==
  req[c].at = "DeleteInstance" /\ DeleteBy(Keys, c, "rdb_instances", req[c].instance)

-----------------------------------------------------------------------------
(***************************************************************************)
(* Endpoints: the document read by the first statement is written back by  *)
(* the last, one endpoint longer or shorter; that endpoint, to be added or *)
(* to be dropped, is a local of the handler.                               *)
(***************************************************************************)
WriteEndpoints(i, eps, adds, drops) ==
  [at |-> "WriteDoc", table |-> "rdb_instances", key |-> i, row |-> InstanceRow(eps),
   adds |-> adds, drops |-> drops]

BeginCreateEndpoint(c) ==
  /\ Idle(c)
  /\ UNCHANGED db
  /\ \E i \in Instances :
       \/ /\ Found("rdb_instances", i)
          /\ \E e \in Endpoints \ issued, n \in Networks \cup {Null} :
               /\ issued' = issued \cup {e}
               /\ Continue(c, [at |-> "CreateEndpoint", instance |-> i,
                               row |-> db["rdb_instances"][i], endpoint |-> Endpoint(e, n)])
       \/ ~Found("rdb_instances", i) /\ Answer(c, "not_found") /\ UNCHANGED issued

\* Faulty CheckEndpointNetwork: the list is started afresh.
CheckEndpointNetworkAlone(c) ==
  LET r == req[c] IN
  /\ r.at = "CreateEndpoint"
  /\ Read(c, "private_networks", r.endpoint.network,
          WriteEndpoints(r.instance, {r.endpoint}, {r.endpoint.id}, {}))

CheckEndpointNetwork(c) ==
  LET r == req[c]
      next == WriteEndpoints(r.instance, r.row.endpoints \cup {r.endpoint},
                             {r.endpoint.id}, {}) IN
  /\ r.at = "CreateEndpoint"
  /\ \/ r.endpoint.network = Null /\ Continue(c, next) /\ UNCHANGED <<db, issued>>
     \/ r.endpoint.network # Null /\ Read(c, "private_networks", r.endpoint.network, next)

DeleteEndpoint(c) ==
  /\ Idle(c)
  /\ UNCHANGED <<db, issued>>
  /\ \E e \in Endpoints :
       LET owners == {i \in DOMAIN db["rdb_instances"] :
                        \E x \in db["rdb_instances"][i].endpoints : x.id = e} IN
       \/ \E i \in owners : Continue(c, WriteEndpoints(i,
            {x \in db["rdb_instances"][i].endpoints : x.id # e}, {}, {e}))
       \/ owners = {} /\ Answer(c, "not_found")

-----------------------------------------------------------------------------
(***************************************************************************)
(* Databases and users, under names.                                       *)
(***************************************************************************)
CreateDatabase(c) ==
  /\ Idle(c) /\ UNCHANGED issued
  /\ \E i \in Instances, n \in Databases :
       InsertJSON(Keys, c, "rdb_databases", <<i, n>>, BelowInstance(i))

DeleteDatabase(c) ==
  Idle(c) /\ \E i \in Instances, n \in Databases : DeleteBy(Keys, c, "rdb_databases", <<i, n>>)

CreateUser(c) ==
  /\ Idle(c) /\ UNCHANGED issued
  /\ \E i \in Instances, n \in Users, admin \in BOOLEAN :
       InsertJSON(Keys, c, "rdb_users", <<i, n>>, UserRow(i, admin))

ReadUser(c) ==
  Idle(c) /\ \E i \in Instances, n \in Users, admin \in BOOLEAN :
    LET row == db["rdb_users"][<<i, n>>] IN
    \/ Read(c, "rdb_users", <<i, n>>, [at |-> "WriteUser", key |-> <<i, n>>, row |-> row])
    \/ Read(c, "rdb_users", <<i, n>>,
            [at |-> "WriteUser", key |-> <<i, n>>, row |-> [row EXCEPT !.is_admin = admin]])

WriteUser(c) ==
  /\ req[c].at = "WriteUser"
  /\ UNCHANGED issued
  /\ db' = UpdateRow(db, "rdb_users", req[c].key, req[c].row)
  /\ Answer(c, "ok")

DeleteUser(c) ==
  Idle(c) /\ \E i \in Instances, n \in Users : DeleteBy(Keys, c, "rdb_users", <<i, n>>)

-----------------------------------------------------------------------------
(***************************************************************************)
(* Privileges: one transaction deletes all of an instance and inserts the  *)
(* list of the request.  A pair that occurs twice makes it roll back.  A   *)
(* body as the OpenAPI description has it, one privilege without a list,   *)
(* is an empty list to the handler.                                        *)
(***************************************************************************)
PrivilegeLists == UNION {[1..n -> Users \X Databases] : n \in 0..MaxPrivileges}

NoPairTwice(list) == \A x, y \in DOMAIN list : list[x] = list[y] => x = y

PrivilegeKeys(i, list) == {<<i, list[x][1], list[x][2]>> : x \in DOMAIN list}

\* The table with the rows of instance i replaced by those of the keys.
WithPrivileges(t, i, keys) ==
  LET kept == {k \in DOMAIN t : t[k].instance_id # i} IN
  [k \in kept \cup keys |-> IF k \in keys THEN BelowInstance(i) ELSE t[k]]

BeginSetPrivileges(c) ==
  Idle(c) /\ \E i \in Instances, list \in PrivilegeLists :
    Read(c, "rdb_instances", i, [at |-> "SetPrivileges", instance |-> i, list |-> list])

\* Faulty SetPrivileges: a statement of its own for each privilege, no transaction.
SetPrivilegesUpToDuplicate(c) ==
  LET r == req[c] IN
  /\ r.at = "SetPrivileges"
  /\ UNCHANGED issued
  /\ db' = IF Found("rdb_instances", r.instance)
           THEN [db EXCEPT !["rdb_privileges"] =
                   WithPrivileges(@, r.instance, PrivilegeKeys(r.instance, r.list))]
           ELSE db
  /\ Answer(c, IF NoPairTwice(r.list) THEN "ok" ELSE "conflict")

SetPrivileges(c) ==
  LET r == req[c] IN
  /\ r.at = "SetPrivileges"
  /\ UNCHANGED issued
  /\ \/ /\ r.list # <<>> /\ ~Found("rdb_instances", r.instance)
        /\ Answer(c, "not_found")
        /\ UNCHANGED db
     \/ /\ ~NoPairTwice(r.list) /\ Found("rdb_instances", r.instance)
        /\ Answer(c, "conflict")
        /\ UNCHANGED db
     \/ /\ NoPairTwice(r.list)
        /\ r.list # <<>> => Found("rdb_instances", r.instance)
        /\ db' = [db EXCEPT !["rdb_privileges"] =
                    WithPrivileges(@, r.instance, PrivilegeKeys(r.instance, r.list))]
        /\ Answer(c, "ok")

-----------------------------------------------------------------------------
(***************************************************************************)
(* ACL rules, of which the document of an instance's row in rdb_acls has   *)
(* the list; rules are identified by their address.  SetRDBACLs inserts or *)
(* overwrites the row.  DeleteRDBACLs deletes it, or, if the handler found *)
(* addresses under "acl_rules_ips", reads the list and writes the rest.    *)
(* The field is called "acl_rule_ips" in the OpenAPI description, and its  *)
(* clients send that.                                                      *)
(***************************************************************************)
DeleteACLBodies == {[acl_rule_ips |-> ips] : ips \in SUBSET RuleIPs}
                     \cup {[acl_rules_ips |-> ips] : ips \in SUBSET RuleIPs}

IPsRead(body) == IF "acl_rules_ips" \in DOMAIN body THEN body.acl_rules_ips ELSE {}

Rules(d, i) == IF i \in DOMAIN d["rdb_acls"] THEN d["rdb_acls"][i].rules ELSE {}

BeginSetACLs(c) ==
  Idle(c) /\ \E i \in Instances, rules \in SUBSET RuleIPs :
    Read(c, "rdb_instances", i, [at |-> "WriteACLs", instance |-> i, rules |-> rules,
                                 body |-> [rules |-> rules]])

\* INSERT ... ON CONFLICT DO UPDATE
WriteACLs(c) ==
  LET r == req[c]
      row == AclRow(r.instance, r.rules) IN
  /\ r.at = "WriteACLs"
  /\ UNCHANGED issued
  /\ \/ /\ RowOK(Keys, db, "rdb_acls", row)
        /\ db' = InsertRow(db, "rdb_acls", r.instance, row)
        /\ Answer(c, "ok")
     \/ /\ ~RowOK(Keys, db, "rdb_acls", row)
        /\ Answer(c, "not_found")
        /\ UNCHANGED db

BeginDeleteACLs(c) ==
  Idle(c) /\ \E i \in Instances, body \in DeleteACLBodies :
    Read(c, "rdb_instances", i, [at |-> "DeleteACLs", instance |-> i, body |-> body])

DeleteAllACLs(c) ==
  LET r == req[c] IN
  /\ r.at = "DeleteACLs" /\ IPsRead(r.body) = {}
  /\ UNCHANGED issued
  /\ db' = DeleteRow(Keys, db, "rdb_acls", r.instance)
  /\ Answer(c, "ok")

\* ListRDBACLs looks the instance up once more.
DeleteSomeACLs(c) ==
  LET r == req[c] IN
  /\ r.at = "DeleteACLs" /\ IPsRead(r.body) # {}
  /\ Read(c, "rdb_instances", r.instance, [r EXCEPT !.at = "ReadACLs"])

ReadACLs(c) ==
  LET r == req[c] IN
  /\ r.at = "ReadACLs"
  /\ UNCHANGED <<db, issued>>
  /\ Continue(c, [at |-> "WriteACLs", instance |-> r.instance, body |-> r.body,
                  rules |-> Rules(db, r.instance) \ IPsRead(r.body)])

-----------------------------------------------------------------------------
(***************************************************************************)
(* Read replicas, snapshots and backups.                                   *)
(***************************************************************************)
CreateCopy(c) ==
  Idle(c) /\ \E t \in CopyTables, k \in Copies, i \in Instances :
    CreateSimple(Keys, c, t, k, CopyRow(i, {}))

\* UpdateRDBSnapshot and UpdateRDBBackup take a patched instance_id into the document,
\* write the column from it and do not ask whether they met a row.
ReadCopy(c) ==
  Idle(c) /\ \E t \in {"rdb_snapshots", "rdb_backups"}, k \in Copies, i \in Instances :
    Read(c, t, k, [at |-> "WriteCopy", table |-> t, key |-> k,
                   row |-> [db[t][k] EXCEPT !.instance_id = i]])

WriteCopyOK(r) == Found(r.table, r.key) => RowOK(Keys, db, r.table, r.row)

WriteCopy(c) ==
  LET r == req[c] IN
  /\ r.at = "WriteCopy"
  /\ UNCHANGED issued
  /\ \/ /\ WriteCopyOK(r)
        /\ db' = UpdateRow(db, r.table, r.key, r.row)
        /\ Answer(c, "ok")
     \/ /\ ~WriteCopyOK(r)
        /\ Answer(c, "not_found")
        /\ UNCHANGED db

CreateReplicaEndpoint(c) ==
  /\ Idle(c)
  /\ UNCHANGED db
  /\ \E k \in Copies :
       \/ /\ Found("rdb_read_replicas", k)
          /\ \E e \in Endpoints \ issued :
               /\ issued' = issued \cup {e}
               /\ Continue(c, [at |-> "WriteDoc", table |-> "rdb_read_replicas", key |-> k,
                               row |-> [db["rdb_read_replicas"][k] EXCEPT !.endpoints =
                                          @ \cup {Endpoint(e, Null)}]])
       \/ ~Found("rdb_read_replicas", k) /\ Answer(c, "not_found") /\ UNCHANGED issued

BeginDeleteCopy(c) ==
  Idle(c) /\ \E t \in CopyTables, k \in Copies :
    Read(c, t, k, [at |-> "DeleteCopy", table |-> t, key |-> k])

DeleteCopy(c) ==
  req[c].at = "DeleteCopy" /\ DeleteBy(Keys, c, req[c].table, req[c].key)

-----------------------------------------------------------------------------
Init ==
  /\ db = [t \in RdbTables |-> EmptyTable]
  /\ issued = {}
  /\ req = [c \in Clients |-> Answered("ok")]

Arrive(c) ==
  \/ CreatePrivateNetwork(c) \/ DeletePrivateNetwork(c)
  \/ BeginCreateInstance(c) \/ CreateInstanceFromSnapshot(c) \/ UpgradeInstance(c)
  \/ Idle(c) /\ ReadInstance(c)
  \/ BeginDeleteInstance(c) \/ BeginCreateEndpoint(c) \/ DeleteEndpoint(c)
  \/ CreateDatabase(c) \/ DeleteDatabase(c)
  \/ CreateUser(c) \/ ReadUser(c) \/ DeleteUser(c)
  \/ BeginSetPrivileges(c) \/ BeginSetACLs(c) \/ BeginDeleteACLs(c)
  \/ CreateCopy(c) \/ ReadCopy(c) \/ CreateReplicaEndpoint(c) \/ BeginDeleteCopy(c)

Proceed(c) ==
  \/ CheckInitNetwork(c) \/ InsertInstance(c)
  \/ ~Idle(c) /\ ReadInstance(c)
  \/ WriteInstance(c) \/ DeleteInstance(c) \/ CheckEndpointNetwork(c) \/ WriteDoc(c)
  \/ WriteUser(c) \/ SetPrivileges(c)
  \/ WriteACLs(c) \/ DeleteAllACLs(c) \/ DeleteSomeACLs(c) \/ ReadACLs(c)
  \/ WriteCopy(c) \/ DeleteCopy(c)

Next == \E c \in Clients : Arrive(c) \/ Proceed(c)

Spec == Init /\ [][Next]_vars

=============================================================================
