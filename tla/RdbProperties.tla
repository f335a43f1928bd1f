---------------------------- MODULE RdbProperties ----------------------------
(***************************************************************************)
(* What the Managed Database API must keep true: first for any number of   *)
(* concurrent clients, then for requests that come one at a time, which    *)
(* MCRdb states.                                                           *)
(***************************************************************************)
EXTENDS RdbService

EndpointRecords == [id : Endpoints, network : Networks \cup {Null}]
InstanceRows == [endpoints : SUBSET EndpointRecords]
UserRows     == [instance_id : Instances, is_admin : BOOLEAN]
MovedTables  == {"rdb_snapshots", "rdb_backups"}
CopyRows     == [instance_id : Instances, endpoints : SUBSET EndpointRecords]
Bodies       == DeleteACLBodies \cup [rules : SUBSET RuleIPs]

IdsOf(t) == CASE t = "rdb_instances"    -> Instances
              [] t = "rdb_databases"    -> Instances \X Databases
              [] t = "rdb_users"        -> Instances \X Users
              [] t = "rdb_privileges"   -> Instances \X Users \X Databases
              [] t = "rdb_acls"         -> Instances
              [] t \in CopyTables       -> Copies
              [] t = "private_networks" -> Networks

RowsOf(t) == CASE t = "rdb_instances"    -> InstanceRows
               [] t = "rdb_databases"    -> [instance_id : Instances]
               [] t = "rdb_users"        -> UserRows
               [] t = "rdb_privileges"   -> [instance_id : Instances]
               [] t = "rdb_acls"         -> [instance_id : Instances, rules : SUBSET RuleIPs]
               [] t \in CopyTables       -> CopyRows
               [] t = "private_networks" -> {NetworkRow}

Requests ==
  [at : {"answered"}, status : Statuses]
  \cup [at : {"CreateInstance"}, endpoints : SUBSET EndpointRecords, todo : SUBSET Networks]
  \cup [at : {"UpdateInstance", "DeleteInstance"}, instance : Instances]
  \cup [at : {"WriteInstance"}, instance : Instances, row : InstanceRows]
  \cup [at : {"CreateEndpoint"}, instance : Instances, row : InstanceRows,
        endpoint : EndpointRecords]
  \cup [at : {"WriteDoc"}, table : {"rdb_instances"}, key : Instances, row : InstanceRows,
        adds : SUBSET Endpoints, drops : SUBSET Endpoints]
  \cup [at : {"WriteDoc"}, table : {"rdb_read_replicas"}, key : Copies, row : CopyRows]
  \cup [at : {"WriteUser"}, key : Instances \X Users, row : UserRows]
  \cup [at : {"SetPrivileges"}, instance : Instances, list : PrivilegeLists]
  \cup [at : {"WriteACLs"}, instance : Instances, rules : SUBSET RuleIPs, body : Bodies]
  \cup [at : {"DeleteACLs", "ReadACLs"}, instance : Instances, body : DeleteACLBodies]
  \cup [at : {"WriteCopy"}, table : MovedTables, key : Copies, row : CopyRows]
  \cup [at : {"DeleteCopy"}, table : CopyTables, key : Copies]

\* Every table holds well-formed rows under keys of its own kind, a row below an
\* instance names the instance its key begins with, and every handler is at a
\* statement it can be at, with the locals it has there.
RdbTypeOK ==
  /\ DOMAIN db = RdbTables
  /\ \A t \in RdbTables : /\ DOMAIN db[t] \subseteq IdsOf(t)
                          /\ \A k \in DOMAIN db[t] : db[t][k] \in RowsOf(t)
  /\ \A t \in {"rdb_databases", "rdb_users", "rdb_privileges"} :
       \A k \in DOMAIN db[t] : db[t][k].instance_id = k[1]
  /\ \A i \in DOMAIN db["rdb_acls"] : db["rdb_acls"][i].instance_id = i
  /\ \A c \in Clients : req[c] \in Requests

-----------------------------------------------------------------------------
(***************************************************************************)
(* With any number of clients.                                             *)
(***************************************************************************)

Privilege == {fk \in Keys : fk.child = "rdb_privileges"}

Store == INSTANCE ReferentialStore
  WITH Kinds <- RdbTables, Nothing <- Null, Listed <- Privilege,
       Owns <- With(Keys, Cascade), Detaches <- With(Keys, SetNull),
       Blocks <- With(Keys, NoAction), rows <- ReferencesIn(Keys, db)

\* Databases, users, privileges, ACLs, replicas, snapshots and backups appear one by
\* one below an instance that is there, privileges as a whole list, and go all at once
\* when it goes, whichever handler was about to write one of them meanwhile.
RdbKeepsReferences == Store!Spec

Privileges(d, i) == {k \in DOMAIN d["rdb_privileges"] : k[1] = i}

\* "Replace all privileges atomically": the privileges of an instance are at any
\* time the whole list of one request that succeeded, or none if there was no such
\* request; a request that fails half-way through its list changes nothing.
PrivilegesAreReplacedAtOnce ==
  [][\A i \in Instances : Privileges(db', i) # Privileges(db, i) =>
       \/ Found("rdb_instances", i) /\ i \notin DOMAIN db'["rdb_instances"]
       \/ \E c \in Clients : /\ req[c].at = "SetPrivileges" /\ req[c].instance = i
                             /\ req'[c] = Answered("ok")
                             /\ Privileges(db', i) = PrivilegeKeys(i, req[c].list)]_vars

-----------------------------------------------------------------------------
(***************************************************************************)
(* With one request at a time.                                             *)
(***************************************************************************)
EndpointsOf(d, i) == d["rdb_instances"][i].endpoints

Ids(eps) == {x.id : x \in eps}

\* From one list to another the endpoints of adds come and those of drops go.
ListChange(old, new, adds, drops) == Ids(new \ old) = adds /\ Ids(old \ new) = drops

\* Client c is about to write the list of instance i for a request that creates or
\* deletes an endpoint.
WritesList(c, i) ==
  req[c].at = "WriteDoc" /\ req[c].table = "rdb_instances" /\ req[c].key = i

\* While an instance is there, its list changes only when a request that creates an
\* endpoint adds that endpoint, or one that deletes an endpoint drops that endpoint,
\* and nothing else changes with it; when the request is answered 2xx, it has changed.
EndpointsComeAndGoOneByOne ==
  \A i \in DOMAIN db["rdb_instances"] \cap DOMAIN db'["rdb_instances"] :
    LET Changes(adds, drops) == ListChange(EndpointsOf(db, i), EndpointsOf(db', i), adds, drops) IN
    /\ \/ Changes({}, {})
       \/ \E c \in Clients : WritesList(c, i) /\ Changes(req[c].adds, req[c].drops)
    /\ \A c \in Clients : WritesList(c, i) /\ req'[c] = Answered("ok") =>
         Changes(req[c].adds, req[c].drops)

\* An endpoint is added only if its private network exists.
AddsEndpointsOnLiveNetworks ==
  \A i \in DOMAIN db'["rdb_instances"] :
    LET before == IF Found("rdb_instances", i) THEN EndpointsOf(db, i) ELSE {} IN
    \A x \in EndpointsOf(db', i) \ before :
      x.network \in DOMAIN db["private_networks"] \cup {Null}

\* "Delete one or more ACL rules of a Database Instance": when a client is told that the
\* rules it named, in the field of the API description, were deleted, those rules are
\* gone, and no others.
DeletesRulesOfTheRequest ==
  [][\A c \in Clients :
       req[c].at \in {"DeleteACLs", "WriteACLs"} /\ "acl_rule_ips" \in DOMAIN req[c].body =>
         LET r == req[c] IN
         r.body.acl_rule_ips # {} /\ req'[c] = Answered("ok") =>
           Rules(db', r.instance) = Rules(db, r.instance) \ r.body.acl_rule_ips]_vars

=============================================================================
