------------------------------ MODULE StateDump ------------------------------
(***************************************************************************)
(* The state dumps of the administration API: GET /mock/state reads the    *)
(* tables of all services, GET /mock/state/{service} those of one, one     *)
(* statement for each table and no transaction around them, while requests *)
(* of all services go on.                                                  *)
(*                                                                         *)
(* What a dump shows of a row is its document.  Here it is the columns:    *)
(* that documents say what the columns say is for the modules of the       *)
(* services.  The members of all groups are read in one step.              *)
(***************************************************************************)
EXTENDS WholeSchema

VARIABLES
  order,   \* the tables the dump being taken reads; <<>> if there is none
  pos,     \* how many of them it has read
  seen,    \* what it has read: seen[t] is table t as it was
  came,    \* history: came[t] are the rows inserted since the dump began
  gone     \* history: gone[t] are those deleted since

dumpVars == <<db, order, pos, seen, came, gone>>

\* Faulty FullOrder: the snapshots of volumes before the volumes.
FullOrderSwapped ==
  << "instance_servers", "instance_ips", "instance_private_nics",
     "instance_security_groups", "instance_volumes", "vpcs", "private_networks", "lb_ips",
     "lbs", "lb_frontends", "lb_backends", "lb_private_networks", "k8s_clusters",
     "k8s_pools", "rdb_instances", "rdb_databases", "rdb_users", "rdb_privileges",
     "redis_clusters", "registry_namespaces", "iam_applications", "iam_api_keys",
     "iam_policies", "iam_ssh_keys", "domain_records", "iam_users", "iam_groups",
     "iam_group_members", "block_snapshots", "block_volumes", "ipam_ips",
     "rdb_read_replicas", "rdb_snapshots", "rdb_backups", "lb_acls", "lb_routes",
     "lb_certificates", "dns_zones", "vpc_routes", "vpc_public_gateways",
     "vpc_gateway_networks" >>

FullOrder ==
  << "instance_servers", "instance_ips", "instance_private_nics",
     "instance_security_groups", "instance_volumes", "vpcs", "private_networks", "lb_ips",
     "lbs", "lb_frontends", "lb_backends", "lb_private_networks", "k8s_clusters",
     "k8s_pools", "rdb_instances", "rdb_databases", "rdb_users", "rdb_privileges",
     "redis_clusters", "registry_namespaces", "iam_applications", "iam_api_keys",
     "iam_policies", "iam_ssh_keys", "domain_records", "iam_users", "iam_groups",
     "iam_group_members", "block_volumes", "block_snapshots", "ipam_ips",
     "rdb_read_replicas", "rdb_snapshots", "rdb_backups", "lb_acls", "lb_routes",
     "lb_certificates", "dns_zones", "vpc_routes", "vpc_public_gateways",
     "vpc_gateway_networks" >>

ServiceOrders ==
  { <<"instance_servers", "instance_ips", "instance_private_nics",
      "instance_security_groups", "instance_volumes">>,
    <<"vpcs", "private_networks", "vpc_routes", "vpc_public_gateways",
      "vpc_gateway_networks">>,
    <<"lb_ips", "lbs", "lb_frontends", "lb_backends", "lb_private_networks", "lb_acls",
      "lb_routes", "lb_certificates">>,
    <<"k8s_clusters", "k8s_pools">>,
    <<"rdb_instances", "rdb_databases", "rdb_users", "rdb_privileges",
      "rdb_read_replicas", "rdb_snapshots", "rdb_backups">>,
    <<"redis_clusters">>,
    <<"registry_namespaces">>,
    <<"iam_applications", "iam_api_keys", "iam_policies", "iam_ssh_keys", "iam_users",
      "iam_groups", "iam_group_members">>,
    <<"block_volumes", "block_snapshots">>,
    <<"ipam_ips">>,
    <<"dns_zones", "domain_records">> }

NothingSeen == [t \in {} |-> EmptyTable]
NoRows == [t \in Tables |-> {}]

NoDump ==
  /\ order = <<>> /\ pos = 0 /\ seen = NothingSeen
  /\ came = NoRows /\ gone = NoRows

Begin(tables) ==
  /\ order = <<>>
  /\ order' = tables
  /\ UNCHANGED <<db, pos, seen, came, gone>>

FullState == Begin(FullOrder)

ServiceState == \E tables \in ServiceOrders : Begin(tables)

\* listJSON of a whole table.
ReadTable ==
  LET t == order[pos + 1] IN
  /\ pos < Len(order)
  /\ pos' = pos + 1
  /\ seen' = [u \in DOMAIN seen \cup {t} |-> IF u = t THEN db[t] ELSE seen[u]]
  /\ UNCHANGED <<db, order, came, gone>>

SendDump ==
  /\ order # <<>> /\ pos = Len(order)
  /\ order' = <<>> /\ pos' = 0 /\ seen' = NothingSeen
  /\ came' = NoRows /\ gone' = NoRows
  /\ UNCHANGED db

\* A statement of a request, whatever service it is of.
RequestDuringDump(T) ==
  /\ Statement(T)
  /\ IF order = <<>>
     THEN UNCHANGED <<came, gone>>
     ELSE /\ came' = [t \in Tables |-> came[t] \cup (DOMAIN db'[t] \ DOMAIN db[t])]
          /\ gone' = [t \in Tables |-> gone[t] \cup (DOMAIN db[t] \ DOMAIN db'[t])]
  /\ UNCHANGED <<order, pos, seen>>

DumpInit == InitTables /\ NoDump

DumpNext == FullState \/ ServiceState \/ ReadTable \/ SendDump \/ RequestDuringDump(Tables)

DumpSpec == DumpInit /\ [][DumpNext]_dumpVars

-----------------------------------------------------------------------------
(***************************************************************************)
(* What a dump promises.                                                   *)
(***************************************************************************)

\* The keys whose documents a dump can rely on.  The document of a server can name a
\* group that is gone for good, see InstanceProperties.
ShownKeys == {fk \in AllKeys : fk.parent # "instance_security_groups"}

\* The one key whose children FullState reads before their parents.
ChildFirst == {fk \in ShownKeys : fk.child = "instance_private_nics" /\ fk.parent = "private_networks"}

\* Reading table after table without a transaction, a dump shows every resource together
\* with what it refers to, except for what was created while the dump was taken or, of the
\* networks of private NICs, which are read after the NICs, what was deleted meanwhile.
DumpsAreClosed ==
  \A fk \in {g \in ShownKeys : {g.child, g.parent} \subseteq DOMAIN seen} :
    \A k \in DOMAIN seen[fk.child] :
      seen[fk.child][k][fk.col]
        \in DOMAIN seen[fk.parent] \cup {Null}
              \cup (IF fk \in ChildFirst THEN gone[fk.parent] ELSE came[fk.parent])

=============================================================================
