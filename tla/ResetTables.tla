----------------------------- MODULE ResetTables -----------------------------
(***************************************************************************)
(* Reset over the whole schema: foreign keys off, then DELETE FROM one     *)
(* table after the other, each a transaction of its own, then foreign keys *)
(* on again.  The process may be killed between two of them, or a DELETE   *)
(* may fail: both leave the tables that are still to come as they are.     *)
(*                                                                         *)
(* Requests come between two resets only.  What happens to the connection, *)
(* the snapshot file and requests during a reset is in AdminState, with    *)
(* two tables.                                                             *)
(***************************************************************************)
EXTENDS WholeSchema

VARIABLES
  resetting,   \* a reset is running, with foreign keys off
  cleared          \* how many tables it has emptied

resetVars == <<db, resetting, cleared>>

\* Faulty ResetOrder: the VPCs before the private networks.
ResetOrderVpcsFirst ==
  << "lb_acls", "lb_routes", "lb_certificates", "lb_private_networks", "lb_frontends",
     "lb_backends", "lbs", "lb_ips", "block_snapshots", "block_volumes", "ipam_ips",
     "instance_private_nics", "instance_ips", "instance_servers",
     "instance_security_groups", "k8s_pools", "k8s_clusters", "rdb_backups",
     "rdb_snapshots", "rdb_read_replicas", "instance_volumes", "marketplace_labels",
     "rdb_acls", "rdb_privileges", "rdb_databases", "rdb_users", "rdb_instances",
     "redis_clusters", "registry_namespaces", "iam_rules", "iam_api_keys",
     "iam_policies", "iam_ssh_keys", "iam_group_members", "iam_groups", "iam_users",
     "iam_applications", "domain_records", "dns_zones", "vpc_gateway_networks",
     "vpc_public_gateways", "vpc_routes", "vpcs", "private_networks" >>

\* Faulty ResetOrder: a table was forgotten.
ResetOrderIncomplete ==
  << "lb_acls", "lb_routes", "lb_certificates", "lb_private_networks", "lb_frontends",
     "lb_backends", "lbs", "lb_ips", "block_snapshots", "block_volumes",
     "instance_private_nics", "instance_ips", "instance_servers",
     "instance_security_groups", "k8s_pools", "k8s_clusters", "rdb_backups",
     "rdb_snapshots", "rdb_read_replicas", "instance_volumes", "marketplace_labels",
     "rdb_acls", "rdb_privileges", "rdb_databases", "rdb_users", "rdb_instances",
     "redis_clusters", "registry_namespaces", "iam_rules", "iam_api_keys",
     "iam_policies", "iam_ssh_keys", "iam_group_members", "iam_groups", "iam_users",
     "iam_applications", "domain_records", "dns_zones", "vpc_gateway_networks",
     "vpc_public_gateways", "vpc_routes", "private_networks", "vpcs" >>

ResetOrder ==
  << "lb_acls", "lb_routes", "lb_certificates", "lb_private_networks", "lb_frontends",
     "lb_backends", "lbs", "lb_ips", "block_snapshots", "block_volumes", "ipam_ips",
     "instance_private_nics", "instance_ips", "instance_servers",
     "instance_security_groups", "k8s_pools", "k8s_clusters", "rdb_backups",
     "rdb_snapshots", "rdb_read_replicas", "instance_volumes", "marketplace_labels",
     "rdb_acls", "rdb_privileges", "rdb_databases", "rdb_users", "rdb_instances",
     "redis_clusters", "registry_namespaces", "iam_rules", "iam_api_keys",
     "iam_policies", "iam_ssh_keys", "iam_group_members", "iam_groups", "iam_users",
     "iam_applications", "domain_records", "dns_zones", "vpc_gateway_networks",
     "vpc_public_gateways", "vpc_routes", "private_networks", "vpcs" >>

BeginReset == ~resetting /\ resetting' = TRUE /\ cleared' = 0 /\ UNCHANGED db

ClearTable ==
  /\ resetting /\ cleared < Len(ResetOrder)
  /\ cleared' = cleared + 1
  /\ db' = [db EXCEPT ![ResetOrder[cleared + 1]] = EmptyTable]
  /\ UNCHANGED resetting

EndReset ==
  /\ resetting /\ cleared = Len(ResetOrder)
  /\ resetting' = FALSE /\ cleared' = 0
  /\ UNCHANGED db

\* The process is killed, or a DELETE fails.
Abandon ==
  /\ resetting /\ cleared < Len(ResetOrder)
  /\ resetting' = FALSE /\ cleared' = 0
  /\ UNCHANGED db

RequestBetweenResets(T) == ~resetting /\ Statement(T) /\ UNCHANGED <<resetting, cleared>>

ResetInit == InitTables /\ resetting = FALSE /\ cleared = 0

ResetNext == BeginReset \/ ClearTable \/ EndReset \/ Abandon \/ RequestBetweenResets(Tables)

ResetSpec == ResetInit /\ [][ResetNext]_resetVars

-----------------------------------------------------------------------------
(***************************************************************************)
(* What Reset promises.                                                    *)
(***************************************************************************)

\* Wherever a reset stops, no row is left that refers to one that is gone, in any table,
\* although foreign keys do not watch over its DELETEs.
ResetLeavesNoOrphans == RefIntegrity(AllKeys, db)

\* A reset that ends has emptied every table of the schema.
ResetForgetsNoTable == [][EndReset => db' = [t \in Tables |-> EmptyTable]]_resetVars

=============================================================================
