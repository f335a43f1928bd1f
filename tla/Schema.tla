------------------------------ MODULE Schema ------------------------------
(***************************************************************************)
(* The foreign keys Repository.init declares, service by service.  The     *)
(* tables without a foreign key in either direction (registry, ipam,       *)
(* redis, ssh keys, dns, ...) do not appear: a dns record names its zone,  *)
(* an api key its user and a load-balancer route its backend in a document *)
(* only, and the database enforces nothing there.                          *)
(***************************************************************************)
EXTENDS ForeignKeys

VpcKeys == {ForeignKey("private_networks", "vpc_id", "vpcs", NoAction)}

InstanceKeys ==
  { ForeignKey("instance_servers", "security_group_id", "instance_security_groups", SetNull),
    ForeignKey("instance_ips", "server_id", "instance_servers", SetNull),
    ForeignKey("instance_private_nics", "server_id", "instance_servers", Cascade),
    ForeignKey("instance_private_nics", "private_network_id", "private_networks", NoAction) }

LbKeys ==
  { ForeignKey("lb_frontends", "lb_id", "lbs", NoAction),
    ForeignKey("lb_backends", "lb_id", "lbs", NoAction),
    ForeignKey("lb_private_networks", "lb_id", "lbs", NoAction),
    ForeignKey("lb_private_networks", "private_network_id", "private_networks", NoAction) }

K8sKeys ==
  { ForeignKey("k8s_clusters", "private_network_id", "private_networks", NoAction),
    ForeignKey("k8s_pools", "cluster_id", "k8s_clusters", Cascade) }

RdbKeys ==
  {ForeignKey(child, "instance_id", "rdb_instances", Cascade) :
     child \in {"rdb_databases", "rdb_users", "rdb_privileges"}}

IamKeys ==
  { ForeignKey("iam_api_keys", "application_id", "iam_applications", NoAction),
    ForeignKey("iam_policies", "application_id", "iam_applications", NoAction),
    ForeignKey("iam_rules", "policy_id", "iam_policies", Cascade),
    ForeignKey("iam_group_members", "group_id", "iam_groups", Cascade),
    ForeignKey("iam_group_members", "user_id", "iam_users", Cascade) }

BlockKeys == {ForeignKey("block_snapshots", "volume_id", "block_volumes", NoAction)}

RdbCopyKeys ==
  {ForeignKey(child, "instance_id", "rdb_instances", Cascade) :
     child \in {"rdb_read_replicas", "rdb_snapshots", "rdb_acls", "rdb_backups"}}

VpcGatewayKeys ==
  { ForeignKey("vpc_routes", "vpc_id", "vpcs", NoAction),
    ForeignKey("vpc_gateway_networks", "gateway_id", "vpc_public_gateways", NoAction),
    ForeignKey("vpc_gateway_networks", "private_network_id", "private_networks", NoAction) }

\* Faulty LbDetailKeys: ON DELETE SET NULL where the schema has CASCADE.
LbDetailKeysSetNull ==
  { ForeignKey("lb_acls", "frontend_id", "lb_frontends", SetNull),
    ForeignKey("lb_routes", "lb_id", "lbs", SetNull),
    ForeignKey("lb_certificates", "lb_id", "lbs", SetNull) }

LbDetailKeys ==
  { ForeignKey("lb_acls", "frontend_id", "lb_frontends", Cascade),
    ForeignKey("lb_routes", "lb_id", "lbs", Cascade),
    ForeignKey("lb_certificates", "lb_id", "lbs", Cascade) }

AllKeys ==
  VpcKeys \cup InstanceKeys \cup LbKeys \cup K8sKeys \cup RdbKeys \cup IamKeys
    \cup BlockKeys \cup RdbCopyKeys \cup VpcGatewayKeys \cup LbDetailKeys

(***************************************************************************)
(* DeleteRow follows cascades one level deep; the schema has no deeper.    *)
(***************************************************************************)
ASSUME SchemaCascadesEndAtOnce == CascadesEndAtOnce(AllKeys)

=============================================================================
