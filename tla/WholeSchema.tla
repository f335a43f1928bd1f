----------------------------- MODULE WholeSchema -----------------------------
(***************************************************************************)
(* The database with all its tables, as reset and the state dumps see it:  *)
(* for them a row is its foreign-key columns, and a request of any service *)
(* is the statements it sends, each of which the foreign keys accept.      *)
(*                                                                         *)
(* Left out: NOT NULL, UNIQUE and composite primary keys, and that the     *)
(* statements of one transaction come together.  All of them only rule     *)
(* databases and interleavings out.                                        *)
(***************************************************************************)
EXTENDS Schema, Naturals, Sequences

CONSTANT Ids      \* primary keys

VARIABLE db       \* db[table][key][column]

\* Every table Repository.init creates for resources.
Tables ==
  { "vpcs", "private_networks", "instance_security_groups", "instance_servers",
    "instance_ips", "instance_private_nics", "lb_ips", "lbs", "lb_frontends", "lb_backends",
    "lb_private_networks", "k8s_clusters", "k8s_pools", "rdb_instances", "rdb_databases",
    "rdb_users", "rdb_privileges", "dns_zones", "domain_records", "redis_clusters",
    "registry_namespaces", "iam_applications", "iam_api_keys", "iam_policies",
    "iam_ssh_keys", "iam_rules", "iam_users", "iam_groups", "iam_group_members",
    "instance_volumes", "block_volumes", "block_snapshots", "ipam_ips",
    "rdb_read_replicas", "rdb_snapshots", "rdb_acls", "rdb_backups", "vpc_routes",
    "vpc_public_gateways", "vpc_gateway_networks", "marketplace_labels", "lb_acls",
    "lb_routes", "lb_certificates" }

Rows(t) == [Columns(AllKeys, t) -> Ids \cup {Null}]

InitTables == db = [t \in Tables |-> EmptyTable]

\* An INSERT, UPDATE or DELETE that succeeds, on one of the tables T.
Statement(T) ==
  \E t \in T, k \in Ids :
    \/ \E row \in Rows(t) :
         /\ RowOK(AllKeys, db, t, row)
         /\ db' = IF k \in DOMAIN db[t] THEN UpdateRow(db, t, k, row)
                                        ELSE InsertRow(db, t, k, row)
    \/ /\ k \in DOMAIN db[t] /\ ~Blocked(AllKeys, db, t, k)
       /\ db' = DeleteRow(AllKeys, db, t, k)

=============================================================================
