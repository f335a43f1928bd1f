----------------------------- MODULE MCServices -----------------------------
(***************************************************************************)
(* Instances of the plain services for TLC.  In every behaviour some of    *)
(* the clients send requests, about the resources of one of the scopes.    *)
(* Ids are numbers handed out in order: newID returns any, but which one   *)
(* makes no difference.                                                    *)
(***************************************************************************)
EXTENDS ServiceProperties, TLC

CONSTANTS
  MaxShared,   \* bound: ids handed out while several clients are active
  MaxLists     \* bound: the same, where requests carry lists (DNS, Redis)

VARIABLES
  active,   \* the clients that send requests
  scope     \* the tables the behaviour uses

Serial == \A c, d \in active : c = d

Scopes ==
  { {"vpcs", "private_networks", "vpc_routes"},
    {"vpcs", "private_networks", "vpc_public_gateways", "vpc_gateway_networks"},
    {"vpcs", "private_networks", "k8s_clusters", "k8s_pools"},
    {"block_volumes", "block_snapshots", "instance_volumes"},
    {"ipam_ips", "registry_namespaces"},
    {"redis_clusters"},
    {"instance_security_groups"},
    {"dns_zones", "domain_records"} }

\* The tables of a handler.
Targets(r) ==
  CASE r.at \in {"WriteRow", "DeleteRead"} -> {r.table}
    [] r.at \in {"DeleteStandalone", "DeleteEmbedded"} -> {"instance_volumes"}
    [] r.at = "WriteLists" -> {r.table}
    [] r.at \in {"WriteZone", "DeleteZone", "PatchRecords", "ListRecords"} -> {"dns_zones"}
    [] OTHER -> {}

Segments == {1..n : n \in 0..Cardinality(UUIDs)}

MaxIds ==
  CASE scope \subseteq RedisTables \cup GroupTables -> MaxLists
    [] Serial \/ "vpc_gateway_networks" \in scope -> Cardinality(UUIDs)
    [] "dns_zones" \in scope -> MaxLists
    [] OTHER -> MaxShared

\* The changes pending patches will still make, each addition under an id of its own.
Pending(do) ==
  {p \in Clients \X (1..MaxChanges) :
     /\ req[p[1]].at \in {"PatchRecords", "ListRecords"}
     /\ p[2] \in DOMAIN req[p[1]].todo
     /\ req[p[1]].todo[p[2]].do = do}

Bounds ==
  /\ issued \in Segments
  /\ Cardinality(issued) + Cardinality(Pending("add")) <= MaxIds
  /\ \A p \in Pending("delete") : req[p[1]].todo[p[2]].id <= MaxIds
  /\ \A t \in Tables \ scope : db[t] = EmptyTable
  /\ \A c \in Clients : Targets(req[c]) \subseteq scope

MCInit == /\ Init /\ active \in (SUBSET Clients) \ {{}} /\ scope \in Scopes
          /\ Serial \/ "redis_clusters" \notin scope

\* Arrive, without the requests that Bounds refuses anyway.
Offered(c) ==
  \/ "vpcs" \in scope /\ Vpc(c)
  \/ "vpc_routes" \in scope /\ Routes(c)
  \/ "vpc_public_gateways" \in scope /\ Gateways(c)
  \/ "k8s_clusters" \in scope /\ Kubernetes(c)
  \/ "block_volumes" \in scope /\ Block(c)
  \/ "ipam_ips" \in scope /\ Ipam(c)
  \/ "registry_namespaces" \in scope /\ Registry(c)
  \/ "redis_clusters" \in scope /\ Redis(c)
  \/ "instance_security_groups" \in scope /\ SecurityGroup(c)
  \/ "dns_zones" \in scope /\ Dns(c)

MCNext == /\ \E c \in active : Offered(c) \/ Proceed(c)
          /\ UNCHANGED <<active, scope>>
          /\ Bounds'

MCSpec == MCInit /\ [][MCNext]_<<vars, active, scope>>

\* States that differ in an answer only are one state: no step and no property depends on it.
View == <<db, issued, [c \in Clients |-> IF Idle(c) THEN Null ELSE req[c]], active, scope>>

Symmetry == Permutations(Clients) \cup Permutations(Zones) \cup Permutations(Fields)
              \cup Permutations(Contents)

-----------------------------------------------------------------------------
\* Statement by statement, a patch of DNS records stays within its zone, and, one request
\* at a time, a request about a list of a Redis cluster or of a security group changes
\* that list only.
RequestsChangeWhatTheyName ==
  [][\A c \in Clients : PatchStaysInZone(c) /\ (Serial => ListsStay(c))]_vars

\* One request at a time, a zone goes together with its records and a record is added to
\* a zone that is there, although no foreign key ties the two.
SerialRecordsHaveTheirZone == Serial => RecordsHaveTheirZone

=============================================================================
