------------------------------ MODULE Resources ------------------------------
(***************************************************************************)
(* The plain resources: VPCs, private networks, routes and public          *)
(* gateways; Kubernetes clusters and pools; block and instance volumes;    *)
(* IPAM IPs; registry namespaces.                                          *)
(*                                                                         *)
(* Each is one row.  What its document says about other resources stands a *)
(* second time in the columns the foreign keys are declared on: creating   *)
(* writes both, and an update reads the document, merges the patch into it *)
(* and writes the document back with the columns taken from it.            *)
(***************************************************************************)
EXTENDS Handlers

CONSTANT UUIDs   \* what newID can return; a bound on the resources ever created

PlainTables == {"ipam_ips", "registry_namespaces", "instance_volumes"}
ResourceTables ==
  PlainTables \cup {"vpcs", "private_networks", "vpc_routes", "vpc_public_gateways",
                    "vpc_gateway_networks", "k8s_clusters", "k8s_pools",
                    "block_volumes", "block_snapshots"}

Keys == VpcKeys \cup VpcGatewayKeys \cup K8sKeys \cup BlockKeys

(***************************************************************************)
(* Documents, reduced to their references: a record with a field for every *)
(* column.  A snapshot has its volume under "parent_volume".  An empty     *)
(* reference is Null.  A patch has some of the fields; those that are JSON *)
(* null are as good as absent.                                             *)
(***************************************************************************)
Row(doc) == [x \in DOMAIN doc \cup {"doc"} |-> IF x = "doc" THEN doc ELSE doc[x]]

PatchMerge(current, patch) ==
  [col \in DOMAIN current |-> IF col \in DOMAIN patch THEN patch[col] ELSE current[col]]

PatchesOf(docs) == UNION {{[col \in D |-> d[col]] : D \in SUBSET DOMAIN d} : d \in docs}

NoRefs == [{} -> UUIDs]
InVpc == [vpc_id : UUIDs]
InVpcOrNone == [vpc_id : UUIDs \cup {Null}]
OfGateway == [gateway_id : UUIDs, private_network_id : UUIDs]
OnNetwork == [private_network_id : UUIDs \cup {Null}]
OfCluster == [cluster_id : UUIDs]
OfVolume == [volume_id : UUIDs]
OfVolumeOrNone == [volume_id : UUIDs \cup {Null}]

-----------------------------------------------------------------------------
(***************************************************************************)
(* The shapes of the operations.  Creating with an empty reference is      *)
(* answered 404, as with one to a missing row; only the network of a       *)
(* cluster is optional.                                                    *)
(***************************************************************************)
Create(c, t, docs) ==
  Idle(c) /\ \E k \in UUIDs, d \in docs : CreateSimple(Keys, c, t, k, Row(d))

Patch(c, t, docs) ==
  Idle(c) /\ \E k \in UUIDs : \E p \in PatchesOf(docs) :
    Read(c, t, k, [at |-> "WriteRow", table |-> t, key |-> k,
                   doc |-> PatchMerge(db[t][k].doc, p)])

\* Faulty EmptyRequired: the schema lets every column be NULL.
NothingRequired(t, doc) == FALSE

\* The columns of NOT NULL references that an UPDATE may find empty.
EmptyRequired(t, doc) == t = "private_networks" /\ doc.vpc_id = Null

\* Faulty WriteRow: the columns keep what they were created with.
WriteDocOnly(c) ==
  LET r == req[c] IN
  /\ r.at = "WriteRow"
  /\ UNCHANGED issued
  /\ db' = IF Found(r.table, r.key) THEN [db EXCEPT ![r.table][r.key].doc = r.doc] ELSE db
  /\ Answer(c, "ok")

\* UPDATE ... SET data = ?, <columns> = ?, which does not ask whether it met a row.
WriteRow(c) ==
  LET r == req[c]
      refused == Found(r.table, r.key) /\ EmptyRequired(r.table, r.doc)
      dangling == Found(r.table, r.key) /\ ~RowOK(Keys, db, r.table, Row(r.doc)) IN
  /\ r.at = "WriteRow"
  /\ UNCHANGED issued
  /\ \/ refused /\ Answer(c, "error") /\ UNCHANGED db
     \/ ~refused /\ dangling /\ Answer(c, "not_found") /\ UNCHANGED db
     \/ /\ ~refused /\ ~dangling
        /\ db' = UpdateRow(db, r.table, r.key, Row(r.doc))
        /\ Answer(c, "ok")

Delete(c, t) == Idle(c) /\ \E k \in UUIDs : DeleteBy(Keys, c, t, k)

\* The SDK wants the deleted resource back, so some handlers read it first.
ReadAndDelete(c, t) ==
  Idle(c) /\ \E k \in UUIDs : Read(c, t, k, [at |-> "DeleteRead", table |-> t, key |-> k])

DeleteRead(c) == req[c].at = "DeleteRead" /\ DeleteBy(Keys, c, req[c].table, req[c].key)

\* Handlers that only look whether a resource is there.
Look(c, t) == Idle(c) /\ \E k \in UUIDs : Read(c, t, k, Answered("ok"))

-----------------------------------------------------------------------------
(***************************************************************************)
(* VPC.                                                                    *)
(***************************************************************************)
CreateVPC(c) == Create(c, "vpcs", NoRefs)
UpdateVPC(c) == Patch(c, "vpcs", NoRefs)
DeleteVPC(c) == Delete(c, "vpcs")

CreatePrivateNetwork(c) == Create(c, "private_networks", InVpc)
UpdatePrivateNetwork(c) == Patch(c, "private_networks", InVpcOrNone)
DeletePrivateNetwork(c) == Delete(c, "private_networks")

CreateVPCRoute(c) == Create(c, "vpc_routes", InVpc)
UpdateVPCRoute(c) == Patch(c, "vpc_routes", InVpc)
DeleteVPCRoute(c) == Delete(c, "vpc_routes")

CreateVPCPublicGateway(c) == Create(c, "vpc_public_gateways", NoRefs)
UpdateVPCPublicGateway(c) == Patch(c, "vpc_public_gateways", NoRefs)
DeleteVPCPublicGateway(c) == Delete(c, "vpc_public_gateways")

CreateVPCGatewayNetwork(c) == Create(c, "vpc_gateway_networks", OfGateway)
UpdateVPCGatewayNetwork(c) == Patch(c, "vpc_gateway_networks", OfGateway)
DeleteVPCGatewayNetwork(c) == Delete(c, "vpc_gateway_networks")

Vpc(c) ==
  \/ CreateVPC(c) \/ UpdateVPC(c) \/ DeleteVPC(c)
  \/ CreatePrivateNetwork(c) \/ UpdatePrivateNetwork(c) \/ DeletePrivateNetwork(c)

Routes(c) == CreateVPCRoute(c) \/ UpdateVPCRoute(c) \/ DeleteVPCRoute(c)

Gateways(c) ==
  \/ CreateVPCPublicGateway(c) \/ UpdateVPCPublicGateway(c) \/ DeleteVPCPublicGateway(c)
  \/ CreateVPCGatewayNetwork(c) \/ UpdateVPCGatewayNetwork(c) \/ DeleteVPCGatewayNetwork(c)

-----------------------------------------------------------------------------
(***************************************************************************)
(* Kubernetes.  Upgrades and changes of the type patch fields the model    *)
(* does not have.                                                          *)
(***************************************************************************)
CreateCluster(c) == Create(c, "k8s_clusters", OnNetwork)
UpdateCluster(c) == Patch(c, "k8s_clusters", OnNetwork)
UpgradeCluster(c) == Patch(c, "k8s_clusters", NoRefs)
SetClusterType(c) == Patch(c, "k8s_clusters", NoRefs)
DeleteCluster(c) == ReadAndDelete(c, "k8s_clusters")

CreatePool(c) == Create(c, "k8s_pools", OfCluster)
UpdatePool(c) == Patch(c, "k8s_pools", OfCluster)
UpgradePool(c) == Patch(c, "k8s_pools", NoRefs)
DeletePool(c) == ReadAndDelete(c, "k8s_pools")

Kubernetes(c) ==
  \/ CreateCluster(c) \/ UpdateCluster(c) \/ UpgradeCluster(c) \/ SetClusterType(c)
  \/ DeleteCluster(c)
  \/ CreatePool(c) \/ UpdatePool(c) \/ UpgradePool(c) \/ DeletePool(c)

-----------------------------------------------------------------------------
(***************************************************************************)
(* Volumes.  The block API also answers for instance volumes: a deletion   *)
(* tries one table after the other, and then the volumes inside server     *)
(* documents, which are the business of InstanceService.  The instance API *)
(* answers 204 whether it met a volume or not.                             *)
(***************************************************************************)
CreateBlockVolume(c) == Create(c, "block_volumes", NoRefs)
UpdateBlockVolume(c) == Patch(c, "block_volumes", NoRefs)

DeleteBlockVolumeHandler(c) ==
  Idle(c) /\ \E k \in UUIDs :
    \/ Found("block_volumes", k) /\ DeleteBy(Keys, c, "block_volumes", k)
    \/ /\ ~Found("block_volumes", k)
       /\ Continue(c, [at |-> "DeleteStandalone", key |-> k])
       /\ UNCHANGED <<db, issued>>

DeleteStandaloneVolume(c) ==
  LET k == req[c].key IN
  /\ req[c].at = "DeleteStandalone"
  /\ \/ Found("instance_volumes", k) /\ DeleteBy(Keys, c, "instance_volumes", k)
     \/ /\ ~Found("instance_volumes", k)
        /\ Continue(c, [at |-> "DeleteEmbedded"])
        /\ UNCHANGED <<db, issued>>

DeleteEmbeddedVolume(c) ==
  /\ req[c].at = "DeleteEmbedded"
  /\ \E status \in {"ok", "not_found"} : Answer(c, status)
  /\ UNCHANGED <<db, issued>>

CreateBlockSnapshot(c) == Create(c, "block_snapshots", OfVolume)
UpdateBlockSnapshot(c) == Patch(c, "block_snapshots", OfVolumeOrNone)
DeleteBlockSnapshot(c) == Delete(c, "block_snapshots")

CreateInstanceVolume(c) == Create(c, "instance_volumes", NoRefs)
UpdateInstanceVolume(c) == Patch(c, "instance_volumes", NoRefs)

DeleteVolume(c) ==
  /\ Idle(c)
  /\ UNCHANGED issued
  /\ \E k \in UUIDs : db' = DeleteRow(Keys, db, "instance_volumes", k)
  /\ Answer(c, "ok")

Block(c) ==
  \/ CreateBlockVolume(c) \/ UpdateBlockVolume(c) \/ DeleteBlockVolumeHandler(c)
  \/ CreateBlockSnapshot(c) \/ UpdateBlockSnapshot(c) \/ DeleteBlockSnapshot(c)
  \/ CreateInstanceVolume(c) \/ UpdateInstanceVolume(c) \/ DeleteVolume(c)

-----------------------------------------------------------------------------
(***************************************************************************)
(* IPAM and the container registry.  Detaching or moving an IPAM IP only   *)
(* asks whether it is there.                                               *)
(***************************************************************************)
CreateIPAMIP(c) == Create(c, "ipam_ips", NoRefs)
UpdateIPAMIP(c) == Patch(c, "ipam_ips", NoRefs)
DeleteIPAMIP(c) == Delete(c, "ipam_ips")
DetachIPAMIP(c) == Look(c, "ipam_ips")
MoveIPAMIP(c) == Look(c, "ipam_ips")

CreateRegistryNamespace(c) == Create(c, "registry_namespaces", NoRefs)
UpdateRegistryNamespace(c) == Patch(c, "registry_namespaces", NoRefs)
DeleteRegistryNamespace(c) == ReadAndDelete(c, "registry_namespaces")

Ipam(c) ==
  \/ CreateIPAMIP(c) \/ UpdateIPAMIP(c) \/ DeleteIPAMIP(c) \/ DetachIPAMIP(c) \/ MoveIPAMIP(c)

Registry(c) ==
  \/ CreateRegistryNamespace(c) \/ UpdateRegistryNamespace(c) \/ DeleteRegistryNamespace(c)

-----------------------------------------------------------------------------
Arriving(c) ==
  \/ Vpc(c) \/ Routes(c) \/ Gateways(c) \/ Kubernetes(c) \/ Block(c) \/ Ipam(c) \/ Registry(c)

Proceeding(c) ==
  \/ WriteRow(c) \/ DeleteRead(c) \/ DeleteStandaloneVolume(c) \/ DeleteEmbeddedVolume(c)

=============================================================================
