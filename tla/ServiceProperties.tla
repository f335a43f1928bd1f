-------------------------- MODULE ServiceProperties --------------------------
(***************************************************************************)
(* What the plain services must keep true: first for any number of         *)
(* concurrent clients, then for requests that come one at a time, which    *)
(* MCServices states.                                                      *)
(***************************************************************************)
EXTENDS Services

Lists == [acl_rules : GivenLists, endpoints : SUBSET (UUIDs \cup {Null}), settings : GivenLists]

DocsOf(t) ==
  CASE t \in {"private_networks", "vpc_routes"} -> InVpc
    [] t = "vpc_gateway_networks" -> OfGateway
    [] t = "k8s_clusters" -> OnNetwork
    [] t = "k8s_pools" -> OfCluster
    [] t = "block_snapshots" -> OfVolumeOrNone
    [] t = "redis_clusters" -> Lists
    [] t = "instance_security_groups" -> GroupDocs
    [] t = "dns_zones" -> {Null}
    [] t = "domain_records" -> Fields
    [] OTHER -> NoRefs

\* Where the ids of a table come from; iss are the uuids handed out.
IdsOf(iss, t) == IF t = "dns_zones" THEN Zones ELSE iss

Patching ==
  [at : {"PatchRecords", "ListRecords"}, zone : Zones, todo : Patches, matched : SUBSET UUIDs]

RequestOK(iss, r) ==
  \/ r \in [at : {"answered"}, status : Statuses]
  \/ /\ r.at = "WriteRow"
     /\ r.table \in ResourceTables /\ r.key \in iss
     /\ r.doc \in DocsOf(r.table) \/ (r.table = "private_networks" /\ r.doc \in InVpcOrNone)
  \/ r \in [at : {"DeleteRead"}, table : Tables \ DnsTables, key : iss]
  \/ r \in [at : {"DeleteStandalone"}, key : UUIDs]
  \/ r = [at |-> "DeleteEmbedded"]
  \/ /\ r.at = "WriteLists"
     /\ r.table \in RedisTables \cup GroupTables /\ r.key \in iss
     /\ r.doc \in DocsOf(r.table) /\ r.names \subseteq DOMAIN r.doc
  \/ r \in [at : {"WriteZone", "DeleteZone"}, zone : Zones]
  \/ r \in Patching

\* Every table holds documents of its kind under ids newID returned or, for zones, under
\* names, with a column for each of its keys, and every handler is at a statement it can
\* be at, with the locals it has there.
ServicesTypeOK ==
  /\ DOMAIN db = Tables
  /\ \A t \in Tables : \A k \in DOMAIN db[t] :
       /\ k \in IdsOf(issued, t)
       /\ db[t][k].doc \in DocsOf(t)
       /\ \A col \in Columns(Keys, t) : db[t][k][col] \in UUIDs \cup {Null}
  /\ \A c \in Clients : RequestOK(issued, req[c])

-----------------------------------------------------------------------------
(***************************************************************************)
(* With any number of clients.                                             *)
(***************************************************************************)

Store == INSTANCE ReferentialStore
  WITH Kinds <- ResourceTables, Nothing <- Null, Listed <- {},
       Owns <- With(Keys, Cascade), Detaches <- With(Keys, SetNull),
       Blocks <- With(Keys, NoAction),
       rows <- [t \in ResourceTables |-> db[t]]

\* Networks, routes, gateway networks, clusters, pools and snapshots appear one by one on
\* resources that are there, move one by one to others that are there, keep what they are
\* on from going or go with it, whatever handlers had read before.
ServicesKeepReferences == Store!Spec

\* "Keep vpc_id and region SQL columns in sync so FK cascades and list filtering remain
\* correct after a PATCH that moves the network": what documents say is as good as what
\* the columns say, even when the document was patched after a stale read.
DocumentsNameLiveRows ==
  \A fk \in Keys : \A k \in DOMAIN db[fk.child] :
    db[fk.child][k].doc[fk.col] \in DOMAIN db[fk.parent] \cup {Null}

\* The statement of a patch of DNS records that client c makes leaves the records of all
\* other zones as they are.
PatchStaysInZone(c) ==
  req[c].at \in {"PatchRecords", "ListRecords"} /\ req'[c] # req[c] =>
    \A z \in Zones \ {req[c].zone} : \A k \in RecordsOf(z) :
      /\ k \in DOMAIN db'["domain_records"]
      /\ db'["domain_records"][k] = db["domain_records"][k]

-----------------------------------------------------------------------------
(***************************************************************************)
(* With one request at a time.                                             *)
(***************************************************************************)

\* A request about some of the lists of a Redis cluster or a security group changes no
\* others, and nothing of other clusters or groups.
ListsStay(c) ==
  LET r == req[c] IN
  r.at = "WriteLists" =>
    \A k \in DOMAIN db[r.table] : \A name \in DOMAIN r.doc :
      \/ k = r.key /\ name \in r.names
      \/ k \in DOMAIN db'[r.table] /\ db'[r.table][k].doc[name] = db[r.table][k].doc[name]

\* The records the database holds are those of zones it holds.
RecordsHaveTheirZone ==
  \A k \in DOMAIN db["domain_records"] :
    db["domain_records"][k].dns_zone \in DOMAIN db["dns_zones"]

=============================================================================
