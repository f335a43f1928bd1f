-------------------------------- MODULE Redis --------------------------------
(***************************************************************************)
(* The Redis API.  ACL rules, endpoints and settings of a cluster are      *)
(* lists inside its document.  Of an endpoint the model keeps the id: a    *)
(* list of endpoints is the set of their ids, with Null for those that     *)
(* have none.                                                              *)
(***************************************************************************)
EXTENDS ListDocuments, FiniteSets

CONSTANT MaxEndpoints   \* bound: endpoints of a request that differ in their ids

ASSUME MaxEndpointsIsNat == MaxEndpoints \in Nat

RedisTables == {"redis_clusters"}

RedisRow(rules, endpoints, settings) ==
  [doc |-> [acl_rules |-> rules, endpoints |-> endpoints, settings |-> settings]]

\* Endpoints as clients write them: new ones without an id, old ones with theirs.
GivenEndpoints == {eps \in SUBSET (issued \cup {Null}) : Cardinality(eps) <= MaxEndpoints}
GivenDocs == [acl_rules : GivenLists, endpoints : GivenEndpoints, settings : GivenLists]

-----------------------------------------------------------------------------
(***************************************************************************)
(* Clusters.  Creating one gives an id to every endpoint that has none,    *)
(* and an endpoint to a cluster without a list of them; updating one does  *)
(* not, and does not ask whether it met a row.  A cluster created without  *)
(* a list of endpoints gets one, as if it had been given one without id.   *)
(***************************************************************************)
CreateRedisCluster(c) ==
  /\ Idle(c)
  /\ \E k \in UUIDs \ issued, given \in GivenEndpoints :
       \E new \in SUBSET (UUIDs \ (issued \cup {k})), rules, settings \in GivenLists :
         /\ (new = {}) = (Null \notin given)
         /\ db' = InsertRow(db, "redis_clusters", k,
                            RedisRow(rules, (given \ {Null}) \cup new, settings))
         /\ issued' = issued \cup {k} \cup new
  /\ Answer(c, "ok")

UpdateRedisCluster(c) ==
  Idle(c) /\ \E k \in UUIDs : \E patch \in PatchesOf(GivenDocs) :
    Read(c, "redis_clusters", k, Rewrite("redis_clusters", k, patch, FALSE))

\* The node type, the version and the status.
MigrateRedisCluster(c) ==
  Idle(c) /\ \E k \in UUIDs, patch \in NoRefs :
    Read(c, "redis_clusters", k, Rewrite("redis_clusters", k, patch, FALSE))

DeleteRedisCluster(c) == ReadAndDelete(c, "redis_clusters")

-----------------------------------------------------------------------------
(***************************************************************************)
(* The lists, by writes that answer 404 when the cluster is gone.          *)
(***************************************************************************)
SetRedisACLRules(c) == SetList(c, "redis_clusters", "acl_rules", GivenLists)
SetRedisEndpoints(c) == SetList(c, "redis_clusters", "endpoints", GivenEndpoints)
SetRedisClusterSettings(c) == SetList(c, "redis_clusters", "settings", GivenLists)

\* The endpoint is looked for in the lists of all clusters.
DeleteRedisEndpoint(c) ==
  /\ Idle(c)
  /\ UNCHANGED <<db, issued>>
  /\ \E e \in UUIDs :
       LET EndpointsOf(k) == db["redis_clusters"][k].doc.endpoints
           owners == {k \in DOMAIN db["redis_clusters"] : e \in EndpointsOf(k)} IN
       \/ \E k \in owners : Continue(c, Rewrite("redis_clusters", k, [endpoints |-> EndpointsOf(k) \ {e}], TRUE))
       \/ owners = {} /\ Answer(c, "not_found")

-----------------------------------------------------------------------------
Redis(c) ==
  \/ CreateRedisCluster(c) \/ UpdateRedisCluster(c) \/ MigrateRedisCluster(c)
  \/ DeleteRedisCluster(c)
  \/ SetRedisACLRules(c) \/ SetRedisEndpoints(c) \/ SetRedisClusterSettings(c)
  \/ DeleteRedisEndpoint(c)

=============================================================================
