----------------------- MODULE LoadBalancerProperties -----------------------
(***************************************************************************)
(* What the Load Balancer API must keep true: first for any number of      *)
(* concurrent clients, then for requests that come one at a time, which    *)
(* MCLoadBalancer states.                                                  *)
(***************************************************************************)
EXTENDS LoadBalancer

IdsOf(t) == CASE t = "lbs"                 -> Lbs
              [] t = "lb_ips"              -> LbIps
              [] t = "lb_frontends"        -> Frontends
              [] t = "lb_backends"         -> Backends
              [] t = "lb_private_networks" -> Lbs \X Networks
              [] t = "private_networks"    -> Networks
              [] t = "lb_acls"             -> Acls
              [] t = "lb_routes"           -> Routes
              [] t = "lb_certificates"     -> Certificates

FrontendRows == [lb_id : Lbs, backend_id : Backends \cup {Null}]
RouteRows    == [lb_id : Lbs, frontend_id : Frontends \cup {Null},
                 backend_id : Backends \cup {Null}]

RowsOf(t) == CASE t = "lbs"                 -> [zone : Zones]
               [] t = "lb_ips"              -> [zone : Zones, doc : Lbs \cup {Null}]
               [] t = "lb_frontends"        -> FrontendRows
               [] t = "lb_backends"         -> [lb_id : Lbs]
               [] t = "lb_private_networks" -> [lb_id : Lbs, private_network_id : Networks]
               [] t = "private_networks"    -> {NetworkRow}
               [] t = "lb_acls"             -> [frontend_id : Frontends]
               [] t = "lb_routes"           -> RouteRows
               [] t = "lb_certificates"     -> [lb_id : Lbs]

UpdatedTables == {"lbs", "lb_ips", "lb_frontends", "lb_backends", "lb_acls", "lb_routes",
                  "lb_certificates"}

Requests ==
  [at : {"answered"}, status : Statuses]
  \cup [at : {"InsertLB"}, lb : Lbs, zone : Zones, ip : LbIps]
  \cup [at : {"AttachLBIP"}, lb : Lbs, ip : LbIps]
  \cup [at : {"DeleteLBIP"}, ip : LbIps]
  \cup [at : {"InsertFrontend"}, key : Frontends, row : FrontendRows]
  \cup [at : {"FrontendBackend"}, key : Frontends, row : FrontendRows]
  \cup [at : {"RouteFrontend"}, key : Routes, row : RouteRows]
  \cup [at : {"RouteBackend"}, then : {"InsertRoute", "WriteBack"}, key : Routes,
        lb : Lbs \cup {Null}, row : RouteRows]
  \cup [at : {"InsertRoute"}, table : {"lb_routes"}, key : Routes, row : RouteRows]
  \cup UNION {[at : {"WriteBack"}, table : {t}, key : IdsOf(t), row : RowsOf(t)] :
                t \in UpdatedTables}

\* Every table holds well-formed rows under ids of its own kind, and every
\* handler is at a statement it can be at, with the locals it has there.
LbTypeOK ==
  /\ DOMAIN db = LbTables
  /\ \A t \in LbTables : DOMAIN db[t] \subseteq IdsOf(t) /\ db[t] \in [DOMAIN db[t] -> RowsOf(t)]
  /\ req \in [Clients -> Requests]

-----------------------------------------------------------------------------
(***************************************************************************)
(* With any number of clients.                                             *)
(***************************************************************************)

\* DeleteLB drops the attachments of private networks itself, so they belong to the
\* load balancer although their foreign key would keep it from being deleted.
Attachments == {fk \in Keys : fk.child = "lb_private_networks" /\ fk.parent = "lbs"}

Store == INSTANCE ReferentialStore
  WITH Kinds <- LbTables, Nothing <- Null, Listed <- {},
       Owns <- With(Keys, Cascade) \cup Attachments, Detaches <- With(Keys, SetNull),
       Blocks <- With(Keys, NoAction) \ Attachments, rows <- ReferencesIn(Keys, db)

\* The transaction of DeleteLB, the cascades below frontends and load balancers and
\* every create and update between them amount to one resource appearing, changing or
\* going with all it owns and nothing else; so nothing below a load balancer outlives
\* it, no ACL its frontend, and no request touches what belongs to another resource.
LbKeepsReferences == Store!Spec

\* As long as updates move no row to another parent, the UPDATE at the end of a
\* handler never meets a broken reference: if the row is still there, what it referred
\* to when it was read is still there as well, so an update is never answered 404 for
\* a reason other than its own look-ups.
UpdatesFindTheirReferences ==
  \A c \in Clients : req[c].at = "WriteBack" => WriteBackOK(req[c])

\* As long as updates move no row to another parent, a route, its frontend and its
\* backend, while they exist, are all on one load balancer, although the look-ups and
\* the write are separate statements.
RoutesStayWithinOneLb ==
  \A k \in DOMAIN db["lb_routes"] :
    LET route == db["lb_routes"][k] IN
    /\ route.frontend_id \in DOMAIN db["lb_frontends"] =>
         db["lb_frontends"][route.frontend_id].lb_id = route.lb_id
    /\ route.backend_id \in DOMAIN db["lb_backends"] =>
         db["lb_backends"][route.backend_id].lb_id = route.lb_id

\* DeleteLB detaches the IPs of the load balancer "so the IP can be reused or deleted":
\* right after it, no IP of its zone names it any more.  (An IP reserved under another
\* scope that was attached to it does: DeleteLB looks at the zone before the reference.)
DeletedLBsReleaseTheirIPs ==
  [][\A lb \in DOMAIN db["lbs"] \ DOMAIN db'["lbs"] : \A ip \in DOMAIN db'["lb_ips"] :
       db'["lb_ips"][ip].zone = db["lbs"][lb].zone => db'["lb_ips"][ip].doc # lb]_vars

-----------------------------------------------------------------------------
(***************************************************************************)
(* With one request at a time.                                             *)
(***************************************************************************)

\* CreateLB takes no IP from another load balancer: at its last statement the IP
\* is found and still free, so no error is answered with the row already inserted.
AttachesOnlyFreeLBIPs ==
  \A c \in Clients : AttachLBIP(c) =>
    LET ip == req[c].ip IN
    /\ ip \in DOMAIN db["lb_ips"]
    /\ db["lb_ips"][ip].doc \in {Null, req[c].lb}

\* An IP that is attached to a load balancer is not deleted.
DeletesOnlyDetachedLBIPs ==
  \A ip \in DOMAIN db["lb_ips"] \ DOMAIN db'["lb_ips"] : db["lb_ips"][ip].doc = Null

=============================================================================
