--------------------------- MODULE MCLoadBalancer ---------------------------
(***************************************************************************)
(* Instances of the Load Balancer API for TLC.  In every behaviour some of *)
(* the clients send requests; one client alone, or all that compete for    *)
(* IPs, use load balancers and IPs only, others load balancers with        *)
(* backends and a route, with ACLs and certificates, or with networks.     *)
(* They use one zone, unless they use load balancers and IPs only.         *)
(***************************************************************************)
EXTENDS LoadBalancerProperties, FiniteSets, TLC

CONSTANT MaxMovedBackends   \* bound: backends, where rows move

VARIABLES
  active,    \* the clients that send requests
  inPlace    \* their updates name no parent but the one a row has

Serial == \A c, d \in active : c = d

OneZone == \A j, k \in DOMAIN db["lbs"] : db["lbs"][j].zone = db["lbs"][k].zone

\* (No body that moves a row below another parent is about an IP.)
Bounds ==
  /\ \/ inPlace /\ issued \subseteq Lbs \cup LbIps
     \/ OneZone /\ issued \subseteq Lbs \cup Frontends \cup Backends \cup Routes
     \/ OneZone /\ issued \subseteq Lbs \cup Frontends \cup Acls \cup Certificates
     \/ OneZone /\ issued \subseteq Lbs \cup Frontends \cup Networks
  /\ inPlace \/ Cardinality(issued \cap Backends) <= MaxMovedBackends

MCInit == Init /\ active \in (SUBSET Clients) \ {{}} /\ inPlace \in BOOLEAN

\* An update that holds a row, and is about to check or write it, holds the row's parents.
ReadsInPlace(c) ==
  LET r == req'[c]
      t == CASE r.at = "FrontendBackend" -> "lb_frontends"
             [] r.at = "RouteFrontend"   -> "lb_routes"
             [] OTHER                    -> r.table IN
  Idle(c) /\ r.at \in {"FrontendBackend", "RouteFrontend", "WriteBack"} =>
    \A col \in {"lb_id", "frontend_id"} \cap DOMAIN r.row : r.row[col] = db[t][r.key][col]

MCNext == /\ \E c \in active : (Arrive(c) \/ Proceed(c)) /\ (inPlace => ReadsInPlace(c))
          /\ UNCHANGED <<active, inPlace>>
          /\ Bounds'

MCSpec == MCInit /\ [][MCNext]_<<vars, active, inPlace>>

Symmetry == Permutations(Clients) \cup Permutations(Lbs) \cup Permutations(LbIps)
              \cup Permutations(Frontends) \cup Permutations(Backends) \cup Permutations(Zones)

-----------------------------------------------------------------------------
\* In place, the UPDATE at the end of a handler never meets a broken reference: if the
\* row is still there, what it referred to when it was read is still there as well, so an
\* update is never answered 404 for a reason other than its own look-ups.
InPlaceUpdatesFindTheirReferences == inPlace => UpdatesFindTheirReferences

\* In place, a route, its frontend and its backend, while they exist, are all on one load
\* balancer, although the look-ups and the write are separate statements.
InPlaceRoutesStayWithinOneLb == inPlace => RoutesStayWithinOneLb

\* One request at a time, CreateLB attaches an IP that is there and free, so that no
\* error is answered with the load balancer already inserted, and DeleteLBIP deletes
\* none that is attached.  (PATCH moves an IP in use from one load balancer to another.)
SerialLBIPsInUseAreKept ==
  [][Serial => AttachesOnlyFreeLBIPs /\ DeletesOnlyDetachedLBIPs]_vars

=============================================================================
