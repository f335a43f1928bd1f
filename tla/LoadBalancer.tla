---------------------------- MODULE LoadBalancer ----------------------------
(***************************************************************************)
(* The Load Balancer API: load balancers and the IPs they take, frontends, *)
(* backends, attachments of private networks, and the ACLs, routes and     *)
(* certificates hung below them.                                           *)
(*                                                                         *)
(* Of request bodies, only references to other rows are kept.  The lb_id   *)
(* of a frontend, a backend or a route is both a column and a field of the *)
(* document, always written together, and is kept once; the lb_id of an IP *)
(* and the frontend and backend of a route are in the document alone, and  *)
(* the database does not know them for references.                         *)
(*                                                                         *)
(* An update merges its body into the document, whatever fields it has.    *)
(* The OpenAPI description in specs/ gives the bodies of updates no lb_id  *)
(* or frontend_id, so a client that keeps to it never moves a row below    *)
(* another load balancer or frontend; Moves are the ids that others name.  *)
(* Naming the row's scope (zone or region) in a body is not modelled.      *)
(***************************************************************************)
EXTENDS Handlers

CONSTANTS
  Lbs, LbIps, Frontends, Backends, Acls, Routes, Certificates,  \* uuids newID can return
  Networks,          \* uuids of private networks
  Zones,             \* the {zone} or {region} of the request path
  Moves              \* what bodies of updates put into lb_id and frontend_id

ASSUME LbIdsAreNotNull ==
  Null \notin Lbs \cup LbIps \cup Frontends \cup Backends \cup Acls \cup Routes
                \cup Certificates \cup Networks

ASSUME MovesAreParents == Moves \subseteq Lbs \cup Frontends \cup {Null}

Keys == LbKeys \cup LbDetailKeys

LbTables == {"lbs", "lb_ips", "lb_frontends", "lb_backends", "lb_private_networks",
             "private_networks", "lb_acls", "lb_routes", "lb_certificates"}

LbRow(zone)             == [zone |-> zone]
LbIpRow(zone, lb)       == [zone |-> zone, doc |-> lb]
FrontendRow(lb, be)     == [lb_id |-> lb, backend_id |-> be]
BelowLb(lb)             == [lb_id |-> lb]         \* a backend, a certificate
AttachmentRow(lb, pn)   == [lb_id |-> lb, private_network_id |-> pn]
AclRow(fe)              == [frontend_id |-> fe]
RouteRow(lb, fe, be)    == [lb_id |-> lb, frontend_id |-> fe, backend_id |-> be]
NetworkRow              == [doc |-> Null]

(***************************************************************************)
(* The parents a row can have once a body is merged into it.  An empty id   *)
(* in one of these columns is refused as the id of no row is.              *)
(***************************************************************************)
PatchedLbs(row)       == {row.lb_id} \cup (Moves \cap Lbs)
PatchedFrontends(row) == {row.frontend_id} \cup (Moves \cap Frontends)

-----------------------------------------------------------------------------
(***************************************************************************)
(* Operations that come down to one statement.  CreateACL looks its        *)
(* frontend up first and answers the same 404 the foreign key would.       *)
(***************************************************************************)
CreatePrivateNetwork(c) ==
  Idle(c) /\ \E pn \in Networks : CreateSimple(Keys, c, "private_networks", pn, NetworkRow)

DeletePrivateNetwork(c) ==
  Idle(c) /\ \E pn \in Networks : DeleteBy(Keys, c, "private_networks", pn)

CreateLBIP(c) ==
  /\ Idle(c)
  /\ \E ip \in LbIps, z \in Zones : CreateSimple(Keys, c, "lb_ips", ip, LbIpRow(z, Null))

CreateBackend(c) ==
  /\ Idle(c)
  /\ \E be \in Backends, lb \in Lbs : CreateSimple(Keys, c, "lb_backends", be, BelowLb(lb))

DeleteBackend(c) == Idle(c) /\ \E be \in Backends : DeleteBy(Keys, c, "lb_backends", be)

DeleteFrontend(c) == Idle(c) /\ \E fe \in Frontends : DeleteBy(Keys, c, "lb_frontends", fe)

AttachLBPrivateNetwork(c) ==
  /\ Idle(c)
  /\ UNCHANGED issued
  /\ \E lb \in Lbs, pn \in Networks :
       InsertJSON(Keys, c, "lb_private_networks", <<lb, pn>>, AttachmentRow(lb, pn))

DetachLBPrivateNetwork(c) ==
  /\ Idle(c)
  /\ \E lb \in Lbs, pn \in Networks : DeleteBy(Keys, c, "lb_private_networks", <<lb, pn>>)

CreateLBACL(c) ==
  /\ Idle(c)
  /\ \E acl \in Acls, fe \in Frontends : CreateSimple(Keys, c, "lb_acls", acl, AclRow(fe))

DeleteLBACL(c) == Idle(c) /\ \E acl \in Acls : DeleteBy(Keys, c, "lb_acls", acl)

CreateLBCertificate(c) ==
  /\ Idle(c)
  /\ \E cert \in Certificates, lb \in Lbs :
       CreateSimple(Keys, c, "lb_certificates", cert, BelowLb(lb))

DeleteLBCertificate(c) ==
  Idle(c) /\ \E cert \in Certificates : DeleteBy(Keys, c, "lb_certificates", cert)

DeleteLBRoute(c) == Idle(c) /\ \E route \in Routes : DeleteBy(Keys, c, "lb_routes", route)

-----------------------------------------------------------------------------
(***************************************************************************)
(* Creating a load balancer.  Without an IP it is one INSERT; with one,    *)
(* the IP is looked up, the row inserted, and the IP's document updated.   *)
(***************************************************************************)
CreateLBWithoutIP(c) ==
  Idle(c) /\ \E lb \in Lbs, z \in Zones : CreateSimple(Keys, c, "lbs", lb, LbRow(z))

CheckLBIP(c) ==
  /\ Idle(c)
  /\ UNCHANGED db
  /\ \E lb \in Lbs \ issued, z \in Zones, ip \in LbIps :
       /\ issued' = issued \cup {lb}
       /\ \/ /\ ~Found("lb_ips", ip)
             /\ Answer(c, "not_found")
          \/ /\ Found("lb_ips", ip) /\ db["lb_ips"][ip].doc # Null
             /\ Answer(c, "conflict")
          \/ /\ Found("lb_ips", ip) /\ db["lb_ips"][ip].doc = Null
             /\ Continue(c, [at |-> "InsertLB", lb |-> lb, zone |-> z, ip |-> ip])

InsertLB(c) ==
  LET r == req[c] IN
  /\ r.at = "InsertLB"
  /\ UNCHANGED issued
  /\ db' = InsertRow(db, "lbs", r.lb, LbRow(r.zone))
  /\ Continue(c, [at |-> "AttachLBIP", lb |-> r.lb, ip |-> r.ip])

(***************************************************************************)
(* UpdateLBIP, called by CreateLB or by PATCH /ips: read, patch, write.    *)
(* A patch may set lb_id to any string, and "" detaches the IP.            *)
(***************************************************************************)
ReadLBIP(c, ip, lb) ==
  /\ UNCHANGED <<db, issued>>
  /\ \/ /\ ~Found("lb_ips", ip)
        /\ Answer(c, "not_found")
     \/ /\ Found("lb_ips", ip)
        /\ Continue(c, [at |-> "WriteBack", table |-> "lb_ips", key |-> ip,
                        row |-> LbIpRow(db["lb_ips"][ip].zone, lb)])

AttachLBIP(c) == req[c].at = "AttachLBIP" /\ ReadLBIP(c, req[c].ip, req[c].lb)

UpdateLBIP(c) ==
  /\ Idle(c)
  /\ \E ip \in LbIps :
       \/ \E lb \in Lbs \cup {Null} : ReadLBIP(c, ip, lb)
       \/ Found("lb_ips", ip) /\ ReadLBIP(c, ip, db["lb_ips"][ip].doc)

(***************************************************************************)
(* DeleteLBIP: look whether the IP is attached, then delete it.            *)
(***************************************************************************)
\* Faulty CheckLBIPDetached: deletes an IP that is in use.
CheckLBIPForDelete(c) ==
  /\ Idle(c)
  /\ UNCHANGED <<db, issued>>
  /\ \E ip \in LbIps : Continue(c, [at |-> "DeleteLBIP", ip |-> ip])

CheckLBIPDetached(c) ==
  /\ Idle(c)
  /\ UNCHANGED <<db, issued>>
  /\ \E ip \in LbIps :
       \/ /\ ~Found("lb_ips", ip)
          /\ Answer(c, "not_found")
       \/ /\ Found("lb_ips", ip) /\ db["lb_ips"][ip].doc # Null
          /\ Answer(c, "conflict")
       \/ /\ Found("lb_ips", ip) /\ db["lb_ips"][ip].doc = Null
          /\ Continue(c, [at |-> "DeleteLBIP", ip |-> ip])

DeleteLBIP(c) == req[c].at = "DeleteLBIP" /\ DeleteBy(Keys, c, "lb_ips", req[c].ip)

-----------------------------------------------------------------------------
(***************************************************************************)
(* DeleteLB: one transaction that drops the attachments of private         *)
(* networks, detaches the IPs that name the load balancer, and deletes it; *)
(* a frontend or backend left makes it fail.  Only the IPs of the load     *)
(* balancer's own zone are looked at.                                      *)
(***************************************************************************)
DropAttachments(d, lb) ==
  LET rows == d["lb_private_networks"]
      kept == {k \in DOMAIN rows : rows[k].lb_id # lb} IN
  [d EXCEPT !["lb_private_networks"] = [k \in kept |-> rows[k]]]

\* Faulty DetachLBIPs: leaves the documents alone; no foreign key clears them.
KeepLBIPs(d, lb) == d

DetachLBIPs(d, lb) ==
  [d EXCEPT !["lb_ips"] =
     [ip \in DOMAIN d["lb_ips"] |->
        LET row == d["lb_ips"][ip] IN
        IF row.doc = lb /\ row.zone = d["lbs"][lb].zone
        THEN LbIpRow(row.zone, Null) ELSE row]]

DeleteLB(c) ==
  /\ Idle(c)
  /\ UNCHANGED issued
  /\ \E lb \in Lbs :
       \/ /\ ~Found("lbs", lb)
          /\ Answer(c, "not_found")
          /\ UNCHANGED db
       \/ /\ Found("lbs", lb)
          /\ LET detached == DetachLBIPs(DropAttachments(db, lb), lb) IN
             \/ /\ Blocked(Keys, detached, "lbs", lb)
                /\ Answer(c, "conflict")
                /\ UNCHANGED db
             \/ /\ ~Blocked(Keys, detached, "lbs", lb)
                /\ db' = DeleteRow(Keys, detached, "lbs", lb)
                /\ Answer(c, "ok")

-----------------------------------------------------------------------------
(***************************************************************************)
(* Frontends.  A backend the request names must exist when it is looked    *)
(* up; that it belongs to the same load balancer is not asked.             *)
(***************************************************************************)
CreateFrontend(c) ==
  /\ Idle(c)
  /\ UNCHANGED db
  /\ \E fe \in Frontends \ issued, lb \in Lbs, be \in Backends \cup {Null} :
       /\ issued' = issued \cup {fe}
       /\ \/ /\ be # Null /\ ~Found("lb_backends", be)
             /\ Answer(c, "not_found")
          \/ /\ be = Null \/ Found("lb_backends", be)
             /\ Continue(c, [at |-> "InsertFrontend", key |-> fe,
                             row |-> FrontendRow(lb, be)])

InsertFrontend(c) ==
  LET r == req[c] IN
  /\ r.at = "InsertFrontend"
  /\ UNCHANGED issued
  /\ InsertJSON(Keys, c, "lb_frontends", r.key, r.row)

UpdateFrontend(c) ==
  /\ Idle(c)
  /\ UNCHANGED <<db, issued>>
  /\ \E fe \in Frontends :
       \/ /\ ~Found("lb_frontends", fe)
          /\ Answer(c, "not_found")
       \/ /\ Found("lb_frontends", fe)
          /\ \E be \in Backends \cup {Null, db["lb_frontends"][fe].backend_id} :
             \E lb \in PatchedLbs(db["lb_frontends"][fe]) :
               Continue(c, [at |-> "FrontendBackend", key |-> fe,
                            row |-> FrontendRow(lb, be)])

CheckFrontendBackend(c) ==
  LET r == req[c] IN
  /\ r.at = "FrontendBackend"
  /\ UNCHANGED <<db, issued>>
  /\ \/ /\ r.row.backend_id # Null /\ ~Found("lb_backends", r.row.backend_id)
        /\ Answer(c, "not_found")
     \/ /\ r.row.backend_id = Null \/ Found("lb_backends", r.row.backend_id)
        /\ Continue(c, [at |-> "WriteBack", table |-> "lb_frontends", key |-> r.key,
                        row |-> r.row])

-----------------------------------------------------------------------------
(***************************************************************************)
(* Routes.  The frontend gives a new route its load balancer, and its      *)
(* backend, if any, must be on the same one.  A new route without a        *)
(* frontend gets the lb_id "", which no load balancer has: it is always    *)
(* answered 404.  Creation and update share their two look-ups.  An update *)
(* compares the backend with the frontend named now, if any, and leaves    *)
(* the route's own lb_id as it is or as the body has it; a frontend_id or  *)
(* backend_id of "" clears the reference.                                  *)
(***************************************************************************)
CreateLBRoute(c) ==
  /\ Idle(c)
  /\ UNCHANGED db
  /\ \E route \in Routes \ issued, fe \in Frontends, be \in Backends \cup {Null} :
       /\ issued' = issued \cup {route}
       /\ \/ /\ ~Found("lb_frontends", fe)
             /\ Answer(c, "not_found")
          \/ /\ Found("lb_frontends", fe)
             /\ LET lb == db["lb_frontends"][fe].lb_id IN
                Continue(c, [at |-> "RouteBackend", then |-> "InsertRoute", key |-> route,
                             lb |-> lb, row |-> RouteRow(lb, fe, be)])

UpdateLBRoute(c) ==
  /\ Idle(c)
  /\ UNCHANGED <<db, issued>>
  /\ \E route \in Routes :
       \/ /\ ~Found("lb_routes", route)
          /\ Answer(c, "not_found")
       \/ /\ Found("lb_routes", route)
          /\ LET old == db["lb_routes"][route] IN
             \E lb \in PatchedLbs(old), fe \in PatchedFrontends(old) \cup (Moves \cap {Null}),
                be \in Backends \cup {Null, old.backend_id} :
               Continue(c, [at |-> "RouteFrontend", key |-> route,
                            row |-> RouteRow(lb, fe, be)])

CheckRouteFrontend(c) ==
  LET r == req[c]
      fe == r.row.frontend_id IN
  /\ r.at = "RouteFrontend"
  /\ UNCHANGED <<db, issued>>
  /\ \/ /\ fe # Null /\ ~Found("lb_frontends", fe)
        /\ Answer(c, "not_found")
     \/ /\ fe # Null => Found("lb_frontends", fe)
        /\ Continue(c, [at |-> "RouteBackend", then |-> "WriteBack", key |-> r.key,
                        lb |-> IF fe = Null THEN Null ELSE db["lb_frontends"][fe].lb_id,
                        row |-> r.row])

\* Where the backend of a route may be: with no frontend to compare it with, anywhere.
SameLb(r) == IF r.lb = Null THEN Lbs ELSE {r.lb}

RouteChecked(r) == [at |-> r.then, table |-> "lb_routes", key |-> r.key, row |-> r.row]

\* Faulty CheckRouteBackend: does not compare the load balancers.
CheckRouteBackendExists(c) ==
  LET r == req[c]
      be == r.row.backend_id IN
  /\ r.at = "RouteBackend"
  /\ UNCHANGED <<db, issued>>
  /\ IF be # Null /\ ~Found("lb_backends", be)
     THEN Answer(c, "not_found")
     ELSE Continue(c, RouteChecked(r))

CheckRouteBackend(c) ==
  LET r == req[c]
      be == r.row.backend_id IN
  /\ r.at = "RouteBackend"
  /\ UNCHANGED <<db, issued>>
  /\ \/ /\ be # Null /\ ~Found("lb_backends", be)
        /\ Answer(c, "not_found")
     \/ /\ be # Null /\ Found("lb_backends", be)
        /\ db["lb_backends"][be].lb_id \notin SameLb(r)
        /\ Answer(c, IF r.then = "InsertRoute" THEN "invalid" ELSE "not_found")
     \/ /\ be # Null => Found("lb_backends", be) /\ db["lb_backends"][be].lb_id \in SameLb(r)
        /\ Continue(c, RouteChecked(r))

InsertRoute(c) ==
  LET r == req[c] IN
  /\ r.at = "InsertRoute"
  /\ UNCHANGED issued
  /\ InsertJSON(Keys, c, "lb_routes", r.key, r.row)

-----------------------------------------------------------------------------
(***************************************************************************)
(* The other updates: UpdateLB, UpdateBackend (with its health check and   *)
(* server list), UpdateLBACL and UpdateLBCertificate read a row, merge the *)
(* body into it and take the column from the merged document.              *)
(***************************************************************************)
PatchedRows(t, row) ==
  CASE t = "lbs"     -> {row}
    [] t = "lb_acls" -> {AclRow(fe) : fe \in PatchedFrontends(row)}
    [] OTHER         -> {BelowLb(lb) : lb \in PatchedLbs(row)}

ReadRow(c) ==
  /\ Idle(c)
  /\ UNCHANGED <<db, issued>>
  /\ \E t \in {"lbs", "lb_backends", "lb_acls", "lb_certificates"} :
       \E k \in Lbs \cup Backends \cup Acls \cup Certificates :
         \/ /\ ~Found(t, k)
            /\ Answer(c, "not_found")
         \/ /\ Found(t, k)
            /\ \E row \in PatchedRows(t, db[t][k]) :
                 Continue(c, [at |-> "WriteBack", table |-> t, key |-> k, row |-> row])

(***************************************************************************)
(* The UPDATE of every such handler, and of UpdateFrontend, UpdateLBRoute  *)
(* and UpdateLBIP: document and columns together.  None of them looks at   *)
(* the number of rows affected.                                            *)
(***************************************************************************)
WriteBackOK(r) == Found(r.table, r.key) => RowOK(Keys, db, r.table, r.row)

WriteBack(c) ==
  LET r == req[c] IN
  /\ r.at = "WriteBack"
  /\ UNCHANGED issued
  /\ IF WriteBackOK(r)
     THEN db' = UpdateRow(db, r.table, r.key, r.row) /\ Answer(c, "ok")
     ELSE Answer(c, "not_found") /\ UNCHANGED db

-----------------------------------------------------------------------------
Init ==
  /\ db = [t \in LbTables |-> EmptyTable]
  /\ issued = {}
  /\ req = [c \in Clients |-> Answered("ok")]

Arrive(c) ==
  \/ CreatePrivateNetwork(c) \/ DeletePrivateNetwork(c)
  \/ CreateLBIP(c) \/ UpdateLBIP(c) \/ CheckLBIPDetached(c)
  \/ CreateLBWithoutIP(c) \/ CheckLBIP(c) \/ DeleteLB(c)
  \/ CreateFrontend(c) \/ UpdateFrontend(c) \/ DeleteFrontend(c)
  \/ CreateBackend(c) \/ DeleteBackend(c)
  \/ AttachLBPrivateNetwork(c) \/ DetachLBPrivateNetwork(c)
  \/ CreateLBACL(c) \/ DeleteLBACL(c)
  \/ CreateLBRoute(c) \/ UpdateLBRoute(c) \/ DeleteLBRoute(c)
  \/ CreateLBCertificate(c) \/ DeleteLBCertificate(c)
  \/ ReadRow(c)

Proceed(c) ==
  \/ InsertLB(c) \/ AttachLBIP(c) \/ DeleteLBIP(c)
  \/ InsertFrontend(c) \/ CheckFrontendBackend(c)
  \/ CheckRouteFrontend(c) \/ CheckRouteBackend(c) \/ InsertRoute(c)
  \/ WriteBack(c)

Next == \E c \in Clients : Arrive(c) \/ Proceed(c)

Spec == Init /\ [][Next]_vars

=============================================================================
