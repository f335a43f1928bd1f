------------------------- MODULE LoadBalancerProofs -------------------------
(***************************************************************************)
(* The Load Balancer API, for every number of clients and every set of     *)
(* uuids: types, what UPDATEs meet, where routes lie, and that the tables  *)
(* implement ReferentialStore.                                             *)
(*                                                                         *)
(* That rows are well-formed and refer to rows that exist is kept by each  *)
(* statement, whatever handlers hold.  What handlers write back or insert  *)
(* later than they looked needs more.  While no body of an update names    *)
(* another parent (Moves = {}), a frontend, once created, is on the same   *)
(* load balancer for good, and its uuid names no other frontend ever; the  *)
(* same goes for backends, routes, certificates and, with frontends above  *)
(* them, ACLs.  The inductive invariant says so without history: there is  *)
(* one assignment of uuids to parents, a home, that every row and every    *)
(* handler agrees with, also about what has been deleted.  Where rows do   *)
(* move, it says nothing about homes.                                      *)
(***************************************************************************)
EXTENDS MCLoadBalancer, ForeignKeysProofs

Typed(d) ==
  /\ DOMAIN d = LbTables
  /\ \A t \in LbTables : DOMAIN d[t] \subseteq IdsOf(t) /\ d[t] \in [DOMAIN d[t] -> RowsOf(t)]

Good(d) == Typed(d) /\ RefIntegrity(Keys, d)

\* The tables with a single foreign key and rows under uuids of their own.
Below == {"lb_frontends", "lb_backends", "lb_acls", "lb_routes", "lb_certificates"}

ParentOf(t, row) == IF t = "lb_acls" THEN row.frontend_id ELSE row.lb_id

Homes == [Frontends \cup Backends \cup Acls \cup Routes \cup Certificates
            -> Lbs \cup Frontends \cup {Null}]

Placed(home, iss, t, k, row) == Moves = {} => k \in iss /\ ParentOf(t, row) = home[k]

OnOneLb(home, iss, id, row) ==
  Moves = {} => id \in iss /\ id # Null /\ row.lb_id = home[id]

\* Row k of table t is where its home is, and so are the frontend and the backend of a route.
RowAtHome(home, iss, t, k, row) ==
  /\ t \in Below => Placed(home, iss, t, k, row)
  /\ t = "lb_routes" =>
       /\ OnOneLb(home, iss, row.frontend_id, row)
       /\ row.backend_id # Null => OnOneLb(home, iss, row.backend_id, row)

\* A handler about to check, insert or write a row agrees on all that it has checked so far.
LocalsAtHome(home, iss, r) ==
  /\ r.at \in {"InsertFrontend", "FrontendBackend"} =>
       RowAtHome(home, iss, "lb_frontends", r.key, r.row)
  /\ r.at \in {"RouteFrontend", "RouteBackend"} =>
       /\ Placed(home, iss, "lb_routes", r.key, r.row)
       /\ OnOneLb(home, iss, r.row.frontend_id, r.row)
  /\ r.at = "RouteBackend" /\ Moves = {} => r.lb = r.row.lb_id
  /\ r.at \in {"InsertRoute", "WriteBack"} => RowAtHome(home, iss, r.table, r.key, r.row)

TablesAtHome(home, iss, d) ==
  \A t \in LbTables : \A k \in DOMAIN d[t] : RowAtHome(home, iss, t, k, d[t][k])

AtHome(home) ==
  /\ TablesAtHome(home, issued, db)
  /\ \A c \in Clients : LocalsAtHome(home, issued, req[c])

IInv ==
  /\ Good(db)
  /\ req \in [Clients -> Requests]
  /\ \E home \in Homes : AtHome(home)

-----------------------------------------------------------------------------
(***************************************************************************)
(* The keys and the rows of the service.                                   *)
(***************************************************************************)

\* The keys relate tables of the service, none is SET NULL, and no cascade starts another.
LEMMA LbKeysEnd ==
  /\ \A fk \in Keys : /\ fk.child \in LbTables \ {"lbs", "lb_ips", "private_networks"}
                      /\ fk.parent \in {"lbs", "private_networks", "lb_frontends"}
                      /\ fk.action \in {NoAction, Cascade}
                      /\ fk.action # SetNull
  /\ CascadesEndAtOnce(Keys)
<1>1. \A fk \in Keys : /\ fk.child \in LbTables \ {"lbs", "lb_ips", "private_networks"}
                       /\ fk.parent \in {"lbs", "private_networks", "lb_frontends"}
                       /\ fk.action \in {NoAction, Cascade}
                       /\ fk.action = Cascade =>
                            fk.child \in {"lb_acls", "lb_routes", "lb_certificates"}
  BY DEF Keys, LbKeys, LbDetailKeys, ForeignKey, LbTables, NoAction, Cascade
<1>2. QED BY <1>1 DEF CascadesEndAtOnce, NoAction, Cascade, SetNull

\* The keys of the tables that have one key only.
LEMMA KeysOfBelow ==
  ASSUME NEW fk \in Keys
  PROVE  \/ fk.child = "lb_private_networks"
         \/ /\ fk.child = "lb_acls" /\ fk.col = "frontend_id"
            /\ fk.parent = "lb_frontends"
         \/ /\ fk.child \in Below \ {"lb_acls"} /\ fk.col = "lb_id"
            /\ fk.parent = "lbs"
BY DEF Keys, LbKeys, LbDetailKeys, ForeignKey, Below

\* A well-formed row is a record with the columns that the keys speak of.
LEMMA RowsAreRecords ==
  ASSUME NEW t \in LbTables, NEW row \in RowsOf(t)
  PROVE  /\ row = [col \in DOMAIN row |-> row[col]]
         /\ \A fk \in Keys : fk.child = t => fk.col \in DOMAIN row
<1>1. row = [col \in DOMAIN row |-> row[col]]
  BY DEF LbTables, RowsOf, FrontendRows, RouteRows, NetworkRow
<1>2. ASSUME NEW fk \in Keys, fk.child = t PROVE fk.col \in DOMAIN row
  <2>1. CASE t \in {"lb_frontends", "lb_backends", "lb_routes", "lb_certificates"}
    <3>1. fk.col = "lb_id"
      BY <1>2, <2>1, KeysOfBelow
    <3>2. QED BY <2>1, <3>1 DEF RowsOf, FrontendRows, RouteRows
  <2>2. CASE t = "lb_acls"
    <3>1. fk.col = "frontend_id"
      BY <1>2, <2>2, KeysOfBelow DEF Below
    <3>2. QED BY <2>2, <3>1 DEF RowsOf
  <2>3. CASE t = "lb_private_networks"
    <3>1. fk.col \in {"lb_id", "private_network_id"}
      BY <1>2, <2>3 DEF Keys, LbKeys, LbDetailKeys, ForeignKey
    <3>2. QED BY <2>3, <3>1 DEF RowsOf
  <2>4. QED BY <1>2, <2>1, <2>2, <2>3, LbKeysEnd DEF LbTables
<1>3. QED BY <1>1, <1>2

\* The tables and columns the keys speak of are there.
LEMMA LbLayout ==
  ASSUME NEW d, Typed(d) PROVE LaidOutFor(Keys, d)
<1>1. \A fk \in Keys : /\ fk.child \in LbTables /\ fk.parent \in LbTables
                       /\ fk.action \in {NoAction, Cascade, SetNull}
  BY LbKeysEnd DEF LbTables
<1>2. ASSUME NEW fk \in Keys, NEW k \in DOMAIN d[fk.child]
      PROVE  fk.col \in DOMAIN d[fk.child][k]
  <2>1. d[fk.child][k] \in RowsOf(fk.child)
    BY <1>1 DEF Typed
  <2>2. QED BY <1>1, <2>1, RowsAreRecords
<1>3. QED BY <1>1, <1>2 DEF LaidOutFor, Typed

-----------------------------------------------------------------------------
(***************************************************************************)
(* What statements and transactions do to the tables.                      *)
(***************************************************************************)
Inserted(home, iss, d, e) ==
  \E t \in LbTables : \E k \in IdsOf(t) : \E row \in RowsOf(t) :
    /\ k \notin DOMAIN d[t] /\ RowOK(Keys, d, t, row) /\ RowAtHome(home, iss, t, k, row)
    /\ e = InsertRow(d, t, k, row)

Updated(home, iss, d, e) ==
  \E t \in LbTables : \E k \in DOMAIN d[t] : \E row \in RowsOf(t) :
    /\ RowOK(Keys, d, t, row) /\ RowAtHome(home, iss, t, k, row)
    /\ e = UpdateRow(d, t, k, row)

Deleted(d, e) ==
  \E t \in LbTables \ {"lbs"} : \E k \in DOMAIN d[t] :
    ~Blocked(Keys, d, t, k) /\ e = DeleteRow(Keys, d, t, k)

Released(d, lb) == DetachLBIPs(DropAttachments(d, lb), lb)

LbDeleted(d, e) ==
  \E lb \in DOMAIN d["lbs"] :
    /\ ~Blocked(Keys, Released(d, lb), "lbs", lb)
    /\ e = DeleteRow(Keys, Released(d, lb), "lbs", lb)

Step(home, iss, d, e) ==
  \/ d = e
  \/ Inserted(home, iss, d, e) \/ Updated(home, iss, d, e)
  \/ Deleted(d, e) \/ LbDeleted(d, e)

\* An accepted INSERT of a well-formed row.
LEMMA InsertKeepsGood ==
  ASSUME NEW d, Good(d), NEW t \in LbTables, NEW k \in IdsOf(t), NEW row \in RowsOf(t),
         RowOK(Keys, d, t, row)
  PROVE  Good(InsertRow(d, t, k, row))
<1>1. Typed(InsertRow(d, t, k, row))
  BY DEF Good, Typed, InsertRow
<1>2. RefIntegrity(Keys, InsertRow(d, t, k, row))
  BY LbLayout, InsertKeepsIntegrity DEF Good, Typed
<1>3. QED BY <1>1, <1>2 DEF Good

\* An accepted UPDATE with a well-formed row.
LEMMA UpdateKeepsGood ==
  ASSUME NEW d, Good(d), NEW t \in LbTables, NEW k \in DOMAIN d[t], NEW row \in RowsOf(t),
         RowOK(Keys, d, t, row)
  PROVE  Good(UpdateRow(d, t, k, row))
<1>1. Typed(UpdateRow(d, t, k, row))
  BY DEF Good, Typed, UpdateRow
<1>2. RefIntegrity(Keys, UpdateRow(d, t, k, row))
  BY LbLayout, UpdateKeepsIntegrity DEF Good, Typed
<1>3. QED BY <1>1, <1>2 DEF Good

\* A DELETE takes rows away and leaves the others as they are.
LEMMA DeleteTakesAway ==
  ASSUME NEW d, Good(d), NEW t, NEW k, NEW u \in LbTables
  PROVE  /\ DOMAIN DeleteRow(Keys, d, t, k)[u] = DOMAIN d[u] \ Doomed(Keys, d, t, k, u)
         /\ \A x \in DOMAIN DeleteRow(Keys, d, t, k)[u] :
              DeleteRow(Keys, d, t, k)[u][x] = d[u][x]
<1>1. u \in DOMAIN d /\ \A x \in DOMAIN d[u] : d[u][x] \in RowsOf(u)
  BY DEF Good, Typed
<1>2. \A x \in DOMAIN d[u] : d[u][x] = [col \in DOMAIN d[u][x] |-> d[u][x][col]]
  BY <1>1, RowsAreRecords
<1>3. QED BY <1>1, <1>2, LbKeysEnd, DeleteOnlyTakesAway

\* An accepted DELETE, with its cascades.
LEMMA DeleteKeepsGood ==
  ASSUME NEW d, Good(d), NEW t \in LbTables, NEW k, ~Blocked(Keys, d, t, k)
  PROVE  Good(DeleteRow(Keys, d, t, k))
<1> DEFINE e == DeleteRow(Keys, d, t, k)
<1>1. DOMAIN e = LbTables /\ \A u \in LbTables : e[u] = [x \in DOMAIN e[u] |-> e[u][x]]
  BY DEF DeleteRow, Good, Typed
<1>2. ASSUME NEW u \in LbTables
      PROVE  DOMAIN e[u] \subseteq IdsOf(u) /\ \A x \in DOMAIN e[u] : e[u][x] \in RowsOf(u)
  BY DeleteTakesAway DEF Good, Typed
<1>3. Typed(e)
  BY <1>1, <1>2 DEF Typed
<1>4. RefIntegrity(Keys, e)
  BY LbLayout, LbKeysEnd, DeleteKeepsIntegrity DEF Good, Typed
<1>5. QED BY <1>3, <1>4 DEF Good

\* What DeleteLB does before it deletes, row by row.
LEMMA ReleasedRows ==
  ASSUME NEW d, Good(d), NEW lb \in DOMAIN d["lbs"]
  PROVE  /\ DOMAIN Released(d, lb) = LbTables
         /\ \A u \in LbTables \ {"lb_private_networks", "lb_ips"} : Released(d, lb)[u] = d[u]
         /\ Released(d, lb)["lb_private_networks"]
              = [k \in {x \in DOMAIN d["lb_private_networks"] :
                          d["lb_private_networks"][x].lb_id # lb}
                   |-> d["lb_private_networks"][k]]
         /\ Released(d, lb)["lb_ips"]
              = [ip \in DOMAIN d["lb_ips"] |->
                   IF d["lb_ips"][ip].doc = lb /\ d["lb_ips"][ip].zone = d["lbs"][lb].zone
                   THEN LbIpRow(d["lb_ips"][ip].zone, Null) ELSE d["lb_ips"][ip]]
BY DEF Released, DetachLBIPs, DropAttachments, Good, Typed, LbTables

\* It leaves well-formed rows and no reference without a target.
LEMMA ReleaseKeepsGood ==
  ASSUME NEW d, Good(d), NEW lb \in DOMAIN d["lbs"]
  PROVE  Good(Released(d, lb))
<1> DEFINE e == Released(d, lb)
           kept == {x \in DOMAIN d["lb_private_networks"] :
                      d["lb_private_networks"][x].lb_id # lb}
<1>0. /\ DOMAIN e = LbTables
      /\ \A u \in LbTables \ {"lb_private_networks", "lb_ips"} : e[u] = d[u]
      /\ e["lb_private_networks"] = [k \in kept |-> d["lb_private_networks"][k]]
      /\ e["lb_ips"] = [ip \in DOMAIN d["lb_ips"] |->
           IF d["lb_ips"][ip].doc = lb /\ d["lb_ips"][ip].zone = d["lbs"][lb].zone
           THEN LbIpRow(d["lb_ips"][ip].zone, Null) ELSE d["lb_ips"][ip]]
  BY ReleasedRows, Zenon
<1> HIDE DEF e
<1>1. /\ DOMAIN e["lb_ips"] = DOMAIN d["lb_ips"]
      /\ e["lb_ips"] = [ip \in DOMAIN e["lb_ips"] |-> e["lb_ips"][ip]]
      /\ \A ip \in DOMAIN d["lb_ips"] :
           e["lb_ips"][ip] \in {d["lb_ips"][ip], LbIpRow(d["lb_ips"][ip].zone, Null)}
  BY <1>0
<1>2. \A u \in LbTables : DOMAIN e[u] \subseteq DOMAIN d[u]
  BY <1>0, <1>1
<1>3. ASSUME NEW u \in LbTables, u # "lb_ips", NEW x \in DOMAIN e[u] PROVE e[u][x] = d[u][x]
  BY <1>0, <1>3
<1>4. ASSUME NEW x \in DOMAIN e["lb_ips"] PROVE e["lb_ips"][x] \in RowsOf("lb_ips")
  <2>1. d["lb_ips"][x] \in RowsOf("lb_ips")
    BY <1>0, <1>1 DEF Good, Typed, LbTables
  <2>2. \A row \in RowsOf("lb_ips") : LbIpRow(row.zone, Null) \in RowsOf("lb_ips")
    BY DEF RowsOf, LbIpRow
  <2>3. QED BY <1>0, <1>1, <2>1, <2>2
<1>5. \A u \in LbTables : e[u] = [x \in DOMAIN e[u] |-> e[u][x]]
  BY <1>0, <1>1 DEF Good, Typed
<1>6. ASSUME NEW u \in LbTables, NEW x \in DOMAIN e[u]
      PROVE  x \in IdsOf(u) /\ e[u][x] \in RowsOf(u)
  BY <1>2, <1>3, <1>4 DEF Good, Typed
<1>7. Typed(e)
  BY <1>0, <1>1, <1>5, <1>6 DEF Typed
<1>8. ASSUME NEW fk \in Keys, NEW k \in DOMAIN e[fk.child]
      PROVE  e[fk.child][k][fk.col] \in DOMAIN e[fk.parent] \cup {Null}
  <2>1. k \in DOMAIN d[fk.child] /\ e[fk.child][k] = d[fk.child][k]
    BY <1>2, <1>3, LbKeysEnd
  <2>2. fk.parent \in LbTables \ {"lb_private_networks", "lb_ips"}
    BY LbKeysEnd DEF LbTables
  <2>3. QED BY <1>0, <1>1, <2>1, <2>2 DEF Good, RefIntegrity
<1>9. QED BY <1>7, <1>8 DEF Good, RefIntegrity, e

\* Whatever a statement or transaction does, the tables stay good.
LEMMA StepKeepsGood ==
  ASSUME NEW home, NEW iss, NEW d, Good(d), NEW e, Step(home, iss, d, e)
  PROVE  Good(e)
<1>1. CASE d = e
  BY <1>1
<1>2. CASE Inserted(home, iss, d, e) \/ Updated(home, iss, d, e)
  BY <1>2, InsertKeepsGood, UpdateKeepsGood DEF Inserted, Updated
<1>3. CASE Deleted(d, e)
  BY <1>3, DeleteKeepsGood DEF Deleted
<1>4. CASE LbDeleted(d, e)
  BY <1>4, ReleaseKeepsGood, DeleteKeepsGood DEF LbDeleted, LbTables
<1>5. QED BY <1>1, <1>2, <1>3, <1>4 DEF Step

-----------------------------------------------------------------------------
(***************************************************************************)
(* Homes.                                                                  *)
(***************************************************************************)

\* DeleteLB takes the load balancer and what it owns away, and frees IPs.
LEMMA LbDeletedRows ==
  ASSUME NEW d, Good(d), NEW lb \in DOMAIN d["lbs"], NEW e,
         e = DeleteRow(Keys, Released(d, lb), "lbs", lb)
  PROVE  /\ DOMAIN e = LbTables
         /\ \A u \in LbTables : DOMAIN e[u] \subseteq DOMAIN d[u]
         /\ \A u \in LbTables \ {"lb_ips"} : \A x \in DOMAIN e[u] : e[u][x] = d[u][x]
         /\ DOMAIN e["lb_ips"] = DOMAIN d["lb_ips"]
         /\ \A ip \in DOMAIN d["lb_ips"] : e["lb_ips"][ip] = Released(d, lb)["lb_ips"][ip]
         /\ DOMAIN e["lbs"] = DOMAIN d["lbs"] \ {lb}
<1> DEFINE n == Released(d, lb)
<1>1. Good(n)
  BY ReleaseKeepsGood
<1>2. ASSUME NEW u \in LbTables
      PROVE  /\ DOMAIN e[u] = DOMAIN n[u] \ Doomed(Keys, n, "lbs", lb, u)
             /\ \A x \in DOMAIN e[u] : e[u][x] = n[u][x]
  BY <1>1, DeleteTakesAway
<1>0. /\ DOMAIN n = LbTables
      /\ \A u \in LbTables \ {"lb_private_networks", "lb_ips"} : n[u] = d[u]
      /\ n["lb_private_networks"]
           = [k \in {x \in DOMAIN d["lb_private_networks"] :
                       d["lb_private_networks"][x].lb_id # lb}
                |-> d["lb_private_networks"][k]]
      /\ n["lb_ips"]
           = [ip \in DOMAIN d["lb_ips"] |->
                IF d["lb_ips"][ip].doc = lb /\ d["lb_ips"][ip].zone = d["lbs"][lb].zone
                THEN LbIpRow(d["lb_ips"][ip].zone, Null) ELSE d["lb_ips"][ip]]
  BY ReleasedRows, Zenon
<1> HIDE DEF n
<1>3. /\ DOMAIN n["lb_ips"] = DOMAIN d["lb_ips"]
      /\ DOMAIN n["lb_private_networks"] \subseteq DOMAIN d["lb_private_networks"]
      /\ \A x \in DOMAIN n["lb_private_networks"] :
           n["lb_private_networks"][x] = d["lb_private_networks"][x]
  BY <1>0
<1>4. DOMAIN e = LbTables
  BY <1>0, <1>3 DEF DeleteRow, n
<1>5. ASSUME NEW u \in LbTables
      PROVE  /\ DOMAIN e[u] \subseteq DOMAIN d[u]
             /\ u # "lb_ips" => \A x \in DOMAIN e[u] : e[u][x] = d[u][x]
  <2>1. CASE u \in {"lb_ips", "lb_private_networks"}
    BY <1>2, <1>0, <1>3, <2>1
  <2>2. CASE u \notin {"lb_ips", "lb_private_networks"}
    BY <1>2, <1>0, <1>3, <2>2
  <2>3. QED BY <2>1, <2>2
<1>6. Doomed(Keys, n, "lbs", lb, "lb_ips") = {} /\ Doomed(Keys, n, "lbs", lb, "lbs") = {lb}
  <2>1. \A fk \in Keys : fk.child \notin {"lb_ips", "lbs"}
    BY LbKeysEnd
  <2>2. lb \in DOMAIN n["lbs"]
    BY <1>0, <1>3 DEF LbTables
  <2>3. QED BY <2>1, <2>2 DEF Doomed
<1>7. /\ DOMAIN e["lb_ips"] = DOMAIN d["lb_ips"]
      /\ \A ip \in DOMAIN d["lb_ips"] : e["lb_ips"][ip] = n["lb_ips"][ip]
  <2>1. /\ DOMAIN e["lb_ips"] = DOMAIN n["lb_ips"] \ {}
        /\ \A x \in DOMAIN e["lb_ips"] : e["lb_ips"][x] = n["lb_ips"][x]
    BY <1>2, <1>6 DEF LbTables
  <2>2. QED BY <1>3, <2>1
<1>8. DOMAIN e["lbs"] = DOMAIN d["lbs"] \ {lb}
  <2>1. DOMAIN e["lbs"] = DOMAIN n["lbs"] \ {lb}
    BY <1>2, <1>6 DEF LbTables
  <2>2. QED BY <1>0, <2>1 DEF LbTables
<1>9. QED BY <1>4, <1>5, <1>7, <1>8 DEF n

\* A Step writes only rows that are at home.
LEMMA StepKeepsHome ==
  ASSUME NEW home, NEW iss, NEW d, Good(d), TablesAtHome(home, iss, d),
         NEW e, Step(home, iss, d, e)
  PROVE  TablesAtHome(home, iss, e)
<1>1. CASE d = e
  BY <1>1
<1>2. CASE Inserted(home, iss, d, e)
  <2>1. PICK t \in LbTables : \E k \in IdsOf(t), row \in RowsOf(t) :
          /\ k \notin DOMAIN d[t] /\ RowAtHome(home, iss, t, k, row)
          /\ e = InsertRow(d, t, k, row)
    BY <1>2 DEF Inserted
  <2>2. QED BY <2>1, InsertAddsOneRow DEF TablesAtHome, Good, Typed
<1>3. CASE Updated(home, iss, d, e)
  <2>1. PICK t \in LbTables : \E k \in DOMAIN d[t], row \in RowsOf(t) :
          RowAtHome(home, iss, t, k, row) /\ e = UpdateRow(d, t, k, row)
    BY <1>3 DEF Updated
  <2>2. QED BY <2>1, UpdateChangesOneRow DEF TablesAtHome, Good, Typed
<1>4. CASE Deleted(d, e)
  BY <1>4, DeleteTakesAway DEF Deleted, TablesAtHome
<1>5. CASE LbDeleted(d, e)
  <2>1. \A row : RowAtHome(home, iss, "lb_ips", row, e["lb_ips"][row])
    BY DEF RowAtHome, Below
  <2>2. PICK lb \in DOMAIN d["lbs"] : e = DeleteRow(Keys, Released(d, lb), "lbs", lb)
    BY <1>5 DEF LbDeleted
  <2>3. /\ \A u \in LbTables : DOMAIN e[u] \subseteq DOMAIN d[u]
        /\ \A u \in LbTables \ {"lb_ips"} : \A x \in DOMAIN e[u] : e[u][x] = d[u][x]
    BY <2>2, LbDeletedRows
  <2>4. QED BY <2>1, <2>3 DEF TablesAtHome
<1>6. QED BY <1>1, <1>2, <1>3, <1>4, <1>5 DEF Step

\* What the locals of a handler are, by the statement it is at.
LEMMA LocalsTyped ==
  ASSUME NEW r \in Requests
  PROVE  /\ r.at = "InsertLB" => r.lb \in Lbs /\ r.zone \in Zones /\ r.ip \in LbIps
         /\ r.at = "AttachLBIP" => r.lb \in Lbs /\ r.ip \in LbIps
         /\ r.at = "DeleteLBIP" => r.ip \in LbIps
         /\ r.at \in {"InsertFrontend", "FrontendBackend"} =>
              r.key \in Frontends /\ r.row \in FrontendRows
         /\ r.at \in {"RouteFrontend", "RouteBackend"} =>
              r.key \in Routes /\ r.row \in RouteRows
         /\ r.at = "RouteBackend" =>
              r.then \in {"InsertRoute", "WriteBack"} /\ r.lb \in Lbs \cup {Null}
         /\ r.at = "InsertRoute" =>
              r.table = "lb_routes" /\ r.key \in Routes /\ r.row \in RouteRows
         /\ r.at = "WriteBack" =>
              r.table \in UpdatedTables /\ r.key \in IdsOf(r.table) /\ r.row \in RowsOf(r.table)
BY DEF Requests

\* The new home says of uuids already issued what the old one says.
Extends(home, h) ==
  issued \subseteq issued' /\ \A id \in issued \cap DOMAIN home : h[id] = home[id]

\* A row at home stays there when uuids are issued.
LEMMA RowStaysAtHome ==
  ASSUME NEW home \in Homes, NEW h, Extends(home, h),
         NEW t \in LbTables, NEW k \in IdsOf(t), NEW row \in RowsOf(t),
         RowAtHome(home, issued, t, k, row)
  PROVE  RowAtHome(h, issued', t, k, row)
<1>1. DOMAIN home = Frontends \cup Backends \cup Acls \cup Routes \cup Certificates
  BY DEF Homes
<1>2. t \in Below => k \in DOMAIN home
  BY <1>1 DEF Below, IdsOf
<1>3. t = "lb_routes" => /\ row.frontend_id # Null => row.frontend_id \in DOMAIN home
                         /\ row.backend_id # Null => row.backend_id \in DOMAIN home
  BY <1>1 DEF RowsOf, RouteRows
<1>4. QED BY <1>2, <1>3 DEF RowAtHome, Placed, OnOneLb, Extends

\* So do the locals of a handler.
LEMMA LocalsStayAtHome ==
  ASSUME NEW home \in Homes, NEW h, Extends(home, h), NEW r \in Requests,
         LocalsAtHome(home, issued, r)
  PROVE  LocalsAtHome(h, issued', r)
<1>1. /\ IdsOf("lb_frontends") = Frontends /\ RowsOf("lb_frontends") = FrontendRows
      /\ IdsOf("lb_routes") = Routes /\ RowsOf("lb_routes") = RouteRows
      /\ {"lb_frontends", "lb_routes"} \cup UpdatedTables \subseteq LbTables
  BY DEF IdsOf, RowsOf, UpdatedTables, LbTables
<1>2. r.at \in {"InsertFrontend", "FrontendBackend"} =>
        RowAtHome(h, issued', "lb_frontends", r.key, r.row)
  BY <1>1, LocalsTyped, RowStaysAtHome DEF LocalsAtHome
<1>3. r.at \in {"InsertRoute", "WriteBack"} => RowAtHome(h, issued', r.table, r.key, r.row)
  BY <1>1, LocalsTyped, RowStaysAtHome DEF LocalsAtHome
<1>4. r.at \in {"RouteFrontend", "RouteBackend"} =>
        /\ Placed(h, issued', "lb_routes", r.key, r.row)
        /\ OnOneLb(h, issued', r.row.frontend_id, r.row)
  BY LocalsTyped DEF LocalsAtHome, Placed, OnOneLb, Extends, Homes, RouteRows
<1>5. QED BY <1>2, <1>3, <1>4 DEF LocalsAtHome

-----------------------------------------------------------------------------
(***************************************************************************)
(* Every action is a Step and leaves its client with locals that agree.    *)
(***************************************************************************)
Ready(home) == Good(db) /\ req \in [Clients -> Requests] /\ AtHome(home)

\* Client c goes on, or is answered, with locals that agree with home h.
Handled(h, c) ==
  \E r \in Requests : LocalsAtHome(h, issued', r) /\ req' = [req EXCEPT ![c] = r]

Fits(home, c) ==
  \E h \in Homes : Extends(home, h) /\ Step(h, issued', db, db') /\ Handled(h, c)

\* That is all the invariant needs.
LEMMA FittingKeepsInvariant ==
  ASSUME NEW home \in Homes, Ready(home), NEW c \in Clients, Fits(home, c)
  PROVE  IInv'
<1>1. PICK h \in Homes : Extends(home, h) /\ Step(h, issued', db, db') /\ Handled(h, c)
  BY DEF Fits
<1>2. PICK r \in Requests : LocalsAtHome(h, issued', r) /\ req' = [req EXCEPT ![c] = r]
  BY <1>1 DEF Handled
<1>3. Good(db')
  BY <1>1, StepKeepsGood DEF Ready
<1>4. req' \in [Clients -> Requests]
  BY <1>2 DEF Ready
<1>5. TablesAtHome(h, issued', db)
  BY <1>1, RowStaysAtHome DEF Ready, AtHome, TablesAtHome, Good, Typed
<1>6. TablesAtHome(h, issued', db')
  BY <1>1, <1>5, StepKeepsHome DEF Ready
<1>7. ASSUME NEW d \in Clients PROVE LocalsAtHome(h, issued', req'[d])
  <2>1. CASE d = c
    BY <1>2, <2>1 DEF Ready
  <2>2. CASE d # c
    <3>1. req'[d] = req[d] /\ req[d] \in Requests /\ LocalsAtHome(home, issued, req[d])
      BY <1>2, <2>2 DEF Ready, AtHome
    <3>2. QED BY <1>1, <3>1, LocalsStayAtHome
  <2>3. QED BY <2>1, <2>2
<1>8. QED BY <1>3, <1>4, <1>6, <1>7 DEF IInv, AtHome

\* An answer leaves nothing to agree about.
LEMMA AnswersFit ==
  ASSUME NEW h, NEW c, NEW status \in Statuses, Answer(c, status)
  PROVE  Handled(h, c)
<1>1. Answered(status) \in Requests
  BY DEF Answered, Requests
<1>2. LocalsAtHome(h, issued', Answered(status))
  BY DEF Answered, LocalsAtHome
<1>3. QED BY <1>1, <1>2 DEF Answer, Continue, Handled

\* The answers that statements give.
LEMMA StatusesGiven == {"ok", "not_found", "conflict", "invalid"} \subseteq Statuses
BY DEF Statuses

\* A home serves as long as no uuid that it has to place is issued.
LEMMA SameHome ==
  ASSUME NEW home, issued \subseteq issued'
  PROVE  Extends(home, home)
BY DEF Extends

\* A fresh uuid can be placed anywhere.
LEMMA NewHome ==
  ASSUME NEW home \in Homes, NEW id \in DOMAIN home \ issued, NEW v \in Lbs \cup Frontends,
         issued' = issued \cup {id}
  PROVE  /\ [home EXCEPT ![id] = v] \in Homes
         /\ Extends(home, [home EXCEPT ![id] = v])
         /\ [home EXCEPT ![id] = v][id] = v
BY DEF Homes, Extends

\* A step that changes no table, with locals that agree.
LEMMA WaitingFits ==
  ASSUME NEW home \in Homes, NEW h \in Homes, Extends(home, h), UNCHANGED db, NEW c,
         NEW r \in Requests, LocalsAtHome(h, issued', r), Continue(c, r)
  PROVE  Fits(home, c)
BY DEF Fits, Step, Handled, Continue

\* An answer without a change.
LEMMA RefusalFits ==
  ASSUME NEW home \in Homes, UNCHANGED db, issued \subseteq issued', NEW c,
         NEW status \in Statuses, Answer(c, status)
  PROVE  Fits(home, c)
BY SameHome, AnswersFit DEF Fits, Step

\* The INSERT of a row at home, accepted or not.
LEMMA InsertFits ==
  ASSUME NEW home \in Homes, NEW h \in Homes, Extends(home, h), NEW c,
         NEW t \in LbTables, NEW k \in IdsOf(t), NEW row \in RowsOf(t),
         RowAtHome(h, issued', t, k, row), InsertJSON(Keys, c, t, k, row)
  PROVE  Fits(home, c)
<1>1. CASE UNCHANGED db /\ \E status \in Statuses : Answer(c, status)
  BY <1>1, AnswersFit DEF Fits, Step
<1>2. CASE /\ ~Found(t, k) /\ RowOK(Keys, db, t, row)
           /\ db' = InsertRow(db, t, k, row)
           /\ Answer(c, "ok")
  <2>1. Inserted(h, issued', db, db')
    BY <1>2 DEF Inserted, Found
  <2>2. QED BY <1>2, <2>1, AnswersFit, StatusesGiven DEF Fits, Step
<1>3. QED BY <1>1, <1>2, StatusesGiven DEF InsertJSON

\* Creating a row in one statement.
LEMMA CreateFits ==
  ASSUME NEW home \in Homes, NEW c, NEW t \in LbTables \ {"lb_routes"}, NEW k \in IdsOf(t),
         NEW row \in RowsOf(t), t \in Below => ParentOf(t, row) \in Lbs \cup Frontends,
         CreateSimple(Keys, c, t, k, row)
  PROVE  Fits(home, c)
<1>1. k \notin issued /\ issued' = issued \cup {k} /\ InsertJSON(Keys, c, t, k, row)
  BY DEF CreateSimple
<1>2. CASE t \notin Below
  <2>1. RowAtHome(home, issued', t, k, row)
    BY <1>2 DEF RowAtHome, Below
  <2>2. QED BY <1>1, <2>1, SameHome, InsertFits
<1>3. CASE t \in Below
  <2> DEFINE h == [home EXCEPT ![k] = ParentOf(t, row)]
  <2>1. k \in DOMAIN home
    BY <1>3 DEF Homes, IdsOf, Below
  <2>2. h \in Homes /\ Extends(home, h) /\ h[k] = ParentOf(t, row)
    BY <1>1, <1>3, <2>1, NewHome
  <2>3. RowAtHome(h, issued', t, k, row)
    BY <1>1, <2>2 DEF RowAtHome, Placed
  <2>4. QED BY <1>1, <2>2, <2>3, InsertFits
<1>4. QED BY <1>2, <1>3

\* A DELETE of anything but a load balancer.
LEMMA DeleteFits ==
  ASSUME NEW home \in Homes, NEW c, NEW t \in LbTables \ {"lbs"}, NEW k,
         DeleteBy(Keys, c, t, k)
  PROVE  Fits(home, c)
<1>1. issued' = issued
  BY DEF DeleteBy
<1>2. CASE UNCHANGED db /\ \E status \in Statuses : Answer(c, status)
  BY <1>1, <1>2, RefusalFits
<1>3. CASE /\ Found(t, k) /\ ~Blocked(Keys, db, t, k)
           /\ db' = DeleteRow(Keys, db, t, k)
           /\ Answer(c, "ok")
  <2>1. Deleted(db, db')
    BY <1>3 DEF Deleted, Found
  <2>2. QED BY <1>1, <1>3, <2>1, SameHome, AnswersFit, StatusesGiven DEF Fits, Step
<1>4. QED BY <1>2, <1>3, StatusesGiven DEF DeleteBy

\* What is in the tables is of the right kind.
LEMMA FoundRow ==
  ASSUME NEW home, Ready(home), NEW t \in LbTables, NEW k, Found(t, k)
  PROVE  k \in IdsOf(t) /\ db[t][k] \in RowsOf(t) /\ RowAtHome(home, issued, t, k, db[t][k])
BY DEF Ready, Good, Typed, Found, AtHome, TablesAtHome

\* The sets of ids and rows, table by table.
LEMMA LbSchema ==
  /\ IdsOf("lbs") = Lbs /\ RowsOf("lbs") = [zone : Zones]
  /\ IdsOf("lb_ips") = LbIps /\ RowsOf("lb_ips") = [zone : Zones, doc : Lbs \cup {Null}]
  /\ IdsOf("lb_frontends") = Frontends /\ RowsOf("lb_frontends") = FrontendRows
  /\ IdsOf("lb_backends") = Backends /\ RowsOf("lb_backends") = [lb_id : Lbs]
  /\ IdsOf("lb_routes") = Routes /\ RowsOf("lb_routes") = RouteRows
  /\ IdsOf("lb_acls") = Acls /\ RowsOf("lb_acls") = [frontend_id : Frontends]
  /\ IdsOf("lb_certificates") = Certificates /\ RowsOf("lb_certificates") = [lb_id : Lbs]
  /\ IdsOf("private_networks") = Networks /\ RowsOf("private_networks") = {NetworkRow}
  /\ IdsOf("lb_private_networks") = Lbs \X Networks
  /\ RowsOf("lb_private_networks") = [lb_id : Lbs, private_network_id : Networks]
  /\ UpdatedTables \subseteq LbTables /\ Below \subseteq LbTables
BY DEF IdsOf, RowsOf, UpdatedTables, LbTables, Below

\* Operations of one statement, but for DeleteLB.
LEMMA StatementsFit ==
  ASSUME NEW home \in Homes, NEW c \in Clients,
         \/ CreatePrivateNetwork(c) \/ DeletePrivateNetwork(c) \/ CreateLBIP(c)
         \/ CreateLBWithoutIP(c) \/ DeleteFrontend(c) \/ CreateBackend(c) \/ DeleteBackend(c)
         \/ AttachLBPrivateNetwork(c) \/ DetachLBPrivateNetwork(c)
         \/ CreateLBACL(c) \/ DeleteLBACL(c) \/ DeleteLBRoute(c)
         \/ CreateLBCertificate(c) \/ DeleteLBCertificate(c)
  PROVE  Fits(home, c)
<1>1. CASE CreatePrivateNetwork(c)
  BY <1>1, LbSchema, CreateFits DEF CreatePrivateNetwork, LbTables, Below
<1>2. CASE CreateLBIP(c)
  <2>1. \A z \in Zones : LbIpRow(z, Null) \in RowsOf("lb_ips")
    BY LbSchema DEF LbIpRow
  <2>2. QED BY <1>2, <2>1, LbSchema, CreateFits DEF CreateLBIP, LbTables, Below
<1>3. CASE CreateLBWithoutIP(c)
  <2>1. \A z \in Zones : LbRow(z) \in RowsOf("lbs")
    BY LbSchema DEF LbRow
  <2>2. QED BY <1>3, <2>1, LbSchema, CreateFits DEF CreateLBWithoutIP, LbTables, Below
<1>4. CASE CreateBackend(c)
  <2>1. \A lb \in Lbs : /\ BelowLb(lb) \in RowsOf("lb_backends")
                        /\ ParentOf("lb_backends", BelowLb(lb)) = lb
    BY LbSchema DEF BelowLb, ParentOf
  <2>2. QED BY <1>4, <2>1, LbSchema, CreateFits DEF CreateBackend, LbTables
<1>5. CASE CreateLBCertificate(c)
  <2>1. \A lb \in Lbs : /\ BelowLb(lb) \in RowsOf("lb_certificates")
                        /\ ParentOf("lb_certificates", BelowLb(lb)) = lb
    BY LbSchema DEF BelowLb, ParentOf
  <2>2. QED BY <1>5, <2>1, LbSchema, CreateFits DEF CreateLBCertificate, LbTables
<1>6. CASE CreateLBACL(c)
  <2>1. \A fe \in Frontends : /\ AclRow(fe) \in RowsOf("lb_acls")
                              /\ ParentOf("lb_acls", AclRow(fe)) = fe
    BY LbSchema DEF AclRow, ParentOf
  <2>2. QED BY <1>6, <2>1, LbSchema, CreateFits DEF CreateLBACL, LbTables
<1>7. CASE AttachLBPrivateNetwork(c)
  <2>1. PICK lb \in Lbs, pn \in Networks :
          InsertJSON(Keys, c, "lb_private_networks", <<lb, pn>>, AttachmentRow(lb, pn))
    BY <1>7 DEF AttachLBPrivateNetwork
  <2>2. /\ AttachmentRow(lb, pn) \in RowsOf("lb_private_networks")
        /\ <<lb, pn>> \in IdsOf("lb_private_networks")
        /\ RowAtHome(home, issued', "lb_private_networks", <<lb, pn>>, AttachmentRow(lb, pn))
    BY LbSchema DEF AttachmentRow, RowAtHome, Below
  <2>3. Extends(home, home)
    BY <1>7, SameHome DEF AttachLBPrivateNetwork
  <2>4. QED BY <2>1, <2>2, <2>3, InsertFits DEF LbTables
<1>8. CASE \/ DeletePrivateNetwork(c) \/ DeleteFrontend(c) \/ DeleteBackend(c)
           \/ DetachLBPrivateNetwork(c) \/ DeleteLBACL(c) \/ DeleteLBRoute(c)
           \/ DeleteLBCertificate(c)
  BY <1>8, DeleteFits
     DEF DeletePrivateNetwork, DeleteFrontend, DeleteBackend, DetachLBPrivateNetwork,
         DeleteLBACL, DeleteLBRoute, DeleteLBCertificate, LbTables
<1>9. QED BY <1>1, <1>2, <1>3, <1>4, <1>5, <1>6, <1>7, <1>8

\* Locals of handlers that are about load balancers and IPs have no home.
LEMMA LbLocals ==
  ASSUME NEW h, NEW iss, NEW lb \in Lbs, NEW z \in Zones, NEW ip \in LbIps,
         NEW r \in { [at |-> "InsertLB", lb |-> lb, zone |-> z, ip |-> ip],
                     [at |-> "AttachLBIP", lb |-> lb, ip |-> ip],
                     [at |-> "DeleteLBIP", ip |-> ip] }
  PROVE  r \in Requests /\ LocalsAtHome(h, iss, r)
BY DEF Requests, LocalsAtHome

\* Nor have those that will write an IP.
LEMMA IpLocals ==
  ASSUME NEW h, NEW iss, NEW ip \in LbIps, NEW z \in Zones, NEW lb \in Lbs \cup {Null}
  PROVE  LET r == [at |-> "WriteBack", table |-> "lb_ips", key |-> ip,
                   row |-> LbIpRow(z, lb)]
         IN  r \in Requests /\ LocalsAtHome(h, iss, r)
<1> DEFINE r == [at |-> "WriteBack", table |-> "lb_ips", key |-> ip, row |-> LbIpRow(z, lb)]
<1>1. r \in [at : {"WriteBack"}, table : {"lb_ips"}, key : IdsOf("lb_ips"),
             row : RowsOf("lb_ips")]
  BY LbSchema DEF LbIpRow
<1>2. r \in Requests
  BY <1>1 DEF Requests, UpdatedTables
<1>3. LocalsAtHome(h, iss, r)
  BY DEF LocalsAtHome, RowAtHome, Below
<1>4. QED BY <1>2, <1>3

\* UpdateLBIP, and CreateLB as far as it is the same.
LEMMA ReadLBIPFits ==
  ASSUME NEW home \in Homes, Ready(home), NEW c \in Clients,
         NEW ip \in LbIps, NEW lb \in Lbs \cup {Null}, ReadLBIP(c, ip, lb)
  PROVE  Fits(home, c)
<1>1. CASE Answer(c, "not_found")
  BY <1>1, RefusalFits, StatusesGiven DEF ReadLBIP
<1>2. CASE /\ Found("lb_ips", ip)
           /\ Continue(c, [at |-> "WriteBack", table |-> "lb_ips", key |-> ip,
                           row |-> LbIpRow(db["lb_ips"][ip].zone, lb)])
  <2>1. db["lb_ips"][ip] \in [zone : Zones, doc : Lbs \cup {Null}]
    BY <1>2, FoundRow, LbSchema DEF LbTables
  <2>2. db["lb_ips"][ip].zone \in Zones
    BY <2>1
  <2>3. QED BY <1>2, <2>2, IpLocals, SameHome, WaitingFits DEF ReadLBIP
<1>3. QED BY <1>1, <1>2 DEF ReadLBIP

\* Creating a load balancer with an IP.
LEMMA CreateLBFits ==
  ASSUME NEW home \in Homes, Ready(home), NEW c \in Clients,
         CheckLBIP(c) \/ InsertLB(c) \/ AttachLBIP(c)
  PROVE  Fits(home, c)
<1>1. CASE CheckLBIP(c)
  <2>1. UNCHANGED db /\ issued \subseteq issued'
    BY <1>1 DEF CheckLBIP
  <2>2. CASE \E status \in Statuses : Answer(c, status)
    BY <2>1, <2>2, RefusalFits
  <2>3. CASE \E lb \in Lbs, z \in Zones, ip \in LbIps :
               Continue(c, [at |-> "InsertLB", lb |-> lb, zone |-> z, ip |-> ip])
    BY <2>1, <2>3, LbLocals, SameHome, WaitingFits
  <2>4. QED BY <1>1, <2>2, <2>3, StatusesGiven DEF CheckLBIP
<1>2. CASE InsertLB(c)
  <2> DEFINE r == req[c]
             next == [at |-> "AttachLBIP", lb |-> r.lb, ip |-> r.ip]
             row == LbRow(r.zone)
  <2>1. r.lb \in Lbs /\ r.zone \in Zones /\ r.ip \in LbIps
    BY <1>2, LocalsTyped DEF InsertLB, Ready
  <2>2. next \in Requests /\ LocalsAtHome(home, issued', next)
    BY <2>1, LbLocals
  <2>3. issued' = issued /\ Continue(c, next) /\ db' = InsertRow(db, "lbs", r.lb, row)
    BY <1>2 DEF InsertLB
  <2>4. Handled(home, c)
    BY <2>2, <2>3 DEF Handled, Continue
  <2>5. /\ row \in RowsOf("lbs") /\ r.lb \in IdsOf("lbs")
        /\ RowOK(Keys, db, "lbs", row) /\ RowAtHome(home, issued', "lbs", r.lb, row)
    BY <2>1, LbSchema, LbKeysEnd DEF LbRow, RowOK, RowAtHome, Below
  <2>6. Step(home, issued', db, db')
    <3>1. CASE r.lb \notin DOMAIN db["lbs"]
      BY <2>3, <2>5, <3>1 DEF Step, Inserted, LbTables
    <3>2. CASE r.lb \in DOMAIN db["lbs"]
      <4>1. "lbs" \in DOMAIN db /\ db["lbs"] = [x \in DOMAIN db["lbs"] |-> db["lbs"][x]]
        BY DEF Ready, Good, Typed, LbTables
      <4>2. db' = UpdateRow(db, "lbs", r.lb, row)
        BY <2>3, <3>2, <4>1, InsertOverRow
      <4>3. QED BY <2>5, <3>2, <4>2 DEF Step, Updated, LbTables
    <3>3. QED BY <3>1, <3>2
  <2>7. QED BY <2>3, <2>4, <2>6, SameHome DEF Fits
<1>3. CASE AttachLBIP(c)
  <2>1. req[c].lb \in Lbs /\ req[c].ip \in LbIps
    BY <1>3, LocalsTyped DEF AttachLBIP, Ready
  <2>2. QED BY <1>3, <2>1, ReadLBIPFits DEF AttachLBIP
<1>4. QED BY <1>1, <1>2, <1>3

\* Changing and deleting IPs.
LEMMA LbIpsFit ==
  ASSUME NEW home \in Homes, Ready(home), NEW c \in Clients,
         UpdateLBIP(c) \/ CheckLBIPDetached(c) \/ DeleteLBIP(c)
  PROVE  Fits(home, c)
<1>1. CASE UpdateLBIP(c)
  <2>1. ASSUME NEW ip \in LbIps, Found("lb_ips", ip)
        PROVE  db["lb_ips"][ip].doc \in Lbs \cup {Null}
    <3>1. db["lb_ips"][ip] \in [zone : Zones, doc : Lbs \cup {Null}]
      BY <2>1, FoundRow, LbSchema DEF LbTables
    <3>2. QED BY <3>1
  <2>2. QED BY <1>1, <2>1, ReadLBIPFits DEF UpdateLBIP
<1>2. CASE CheckLBIPDetached(c)
  <2>1. UNCHANGED db /\ issued \subseteq issued'
    BY <1>2 DEF CheckLBIPDetached
  <2>2. CASE \E status \in Statuses : Answer(c, status)
    BY <2>1, <2>2, RefusalFits
  <2>3. CASE \E ip \in LbIps : Continue(c, [at |-> "DeleteLBIP", ip |-> ip])
    <3>1. \A ip \in LbIps : [at |-> "DeleteLBIP", ip |-> ip] \in Requests
      BY DEF Requests
    <3>2. \A ip \in LbIps : LocalsAtHome(home, issued', [at |-> "DeleteLBIP", ip |-> ip])
      BY DEF LocalsAtHome
    <3>3. QED BY <2>1, <2>3, <3>1, <3>2, SameHome, WaitingFits
  <2>4. QED BY <1>2, <2>2, <2>3, StatusesGiven DEF CheckLBIPDetached
<1>3. CASE DeleteLBIP(c)
  BY <1>3, DeleteFits DEF DeleteLBIP, LbTables
<1>4. QED BY <1>1, <1>2, <1>3

\* Deleting a load balancer.
LEMMA DeleteLBFits ==
  ASSUME NEW home \in Homes, Ready(home), NEW c \in Clients, DeleteLB(c)
  PROVE  Fits(home, c)
<1>1. issued' = issued
  BY DEF DeleteLB
<1>2. CASE UNCHANGED db /\ \E status \in Statuses : Answer(c, status)
  BY <1>1, <1>2, RefusalFits
<1>3. CASE LbDeleted(db, db') /\ Answer(c, "ok")
  BY <1>1, <1>3, SameHome, AnswersFit, StatusesGiven DEF Fits, Step
<1>4. QED BY <1>2, <1>3, StatusesGiven DEF DeleteLB, LbDeleted, Released, Found

\* What the tables say of a frontend or a backend is its home.
LEMMA FoundAtHome ==
  ASSUME NEW home, Ready(home), NEW t \in {"lb_frontends", "lb_backends"}, NEW k, Found(t, k)
  PROVE  Moves = {} => k \in issued /\ db[t][k].lb_id = home[k]
<1>1. t \in LbTables /\ t \in Below /\ t # "lb_acls"
  BY DEF LbTables, Below
<1>2. QED BY <1>1, FoundRow DEF RowAtHome, Placed, ParentOf

\* Locals about a frontend, before and after its backend is looked up.
LEMMA FrontendLocals ==
  ASSUME NEW h, NEW iss, NEW fe \in Frontends, NEW row \in FrontendRows,
         RowAtHome(h, iss, "lb_frontends", fe, row),
         NEW r \in { [at |-> "InsertFrontend", key |-> fe, row |-> row],
                     [at |-> "FrontendBackend", key |-> fe, row |-> row],
                     [at |-> "WriteBack", table |-> "lb_frontends", key |-> fe, row |-> row] }
  PROVE  r \in Requests /\ LocalsAtHome(h, iss, r)
<1>1. [at |-> "WriteBack", table |-> "lb_frontends", key |-> fe, row |-> row]
        \in [at : {"WriteBack"}, table : {"lb_frontends"}, key : IdsOf("lb_frontends"),
             row : RowsOf("lb_frontends")]
  BY LbSchema
<1>2. r \in Requests
  BY <1>1 DEF Requests, UpdatedTables
<1>3. LocalsAtHome(h, iss, r)
  BY DEF LocalsAtHome
<1>4. QED BY <1>2, <1>3

\* Creating and updating frontends.
LEMMA FrontendsFit ==
  ASSUME NEW home \in Homes, Ready(home), NEW c \in Clients,
         \/ CreateFrontend(c) \/ InsertFrontend(c) \/ UpdateFrontend(c)
         \/ CheckFrontendBackend(c)
  PROVE  Fits(home, c)
<1>1. CASE CreateFrontend(c)
  <2>1. PICK fe \in Frontends \ issued, lb \in Lbs, be \in Backends \cup {Null} :
          /\ UNCHANGED db /\ issued' = issued \cup {fe}
          /\ \/ Answer(c, "not_found")
             \/ Continue(c, [at |-> "InsertFrontend", key |-> fe, row |-> FrontendRow(lb, be)])
    BY <1>1 DEF CreateFrontend
  <2> DEFINE h == [home EXCEPT ![fe] = lb]
             row == FrontendRow(lb, be)
  <2>2. CASE Answer(c, "not_found")
    BY <2>1, <2>2, RefusalFits, StatusesGiven
  <2>3. CASE Continue(c, [at |-> "InsertFrontend", key |-> fe, row |-> row])
    <3>1. h \in Homes /\ Extends(home, h) /\ h[fe] = lb
      BY <2>1, NewHome DEF Homes
    <3>2. row \in FrontendRows /\ ParentOf("lb_frontends", row) = lb
      BY DEF FrontendRow, FrontendRows, ParentOf
    <3>3. RowAtHome(h, issued', "lb_frontends", fe, row)
      BY <2>1, <3>1, <3>2 DEF RowAtHome, Placed
    <3>4. QED BY <2>1, <2>3, <3>1, <3>2, <3>3, FrontendLocals, WaitingFits
  <2>4. QED BY <2>1, <2>2, <2>3
<1>2. CASE InsertFrontend(c)
  <2>1. /\ req[c].key \in IdsOf("lb_frontends") /\ req[c].row \in RowsOf("lb_frontends")
        /\ RowAtHome(home, issued, "lb_frontends", req[c].key, req[c].row)
    BY <1>2, LocalsTyped, LbSchema DEF InsertFrontend, Ready, AtHome, LocalsAtHome
  <2>2. issued' = issued
    BY <1>2 DEF InsertFrontend
  <2>3. QED BY <1>2, <2>1, <2>2, SameHome, InsertFits DEF InsertFrontend, LbTables
<1>3. CASE UpdateFrontend(c)
  <2>1. UNCHANGED db /\ issued' = issued
    BY <1>3 DEF UpdateFrontend
  <2>2. CASE Answer(c, "not_found")
    BY <2>1, <2>2, RefusalFits, StatusesGiven
  <2>3. CASE ~Answer(c, "not_found")
    <3>1. PICK fe \in Frontends :
            /\ Found("lb_frontends", fe)
            /\ \E be \in Backends \cup {Null, db["lb_frontends"][fe].backend_id} :
               \E lb \in PatchedLbs(db["lb_frontends"][fe]) :
                 Continue(c, [at |-> "FrontendBackend", key |-> fe,
                              row |-> FrontendRow(lb, be)])
      BY <1>3, <2>3 DEF UpdateFrontend
    <3> DEFINE old == db["lb_frontends"][fe]
    <3>2. PICK be \in Backends \cup {Null, old.backend_id}, lb \in PatchedLbs(old) :
            Continue(c, [at |-> "FrontendBackend", key |-> fe, row |-> FrontendRow(lb, be)])
      BY <3>1
    <3> DEFINE row == FrontendRow(lb, be)
    <3>3. old \in FrontendRows /\ RowAtHome(home, issued, "lb_frontends", fe, old)
      BY <3>1, FoundRow, LbSchema DEF LbTables
    <3>4. row \in FrontendRows /\ (Moves = {} => row.lb_id = old.lb_id)
      BY <3>2, <3>3 DEF FrontendRows, FrontendRow, PatchedLbs
    <3>5. RowAtHome(home, issued', "lb_frontends", fe, row)
      BY <2>1, <3>3, <3>4 DEF RowAtHome, Placed, ParentOf
    <3>6. QED BY <2>1, <3>2, <3>4, <3>5, FrontendLocals, SameHome, WaitingFits
  <2>4. QED BY <2>2, <2>3
<1>4. CASE CheckFrontendBackend(c)
  <2> DEFINE r == req[c]
  <2>1. UNCHANGED db /\ issued' = issued
    BY <1>4 DEF CheckFrontendBackend
  <2>2. /\ r.key \in Frontends /\ r.row \in FrontendRows
        /\ RowAtHome(home, issued, "lb_frontends", r.key, r.row)
    BY <1>4, LocalsTyped DEF CheckFrontendBackend, Ready, AtHome, LocalsAtHome
  <2>3. CASE Answer(c, "not_found")
    BY <2>1, <2>3, RefusalFits, StatusesGiven
  <2>4. CASE Continue(c, [at |-> "WriteBack", table |-> "lb_frontends", key |-> r.key,
                          row |-> r.row])
    BY <2>1, <2>2, <2>4, FrontendLocals, SameHome, WaitingFits
  <2>5. QED BY <1>4, <2>3, <2>4 DEF CheckFrontendBackend
<1>5. QED BY <1>1, <1>2, <1>3, <1>4

\* Locals about a route before its look-ups are done.
LEMMA RouteLocals ==
  ASSUME NEW h, NEW iss, NEW route \in Routes, NEW row \in RouteRows,
         Placed(h, iss, "lb_routes", route, row), OnOneLb(h, iss, row.frontend_id, row),
         NEW then \in {"InsertRoute", "WriteBack"}, NEW lb \in Lbs \cup {Null},
         NEW r \in { [at |-> "RouteFrontend", key |-> route, row |-> row],
                     [at |-> "RouteBackend", then |-> then, key |-> route, lb |-> lb,
                      row |-> row] },
         r.at = "RouteBackend" /\ Moves = {} => lb = row.lb_id
  PROVE  r \in Requests /\ LocalsAtHome(h, iss, r)
BY DEF Requests, LocalsAtHome

\* Locals about a route when they are done.
LEMMA RouteCheckedLocals ==
  ASSUME NEW h, NEW iss, NEW r, r.then \in {"InsertRoute", "WriteBack"},
         r.key \in Routes, r.row \in RouteRows,
         RowAtHome(h, iss, "lb_routes", r.key, r.row)
  PROVE  RouteChecked(r) \in Requests /\ LocalsAtHome(h, iss, RouteChecked(r))
<1>1. CASE r.then = "InsertRoute"
  BY <1>1 DEF RouteChecked, Requests, LocalsAtHome
<1>2. CASE r.then = "WriteBack"
  <2>1. RouteChecked(r) \in [at : {"WriteBack"}, table : {"lb_routes"},
                             key : IdsOf("lb_routes"), row : RowsOf("lb_routes")]
    BY <1>2, LbSchema DEF RouteChecked
  <2>2. QED BY <1>2, <2>1 DEF RouteChecked, Requests, UpdatedTables, LocalsAtHome
<1>3. QED BY <1>1, <1>2

\* Creating and updating routes, up to the look-up of the backend.
LEMMA RoutesBeginFitting ==
  ASSUME NEW home \in Homes, Ready(home), NEW c \in Clients,
         CreateLBRoute(c) \/ UpdateLBRoute(c) \/ CheckRouteFrontend(c)
  PROVE  Fits(home, c)
<1>1. CASE CreateLBRoute(c)
  <2>1. PICK route \in Routes \ issued, fe \in Frontends, be \in Backends \cup {Null} :
          /\ UNCHANGED db /\ issued' = issued \cup {route}
          /\ \/ Answer(c, "not_found")
             \/ /\ Found("lb_frontends", fe)
                /\ LET lb == db["lb_frontends"][fe].lb_id IN
                   Continue(c, [at |-> "RouteBackend", then |-> "InsertRoute", key |-> route,
                                lb |-> lb, row |-> RouteRow(lb, fe, be)])
    BY <1>1 DEF CreateLBRoute
  <2> DEFINE lb == db["lb_frontends"][fe].lb_id
             row == RouteRow(lb, fe, be)
             h == [home EXCEPT ![route] = lb]
  <2>2. CASE Answer(c, "not_found")
    BY <2>1, <2>2, RefusalFits, StatusesGiven
  <2>3. CASE /\ Found("lb_frontends", fe)
             /\ Continue(c, [at |-> "RouteBackend", then |-> "InsertRoute", key |-> route,
                             lb |-> lb, row |-> row])
    <3>1. Moves = {} => fe \in issued /\ lb = home[fe]
      BY <2>3, FoundAtHome
    <3>2. lb \in Lbs
      <4>1. db["lb_frontends"][fe] \in FrontendRows
        BY <2>3, FoundRow, LbSchema DEF LbTables
      <4>2. QED BY <4>1 DEF FrontendRows
    <3>3. h \in Homes /\ Extends(home, h) /\ h[route] = lb
      BY <2>1, <3>2, NewHome DEF Homes
    <3>4. row \in RouteRows /\ row.lb_id = lb /\ row.frontend_id = fe
      BY <3>2 DEF RouteRow, RouteRows
    <3>5. Placed(h, issued', "lb_routes", route, row)
      BY <2>1, <3>3, <3>4 DEF Placed, ParentOf
    <3>6. OnOneLb(h, issued', row.frontend_id, row)
      BY <2>1, <3>1, <3>3, <3>4, LbIdsAreNotNull DEF OnOneLb, Extends, Homes
    <3> HIDE DEF lb, row, h
    <3>7. QED BY <2>1, <2>3, <3>2, <3>3, <3>4, <3>5, <3>6, RouteLocals, WaitingFits
  <2>4. QED BY <2>1, <2>2, <2>3
<1>2. CASE UpdateLBRoute(c)
  <2>1. UNCHANGED db /\ issued' = issued
    BY <1>2 DEF UpdateLBRoute
  <2>2. CASE Answer(c, "not_found")
    BY <2>1, <2>2, RefusalFits, StatusesGiven
  <2>3. CASE ~Answer(c, "not_found")
    <3>1. PICK route \in Routes :
            /\ Found("lb_routes", route)
            /\ LET old == db["lb_routes"][route] IN
               \E lb \in PatchedLbs(old),
                  fe \in PatchedFrontends(old) \cup (Moves \cap {Null}),
                  be \in Backends \cup {Null, old.backend_id} :
                 Continue(c, [at |-> "RouteFrontend", key |-> route,
                              row |-> RouteRow(lb, fe, be)])
      BY <1>2, <2>3 DEF UpdateLBRoute
    <3> DEFINE old == db["lb_routes"][route]
    <3>2. PICK lb \in PatchedLbs(old), fe \in PatchedFrontends(old) \cup (Moves \cap {Null}),
               be \in Backends \cup {Null, old.backend_id} :
            Continue(c, [at |-> "RouteFrontend", key |-> route, row |-> RouteRow(lb, fe, be)])
      BY <3>1
    <3> DEFINE row == RouteRow(lb, fe, be)
    <3>3. old \in RouteRows /\ RowAtHome(home, issued, "lb_routes", route, old)
      BY <3>1, FoundRow, LbSchema DEF LbTables
    <3>4. /\ row \in RouteRows
          /\ Moves = {} => row.lb_id = old.lb_id /\ row.frontend_id = old.frontend_id
      BY <3>2, <3>3 DEF RouteRows, RouteRow, PatchedLbs, PatchedFrontends
    <3>5. /\ Placed(home, issued', "lb_routes", route, row)
          /\ OnOneLb(home, issued', row.frontend_id, row)
      BY <2>1, <3>3, <3>4 DEF RowAtHome, Placed, OnOneLb, ParentOf, Below
    <3>6. row.lb_id \in Lbs
      BY <3>4 DEF RouteRows
    <3>7. LET r == [at |-> "RouteFrontend", key |-> route, row |-> row]
          IN  r \in Requests /\ LocalsAtHome(home, issued', r)
      BY <3>4, <3>5, <3>6, RouteLocals
    <3>8. QED BY <2>1, <3>2, <3>7, SameHome, WaitingFits
  <2>4. QED BY <2>2, <2>3
<1>3. CASE CheckRouteFrontend(c)
  <2> DEFINE r == req[c]
             fe == r.row.frontend_id
             lb == IF fe = Null THEN Null ELSE db["lb_frontends"][fe].lb_id
             next == [at |-> "RouteBackend", then |-> "WriteBack", key |-> r.key,
                      lb |-> lb, row |-> r.row]
  <2>1. UNCHANGED db /\ issued' = issued
    BY <1>3 DEF CheckRouteFrontend
  <2>2. /\ r.key \in Routes /\ r.row \in RouteRows
        /\ Placed(home, issued, "lb_routes", r.key, r.row) /\ OnOneLb(home, issued, fe, r.row)
    BY <1>3, LocalsTyped DEF CheckRouteFrontend, Ready, AtHome, LocalsAtHome
  <2>3. CASE Answer(c, "not_found")
    BY <2>1, <2>3, RefusalFits, StatusesGiven
  <2>4. CASE (fe # Null => Found("lb_frontends", fe)) /\ Continue(c, next)
    <3>1. fe # Null => /\ lb \in Lbs
                       /\ Moves = {} => lb = home[fe]
      <4>1. fe # Null => db["lb_frontends"][fe] \in FrontendRows
        BY <2>4, FoundRow, LbSchema DEF LbTables
      <4>2. QED BY <2>4, <4>1, FoundAtHome DEF FrontendRows
    <3>2. lb \in Lbs \cup {Null} /\ (Moves = {} => lb = r.row.lb_id)
      BY <2>2, <3>1 DEF OnOneLb
    <3> HIDE DEF lb
    <3>3. next \in Requests /\ LocalsAtHome(home, issued', next)
      BY <2>1, <2>2, <3>2, RouteLocals
    <3>4. QED BY <2>1, <2>4, <3>3, SameHome, WaitingFits
  <2>5. QED BY <1>3, <2>3, <2>4 DEF CheckRouteFrontend
<1>4. QED BY <1>1, <1>2, <1>3

\* The look-up of the backend, which decides that all are on one load balancer, and the INSERT.
LEMMA RoutesEndFitting ==
  ASSUME NEW home \in Homes, Ready(home), NEW c \in Clients,
         CheckRouteBackend(c) \/ InsertRoute(c)
  PROVE  Fits(home, c)
<1> DEFINE r == req[c]
           be == r.row.backend_id
<1>1. CASE CheckRouteBackend(c)
  <2>1. UNCHANGED db /\ issued' = issued
    BY <1>1 DEF CheckRouteBackend
  <2>2. /\ r.key \in Routes /\ r.row \in RouteRows /\ (Moves = {} => r.lb = r.row.lb_id)
        /\ r.then \in {"InsertRoute", "WriteBack"}
        /\ Placed(home, issued, "lb_routes", r.key, r.row)
        /\ OnOneLb(home, issued, r.row.frontend_id, r.row)
    BY <1>1, LocalsTyped DEF CheckRouteBackend, Ready, AtHome, LocalsAtHome
  <2>3. CASE \E status \in Statuses : Answer(c, status)
    BY <2>1, <2>3, RefusalFits
  <2>4. CASE /\ be # Null => Found("lb_backends", be) /\ db["lb_backends"][be].lb_id \in SameLb(r)
             /\ Continue(c, RouteChecked(r))
    <3>1. be # Null => OnOneLb(home, issued, be, r.row)
      <4>1. Moves = {} => SameLb(r) = {r.lb}
        BY <2>2, LbIdsAreNotNull DEF SameLb, RouteRows
      <4>2. QED BY <2>2, <2>4, <4>1, FoundAtHome DEF OnOneLb
    <3>2. RowAtHome(home, issued', "lb_routes", r.key, r.row)
      BY <2>1, <2>2, <3>1 DEF RowAtHome
    <3>3. RouteChecked(r) \in Requests /\ LocalsAtHome(home, issued', RouteChecked(r))
      BY <2>2, <3>2, RouteCheckedLocals
    <3>4. QED BY <2>1, <2>4, <3>3, SameHome, WaitingFits
  <2>5. QED BY <1>1, <2>3, <2>4, StatusesGiven DEF CheckRouteBackend
<1>2. CASE InsertRoute(c)
  <2>1. /\ r.key \in IdsOf("lb_routes") /\ r.row \in RowsOf("lb_routes")
        /\ RowAtHome(home, issued, "lb_routes", r.key, r.row)
    BY <1>2, LocalsTyped, LbSchema DEF InsertRoute, Ready, AtHome, LocalsAtHome
  <2>2. issued' = issued
    BY <1>2 DEF InsertRoute
  <2>3. QED BY <1>2, <2>1, <2>2, SameHome, InsertFits DEF InsertRoute, LbTables
<1>3. QED BY <1>1, <1>2

\* A body merged into a row leaves a row of the same table, and at home if nothing moves.
LEMMA PatchedAtHome ==
  ASSUME NEW home, NEW iss, NEW t \in {"lbs", "lb_backends", "lb_acls", "lb_certificates"},
         NEW k, NEW old \in RowsOf(t), RowAtHome(home, iss, t, k, old),
         NEW row \in PatchedRows(t, old)
  PROVE  row \in RowsOf(t) /\ RowAtHome(home, iss, t, k, row)
<1>1. CASE t = "lbs"
  BY <1>1 DEF PatchedRows
<1>2. CASE t = "lb_acls"
  <2>1. PICK fe \in PatchedFrontends(old) : row = AclRow(fe)
    BY <1>2 DEF PatchedRows
  <2>2. old \in [frontend_id : Frontends]
    BY <1>2, LbSchema
  <2>3. fe \in Frontends /\ (Moves = {} => fe = old.frontend_id)
    BY <2>1, <2>2 DEF PatchedFrontends
  <2>4. row \in RowsOf(t) /\ row.frontend_id = fe
    BY <1>2, <2>1, <2>3, LbSchema DEF AclRow
  <2>5. QED BY <1>2, <2>3, <2>4 DEF RowAtHome, Placed, ParentOf
<1>3. CASE t \in {"lb_backends", "lb_certificates"}
  <2>1. PICK lb \in PatchedLbs(old) : row = BelowLb(lb)
    BY <1>3 DEF PatchedRows
  <2>2. old \in [lb_id : Lbs]
    BY <1>3, LbSchema
  <2>3. lb \in Lbs /\ (Moves = {} => lb = old.lb_id)
    BY <2>1, <2>2 DEF PatchedLbs
  <2>4. row \in RowsOf(t) /\ row.lb_id = lb
    BY <1>3, <2>1, <2>3, LbSchema DEF BelowLb
  <2>5. QED BY <1>3, <2>3, <2>4 DEF RowAtHome, Placed, ParentOf
<1>4. QED BY <1>1, <1>2, <1>3

\* The other updates, and the UPDATE of all of them.
LEMMA UpdatesFit ==
  ASSUME NEW home \in Homes, Ready(home), NEW c \in Clients, ReadRow(c) \/ WriteBack(c)
  PROVE  Fits(home, c)
<1>1. CASE ReadRow(c)
  <2>1. UNCHANGED db /\ issued' = issued
    BY <1>1 DEF ReadRow
  <2>2. CASE Answer(c, "not_found")
    BY <2>1, <2>2, RefusalFits, StatusesGiven
  <2>3. CASE \E t \in {"lbs", "lb_backends", "lb_acls", "lb_certificates"} : \E k :
               /\ Found(t, k)
               /\ \E row \in PatchedRows(t, db[t][k]) :
                    Continue(c, [at |-> "WriteBack", table |-> t, key |-> k, row |-> row])
    <3>1. PICK t \in {"lbs", "lb_backends", "lb_acls", "lb_certificates"} : \E k :
            /\ Found(t, k)
            /\ \E row \in PatchedRows(t, db[t][k]) :
                 Continue(c, [at |-> "WriteBack", table |-> t, key |-> k, row |-> row])
      BY <2>3
    <3>2. PICK k :
            /\ Found(t, k)
            /\ \E row \in PatchedRows(t, db[t][k]) :
                 Continue(c, [at |-> "WriteBack", table |-> t, key |-> k, row |-> row])
      BY <3>1
    <3>0. PICK row \in PatchedRows(t, db[t][k]) :
            Continue(c, [at |-> "WriteBack", table |-> t, key |-> k, row |-> row])
      BY <3>2
    <3> DEFINE next == [at |-> "WriteBack", table |-> t, key |-> k, row |-> row]
    <3>3. t \in LbTables /\ t \in UpdatedTables /\ t # "lb_routes"
      BY DEF LbTables, UpdatedTables
    <3>4. k \in IdsOf(t) /\ row \in RowsOf(t) /\ RowAtHome(home, issued, t, k, row)
      BY <3>0, <3>2, <3>3, FoundRow, PatchedAtHome
    <3>5. next \in [at : {"WriteBack"}, table : {t}, key : IdsOf(t), row : RowsOf(t)]
      BY <3>4
    <3>6. next \in Requests
      BY <3>3, <3>5 DEF Requests
    <3>7. LocalsAtHome(home, issued', next)
      BY <2>1, <3>4 DEF LocalsAtHome
    <3>8. QED BY <2>1, <3>0, <3>6, <3>7, SameHome, WaitingFits
  <2>4. QED BY <1>1, <2>2, <2>3 DEF ReadRow
<1>2. CASE WriteBack(c)
  <2> DEFINE r == req[c]
  <2>1. issued' = issued
    BY <1>2 DEF WriteBack
  <2>2. /\ r.table \in UpdatedTables /\ r.row \in RowsOf(r.table)
        /\ RowAtHome(home, issued, r.table, r.key, r.row)
    BY <1>2, LocalsTyped DEF WriteBack, Ready, AtHome, LocalsAtHome
  <2>3. CASE UNCHANGED db /\ \E status \in Statuses : Answer(c, status)
    BY <2>1, <2>3, RefusalFits
  <2>4. CASE /\ WriteBackOK(r)
             /\ db' = UpdateRow(db, r.table, r.key, r.row)
             /\ Answer(c, "ok")
    <3>1. CASE Found(r.table, r.key)
      <4>1. Updated(home, issued', db, db')
        BY <2>1, <2>2, <2>4, <3>1, LbSchema DEF Updated, WriteBackOK, Found
      <4>2. QED BY <2>1, <2>4, <4>1, SameHome, AnswersFit, StatusesGiven DEF Fits, Step
    <3>2. CASE ~Found(r.table, r.key)
      <4>1. UNCHANGED db
        BY <2>4, <3>2 DEF UpdateRow, Found
      <4>2. QED BY <2>1, <2>4, <4>1, RefusalFits, StatusesGiven
    <3>3. QED BY <3>1, <3>2
  <2>5. QED BY <1>2, <2>3, <2>4, StatusesGiven DEF WriteBack
<1>3. QED BY <1>1, <1>2

\* Every action.
LEMMA ActionsFit ==
  ASSUME NEW home \in Homes, Ready(home), NEW c \in Clients, Arrive(c) \/ Proceed(c)
  PROVE  Fits(home, c)
<1>1. CASE Arrive(c)
  BY <1>1, StatementsFit, CreateLBFits, LbIpsFit, DeleteLBFits, FrontendsFit,
     RoutesBeginFitting, UpdatesFit DEF Arrive
<1>2. CASE Proceed(c)
  BY <1>2, CreateLBFits, LbIpsFit, FrontendsFit, RoutesBeginFitting, RoutesEndFitting,
     UpdatesFit DEF Proceed
<1>3. QED BY <1>1, <1>2

-----------------------------------------------------------------------------
(***************************************************************************)
(* The invariant and what follows from it.                                 *)
(***************************************************************************)

\* No row, no request in progress: any home will do.
LEMMA InitFits == Init => IInv
<1>1. SUFFICES ASSUME Init PROVE IInv
  OBVIOUS
<1>2. DOMAIN db = LbTables /\ \A t \in LbTables : db[t] = EmptyTable
  BY <1>1 DEF Init
<1>3. Good(db)
  <2>1. \A t \in LbTables : DOMAIN db[t] = {} /\ db[t] = [k \in DOMAIN db[t] |-> db[t][k]]
    BY <1>2 DEF EmptyTable
  <2>2. Typed(db)
    BY <1>2, <2>1 DEF Typed
  <2>3. RefIntegrity(Keys, db)
    BY <2>1, LbKeysEnd DEF RefIntegrity
  <2>4. QED BY <2>2, <2>3 DEF Good
<1>4. Answered("ok") \in Requests
  BY StatusesGiven DEF Answered, Requests
<1>5. /\ req \in [Clients -> Requests]
      /\ \A c \in Clients : req[c].at = "answered"
  BY <1>1, <1>4 DEF Init, Answered
<1>6. /\ [id \in Frontends \cup Backends \cup Acls \cup Routes \cup Certificates |-> Null]
           \in Homes
      /\ \A home : AtHome(home)
  BY <1>2, <1>5 DEF Homes, AtHome, TablesAtHome, EmptyTable, LocalsAtHome
<1>7. QED BY <1>3, <1>5, <1>6 DEF IInv

\* Every step keeps it.
LEMMA StepKeepsInvariant == IInv /\ [Next]_vars => IInv'
<1>1. SUFFICES ASSUME IInv, [Next]_vars PROVE IInv'
  OBVIOUS
<1>2. CASE UNCHANGED vars
  BY <1>1, <1>2
     DEF vars, IInv, Good, Typed, RefIntegrity, AtHome, TablesAtHome
<1>3. CASE Next
  <2>1. PICK home \in Homes : Ready(home)
    BY <1>1 DEF IInv, Ready
  <2>2. PICK c \in Clients : Arrive(c) \/ Proceed(c)
    BY <1>3 DEF Next
  <2>3. QED BY <2>1, <2>2, ActionsFit, FittingKeepsInvariant
<1>4. QED BY <1>1, <1>2, <1>3

\* The tables are good, and, where updates move no row to another parent, handlers and
\* tables agree on one home.
THEOREM LbInvariant == Spec => []IInv
BY InitFits, StepKeepsInvariant, PTL DEF Spec

\* Every table holds well-formed rows under ids of its own kind, and every handler is at
\* a statement it can be at, with the locals it has there.
THEOREM LbTypeCorrect == Spec => []LbTypeOK
<1>1. IInv => LbTypeOK
  BY DEF IInv, Good, Typed, LbTypeOK
<1>2. QED BY <1>1, LbInvariant, PTL

\* Where updates move no row to another parent, an UPDATE whose row is still there finds
\* what the row refers to: the columns it writes are those of the row, which the foreign
\* keys have kept alive.
THEOREM UpdatesMeetTheirReferences ==
  ASSUME Moves = {}
  PROVE  Spec => []UpdatesFindTheirReferences
<1>1. ASSUME IInv, NEW c \in Clients, req[c].at = "WriteBack" PROVE WriteBackOK(req[c])
  <2> DEFINE r == req[c]
             old == db[r.table][r.key]
  <2>1. PICK home \in Homes : Ready(home)
    BY <1>1 DEF IInv, Ready
  <2>2. SUFFICES ASSUME Found(r.table, r.key), NEW fk \in Keys, fk.child = r.table
                 PROVE  r.row[fk.col] \in DOMAIN db[fk.parent] \cup {Null}
    BY DEF WriteBackOK, RowOK
  <2>3. /\ r.table \in UpdatedTables /\ r.key \in IdsOf(r.table)
        /\ RowAtHome(home, issued, r.table, r.key, r.row)
    BY <1>1, <2>1, LocalsTyped DEF Ready, AtHome, LocalsAtHome
  <2>4. RowAtHome(home, issued, r.table, r.key, old)
    BY <2>1, <2>2, <2>3, FoundRow, LbSchema
  <2>5. r.table \in Below /\ \A row : row[fk.col] = ParentOf(r.table, row)
    BY <2>2, <2>3, KeysOfBelow DEF UpdatedTables, Below, ParentOf
  <2>6. r.row[fk.col] = old[fk.col]
    BY <2>3, <2>4, <2>5 DEF RowAtHome, Placed
  <2>7. old[fk.col] \in DOMAIN db[fk.parent] \cup {Null}
    BY <2>1, <2>2 DEF Ready, Good, RefIntegrity, Found
  <2>8. QED BY <2>6, <2>7
<1>2. IInv => UpdatesFindTheirReferences
  BY <1>1 DEF UpdatesFindTheirReferences
<1>3. QED BY <1>2, LbInvariant, PTL

\* Where updates move no row to another parent, a route, its frontend and its backend are
\* on one load balancer: the home of all three.
THEOREM RoutesNeverLeaveTheirLb ==
  ASSUME Moves = {}
  PROVE  Spec => []RoutesStayWithinOneLb
<1>1. ASSUME IInv, NEW k \in DOMAIN db["lb_routes"]
      PROVE  LET route == db["lb_routes"][k] IN
             /\ route.frontend_id \in DOMAIN db["lb_frontends"] =>
                  db["lb_frontends"][route.frontend_id].lb_id = route.lb_id
             /\ route.backend_id \in DOMAIN db["lb_backends"] =>
                  db["lb_backends"][route.backend_id].lb_id = route.lb_id
  <2> DEFINE route == db["lb_routes"][k]
  <2>1. PICK home \in Homes : Ready(home)
    BY <1>1 DEF IInv, Ready
  <2>2. RowAtHome(home, issued, "lb_routes", k, route)
    BY <2>1 DEF Ready, AtHome, TablesAtHome, LbTables
  <2>3. route.backend_id \in DOMAIN db["lb_backends"] => route.backend_id # Null
    <3>1. DOMAIN db["lb_backends"] \subseteq Backends
      BY <2>1, LbSchema DEF Ready, Good, Typed, LbTables
    <3>2. QED BY <3>1, LbIdsAreNotNull
  <2>4. /\ route.lb_id = home[route.frontend_id]
        /\ route.backend_id # Null => route.lb_id = home[route.backend_id]
    BY <2>2 DEF RowAtHome, OnOneLb
  <2>5. QED BY <2>1, <2>3, <2>4, FoundAtHome DEF Found
<1>2. IInv => RoutesStayWithinOneLb
  BY <1>1 DEF RoutesStayWithinOneLb
<1>3. QED BY <1>2, LbInvariant, PTL

-----------------------------------------------------------------------------
(***************************************************************************)
(* Every Step is a step of the store, or none.                             *)
(***************************************************************************)

\* The references of the store are the keys of the schema.
LEMMA StoreReferences ==
  /\ Store!References = Keys
  /\ \A fk \in Keys : /\ fk.child \in LbTables /\ fk.parent \in LbTables
                      /\ fk.action \in {NoAction, Cascade}
  /\ With(Keys, SetNull) = {}
<1>1. \A fk \in Keys : /\ fk.child \in LbTables /\ fk.parent \in LbTables
                       /\ fk.action \in {NoAction, Cascade}
  BY LbKeysEnd DEF LbTables
<1>2. QED BY <1>1 DEF Store!References, With, Attachments, NoAction, Cascade, SetNull

\* A row that the foreign keys accept is settled.
LEMMA AcceptedRowsAreSettled ==
  ASSUME Good(db), Good(db'), NEW t \in LbTables, NEW k \in DOMAIN db'[t],
         RowOK(Keys, db, t, db'[t][k])
  PROVE  Store!Settled(t, ReferencesIn(Keys, db')[t][k])
<1>1. \A fk \in Keys : fk.parent \in DOMAIN db
  BY StoreReferences DEF Good, Typed
<1>2. t \in DOMAIN db'
  BY DEF Good, Typed
<1>3. QED BY <1>1, <1>2, AcceptedRowSeen, StoreReferences DEF Store!Settled, Store!Live

\* An INSERT is a resource that appears.
LEMMA InsertIsAppear ==
  ASSUME Good(db), Good(db'), NEW home, Inserted(home, issued', db, db')
  PROVE  Store!Next
<1> DEFINE old == ReferencesIn(Keys, db)
           new == ReferencesIn(Keys, db')
<1>1. PICK t \in LbTables : \E k, row :
        /\ k \notin DOMAIN db[t] /\ RowOK(Keys, db, t, row)
        /\ db' = InsertRow(db, t, k, row)
  BY DEF Inserted
<1>2. PICK k, row : /\ k \notin DOMAIN db[t] /\ RowOK(Keys, db, t, row)
                    /\ db' = InsertRow(db, t, k, row)
  BY <1>1
<1>3. /\ DOMAIN db = LbTables /\ DOMAIN db' = LbTables
      /\ \A u \in LbTables \ {t} : db'[u] = db[u]
      /\ DOMAIN db'[t] = DOMAIN db[t] \cup {k}
      /\ db'[t][k] = row
      /\ \A x \in DOMAIN db[t] : db'[t][x] = db[t][x]
  BY <1>2, InsertAddsOneRow DEF Good, Typed
<1>4. /\ DOMAIN new[t] = DOMAIN old[t] \cup {k}
      /\ k \notin DOMAIN old[t]
      /\ \A x \in DOMAIN old[t] : new[t][x] = old[t][x]
  <2>1. DOMAIN new[t] = DOMAIN db'[t] /\ DOMAIN old[t] = DOMAIN db[t]
    BY <1>3, ReferencesSeen
  <2>2. \A x \in DOMAIN db[t] : new[t][x] = old[t][x]
    BY <1>3, SameRowSeen
  <2>3. QED BY <1>2, <1>3, <2>1, <2>2
<1>5. \A u \in LbTables \ {t} : new[u] = old[u]
  BY <1>3, SameRowsSeen
<1>6. Store!Settled(t, new[t][k])
  BY <1>2, <1>3, AcceptedRowsAreSettled
<1>7. Store!Appear(t, k)
  BY <1>4, <1>5, <1>6 DEF Store!Appear, Store!Live, Store!Unchanged
<1>8. QED BY <1>4, <1>7 DEF Store!Next, Store!Live

\* An UPDATE is a resource that refers to others from now on, if it changes references.
LEMMA UpdateIsRelink ==
  ASSUME Good(db), Good(db'), NEW home, Updated(home, issued', db, db')
  PROVE  [Store!Next]_(ReferencesIn(Keys, db))
<1> DEFINE old == ReferencesIn(Keys, db)
           new == ReferencesIn(Keys, db')
<1>1. PICK t \in LbTables : \E k \in DOMAIN db[t] : \E row :
        RowOK(Keys, db, t, row) /\ db' = UpdateRow(db, t, k, row)
  BY DEF Updated
<1>2. PICK k \in DOMAIN db[t] : \E row :
        RowOK(Keys, db, t, row) /\ db' = UpdateRow(db, t, k, row)
  BY <1>1
<1>3. PICK row : RowOK(Keys, db, t, row) /\ db' = UpdateRow(db, t, k, row)
  BY <1>2
<1>4. /\ DOMAIN db = LbTables /\ DOMAIN db' = LbTables
      /\ \A u \in LbTables \ {t} : db'[u] = db[u]
      /\ DOMAIN db'[t] = DOMAIN db[t]
      /\ db'[t][k] = row
      /\ \A x \in DOMAIN db[t] \ {k} : db'[t][x] = db[t][x]
  BY <1>3, UpdateChangesOneRow DEF Good, Typed
<1>5. /\ DOMAIN new[t] = DOMAIN old[t]
      /\ k \in DOMAIN old[t]
      /\ \A x \in DOMAIN old[t] \ {k} : new[t][x] = old[t][x]
  <2>1. DOMAIN new[t] = DOMAIN db'[t] /\ DOMAIN old[t] = DOMAIN db[t]
    BY <1>4, ReferencesSeen
  <2>2. \A x \in DOMAIN db[t] \ {k} : new[t][x] = old[t][x]
    BY <1>4, SameRowSeen
  <2>3. QED BY <1>4, <2>1, <2>2
<1>6. \A u \in LbTables \ {t} : new[u] = old[u]
  BY <1>4, SameRowsSeen
<1>7. Store!Settled(t, new[t][k])
  BY <1>3, <1>4, AcceptedRowsAreSettled
<1>8. Store!Relink(t, k)
  BY <1>5, <1>6, <1>7 DEF Store!Relink, Store!Live, Store!Unchanged
<1>9. CASE new[t] # old[t]
  BY <1>5, <1>8, <1>9 DEF Store!Next, Store!Live
<1>10. CASE new[t] = old[t]
  BY <1>4, <1>6, <1>10, SameTablesSeen
<1>11. QED BY <1>9, <1>10

\* What a row takes along with it, through cascades or in DeleteLB.
Taken(d, t, k, u) ==
  {x \in DOMAIN d[u] :
     \/ u = t /\ x = k
     \/ \E fk \in With(Keys, Cascade) \cup Attachments :
          fk.child = u /\ fk.parent = t /\ d[u][x][fk.col] = k}

\* If a row goes with what it takes along, while no other row refers to it, and all
\* other references stay as they are, then a resource disappears.
LEMMA TakingIsDisappear ==
  ASSUME Good(db), Good(db'), NEW t \in LbTables, NEW k \in DOMAIN db[t],
         \A fk \in With(Keys, NoAction) \ Attachments : fk.parent = t =>
           \A x \in DOMAIN db[fk.child] : db[fk.child][x][fk.col] # k,
         \A u \in LbTables : DOMAIN db'[u] = DOMAIN db[u] \ Taken(db, t, k, u),
         \A u \in LbTables : \A x \in DOMAIN db'[u] :
           ReferencesIn(Keys, db')[u][x] = ReferencesIn(Keys, db)[u][x]
  PROVE  Store!Next
<1> DEFINE old == ReferencesIn(Keys, db)
           new == ReferencesIn(Keys, db')
<1>1. DOMAIN db = LbTables /\ DOMAIN db' = LbTables
  BY DEF Good, Typed
<1>2. /\ \A u \in LbTables : DOMAIN old[u] = DOMAIN db[u] /\ DOMAIN new[u] = DOMAIN db'[u]
      /\ \A fk \in Keys : \A x \in DOMAIN db[fk.child] :
           old[fk.child][x][fk.col] = db[fk.child][x][fk.col]
  BY <1>1, ReferencesSeen, StoreReferences
<1>3. ASSUME NEW u \in LbTables PROVE Store!Goes(t, k, u) = Taken(db, t, k, u)
  <2> DEFINE Owning == With(Keys, Cascade) \cup Attachments
  <2>1. Owning \subseteq Keys
    BY DEF With, Attachments
  <2>2. ASSUME NEW fk \in Owning, fk.child = u, NEW x \in DOMAIN db[u]
        PROVE  old[u][x][fk.col] = db[u][x][fk.col]
    BY <1>2, <2>1, <2>2
  <2>3. Store!Goes(t, k, u) = {x \in DOMAIN old[u] :
           \/ u = t /\ x = k
           \/ \E fk \in Owning : fk.child = u /\ fk.parent = t /\ old[u][x][fk.col] = k}
    BY DEF Store!Goes, Store!Live
  <2> HIDE DEF Owning, old
  <2>4. Taken(db, t, k, u) = {x \in DOMAIN db[u] :
           \/ u = t /\ x = k
           \/ \E fk \in Owning : fk.child = u /\ fk.parent = t /\ db[u][x][fk.col] = k}
    BY DEF Taken, Owning
  <2>5. DOMAIN old[u] = DOMAIN db[u]
    BY <1>2
  <2>6. QED BY <2>2, <2>3, <2>4, <2>5
<1>4. ASSUME NEW u \in LbTables, NEW x \in DOMAIN db[u]
      PROVE  Store!Detached(t, k, u, old[u][x]) = old[u][x]
  <2>1. old[u][x] = [col \in Columns(Keys, u) |-> db[u][x][col]]
    BY <1>1, ReferencesSeen
  <2>2. Store!Detached(t, k, u, old[u][x]) = [col \in DOMAIN old[u][x] |-> old[u][x][col]]
    BY StoreReferences DEF Store!Detached
  <2>3. QED BY <2>1, <2>2
<1>5. \A fk \in With(Keys, NoAction) \ Attachments : fk.parent = t =>
        \A x \in DOMAIN old[fk.child] : old[fk.child][x][fk.col] # k
  BY <1>2, StoreReferences DEF With
<1>6. ASSUME NEW u \in LbTables
      PROVE  /\ DOMAIN new[u] = DOMAIN old[u] \ Store!Goes(t, k, u)
             /\ \A x \in DOMAIN old[u] \ Store!Goes(t, k, u) :
                  new[u][x] = Store!Detached(t, k, u, old[u][x])
  BY <1>2, <1>3, <1>4
<1>7. Store!Disappear(t, k)
  BY <1>2, <1>5, <1>6 DEF Store!Disappear, Store!Live
<1>8. k \notin DOMAIN new[t]
  BY <1>2 DEF Taken
<1>9. new[t] # old[t] /\ k \in DOMAIN old[t] \ DOMAIN new[t]
  BY <1>2, <1>8
<1>10. QED BY <1>7, <1>9 DEF Store!Next, Store!Live

\* A DELETE.
LEMMA DeleteIsDisappear ==
  ASSUME Good(db), Good(db'), Deleted(db, db')
  PROVE  Store!Next
<1>1. PICK t \in LbTables \ {"lbs"} : \E k \in DOMAIN db[t] :
        ~Blocked(Keys, db, t, k) /\ db' = DeleteRow(Keys, db, t, k)
  BY DEF Deleted
<1>2. PICK k \in DOMAIN db[t] : ~Blocked(Keys, db, t, k) /\ db' = DeleteRow(Keys, db, t, k)
  BY <1>1
<1>3. \A fk \in With(Keys, NoAction) \ Attachments : fk.parent = t =>
        \A x \in DOMAIN db[fk.child] : db[fk.child][x][fk.col] # k
  BY <1>2 DEF With, Blocked, Referencing
<1>4. ASSUME NEW u \in LbTables
      PROVE  /\ DOMAIN db'[u] = DOMAIN db[u] \ Taken(db, t, k, u)
             /\ \A x \in DOMAIN db'[u] : db'[u][x] = db[u][x]
  <2>1. Taken(db, t, k, u) = Doomed(Keys, db, t, k, u)
    BY <1>1 DEF Taken, Doomed, With, Attachments
  <2>2. QED BY <1>2, <2>1, DeleteTakesAway
<1>5. ASSUME NEW u \in LbTables, NEW x \in DOMAIN db'[u]
      PROVE  ReferencesIn(Keys, db')[u][x] = ReferencesIn(Keys, db)[u][x]
  <2>1. u \in DOMAIN db /\ u \in DOMAIN db' /\ x \in DOMAIN db[u] /\ db'[u][x] = db[u][x]
    BY <1>4 DEF Good, Typed
  <2>2. QED BY <1>5, <2>1, SameRowSeen
<1>6. t \in LbTables /\ \A u \in LbTables : DOMAIN db'[u] = DOMAIN db[u] \ Taken(db, t, k, u)
  BY <1>4
<1>7. QED BY <1>3, <1>5, <1>6, TakingIsDisappear

\* Private networks are attached through one key, and it does not cascade.
LEMMA AttachmentKey ==
  /\ ForeignKey("lb_private_networks", "lb_id", "lbs", NoAction) \in Attachments
  /\ \A fk \in Attachments : fk = ForeignKey("lb_private_networks", "lb_id", "lbs", NoAction)
  /\ \A fk \in Keys : fk.child = "lb_private_networks" => fk.action # Cascade
<1>1. ForeignKey("lb_private_networks", "lb_id", "lbs", NoAction) \in Attachments
  BY DEF Attachments, ForeignKey, Keys, LbKeys
<1>2. \A fk \in Keys : fk.child = "lb_private_networks" =>
        \/ fk = ForeignKey("lb_private_networks", "lb_id", "lbs", NoAction)
        \/ fk = ForeignKey("lb_private_networks", "private_network_id", "private_networks",
                           NoAction)
  BY DEF ForeignKey, Keys, LbKeys, LbDetailKeys
<1>3. QED BY <1>1, <1>2 DEF Attachments, ForeignKey, NoAction, Cascade

\* The transaction of DeleteLB takes away the load balancer and what it owns at once.
LEMMA LbDeleteTakes ==
  ASSUME NEW d, Good(d), NEW lb \in DOMAIN d["lbs"], NEW e,
         e = DeleteRow(Keys, Released(d, lb), "lbs", lb),
         NEW u \in LbTables
  PROVE  DOMAIN e[u] = DOMAIN d[u] \ Taken(d, "lbs", lb, u)
<1> DEFINE n == Released(d, lb)
<1>1. Good(n)
  BY ReleaseKeepsGood
<1>2. DOMAIN e[u] = DOMAIN n[u] \ Doomed(Keys, n, "lbs", lb, u)
  BY <1>1, DeleteTakesAway
<1>0. /\ \A v \in LbTables \ {"lb_private_networks", "lb_ips"} : n[v] = d[v]
      /\ n["lb_private_networks"]
           = [k \in {x \in DOMAIN d["lb_private_networks"] :
                       d["lb_private_networks"][x].lb_id # lb}
                |-> d["lb_private_networks"][k]]
      /\ n["lb_ips"]
           = [ip \in DOMAIN d["lb_ips"] |->
                IF d["lb_ips"][ip].doc = lb /\ d["lb_ips"][ip].zone = d["lbs"][lb].zone
                THEN LbIpRow(d["lb_ips"][ip].zone, Null) ELSE d["lb_ips"][ip]]
  BY ReleasedRows, Zenon
<1> HIDE DEF n
<1>3. /\ u \notin {"lb_private_networks", "lb_ips"} => n[u] = d[u]
      /\ DOMAIN n["lb_ips"] = DOMAIN d["lb_ips"]
      /\ DOMAIN n["lb_private_networks"]
           = {x \in DOMAIN d["lb_private_networks"] :
                d["lb_private_networks"][x].lb_id # lb}
  BY <1>0
<1>4. CASE u = "lb_private_networks"
  <2>1. Doomed(Keys, n, "lbs", lb, u) = {}
    BY <1>4, AttachmentKey DEF Doomed
  <2>2. Taken(d, "lbs", lb, u) = {x \in DOMAIN d[u] : d[u][x].lb_id = lb}
    BY <1>4, AttachmentKey DEF Taken, With, ForeignKey
  <2>3. QED BY <1>2, <1>3, <1>4, <2>1, <2>2
<1>5. CASE u = "lb_ips"
  <2>1. \A fk \in Keys : fk.child # u
    BY <1>5, LbKeysEnd
  <2>2. Doomed(Keys, n, "lbs", lb, u) = {} /\ Taken(d, "lbs", lb, u) = {}
    BY <1>5, <2>1 DEF Doomed, Taken, With, Attachments
  <2>3. QED BY <1>2, <1>3, <1>5, <2>2
<1>6. CASE u \notin {"lb_private_networks", "lb_ips"}
  <2>1. \A fk \in Attachments : fk.child # u
    BY <1>6, AttachmentKey DEF ForeignKey
  <2>2. Doomed(Keys, n, "lbs", lb, u) = Taken(d, "lbs", lb, u)
    BY <1>3, <1>6, <2>1 DEF Doomed, Taken, With
  <2>3. QED BY <1>2, <1>3, <1>6, <2>2
<1>7. QED BY <1>4, <1>5, <1>6

\* DeleteLB is one resource that disappears.
LEMMA LbDeleteIsDisappear ==
  ASSUME Good(db), Good(db'), LbDeleted(db, db')
  PROVE  Store!Next
<1>1. PICK lb \in DOMAIN db["lbs"] :
        /\ ~Blocked(Keys, Released(db, lb), "lbs", lb)
        /\ db' = DeleteRow(Keys, Released(db, lb), "lbs", lb)
  BY DEF LbDeleted
<1>0. \A u \in LbTables \ {"lb_private_networks", "lb_ips"} : Released(db, lb)[u] = db[u]
  BY <1>1, ReleasedRows, Zenon
<1>2. ASSUME NEW fk \in With(Keys, NoAction) \ Attachments, fk.parent = "lbs"
      PROVE  \A x \in DOMAIN db[fk.child] : db[fk.child][x][fk.col] # lb
  <2>1. fk \in Keys /\ fk.action = NoAction /\ fk.child # "lb_private_networks"
    BY <1>2 DEF With, Attachments
  <2>2. fk.child \in LbTables \ {"lb_private_networks", "lb_ips"}
    BY <2>1, LbKeysEnd
  <2>3. Released(db, lb)[fk.child] = db[fk.child]
    BY <1>0, <2>2
  <2>4. QED BY <1>1, <1>2, <2>1, <2>3 DEF Blocked, Referencing
<1>3. \A u \in LbTables : DOMAIN db'[u] = DOMAIN db[u] \ Taken(db, "lbs", lb, u)
  BY <1>1, LbDeleteTakes
<1>4. ASSUME NEW u \in LbTables, NEW x \in DOMAIN db'[u]
      PROVE  ReferencesIn(Keys, db')[u][x] = ReferencesIn(Keys, db)[u][x]
  <2>1. /\ u \in DOMAIN db /\ u \in DOMAIN db' /\ x \in DOMAIN db[u]
        /\ u # "lb_ips" => db'[u][x] = db[u][x]
    BY <1>1, LbDeletedRows DEF Good, Typed
  <2>2. CASE u # "lb_ips"
    BY <1>4, <2>1, <2>2, SameRowSeen
  <2>3. CASE u = "lb_ips"
    <3>1. Columns(Keys, u) = {}
      BY <2>3, LbKeysEnd DEF Columns
    <3>2. QED BY <1>4, <2>1, <3>1 DEF ReferencesIn
  <2>4. QED BY <2>2, <2>3
<1>5. "lbs" \in LbTables
  BY DEF LbTables
<1>6. QED BY <1>2, <1>3, <1>4, <1>5, TakingIsDisappear

\* Every Step is one step of the store, or none.
LEMMA StepIsStoreStep ==
  ASSUME Good(db), NEW home, Step(home, issued', db, db')
  PROVE  [Store!Next]_(ReferencesIn(Keys, db))
<1>1. Good(db')
  BY StepKeepsGood
<1>2. CASE db = db'
  BY <1>2
<1>3. CASE Inserted(home, issued', db, db')
  BY <1>1, <1>3, InsertIsAppear
<1>4. CASE Updated(home, issued', db, db')
  BY <1>1, <1>4, UpdateIsRelink
<1>5. CASE Deleted(db, db')
  BY <1>1, <1>5, DeleteIsDisappear
<1>6. CASE LbDeleted(db, db')
  BY <1>1, <1>6, LbDeleteIsDisappear
<1>7. QED BY <1>2, <1>3, <1>4, <1>5, <1>6 DEF Step

\* The service implements the store: whatever runs at the same time, each request makes
\* one resource appear, changes what one refers to, or makes one go with all it owns.
THEOREM LbImplementsStore == Spec => LbKeepsReferences
<1>1. Init => Store!Init
  BY DEF Init, Store!Init, ReferencesIn, EmptyTable
<1>2. IInv /\ [Next]_vars => [Store!Next]_(ReferencesIn(Keys, db))
  <2>1. SUFFICES ASSUME IInv, [Next]_vars PROVE [Store!Next]_(ReferencesIn(Keys, db))
    OBVIOUS
  <2>2. CASE UNCHANGED vars
    BY <2>2 DEF vars
  <2>3. CASE Next
    <3>1. PICK home \in Homes : Ready(home)
      BY <2>1 DEF IInv, Ready
    <3>2. PICK c \in Clients : Arrive(c) \/ Proceed(c)
      BY <2>3 DEF Next
    <3>3. PICK h \in Homes : Step(h, issued', db, db')
      BY <3>1, <3>2, ActionsFit DEF Fits
    <3>4. QED BY <3>1, <3>3, StepIsStoreStep DEF Ready
  <2>4. QED BY <2>1, <2>2, <2>3
<1>3. QED BY <1>1, <1>2, LbInvariant, PTL DEF Spec, LbKeepsReferences, Store!Spec

-----------------------------------------------------------------------------
(***************************************************************************)
(* IPs.                                                                    *)
(***************************************************************************)

\* The step that deletes a load balancer detaches the IPs of its zone that name it.
THEOREM IPsOfTheZoneAreReleased == Spec => DeletedLBsReleaseTheirIPs
<1> DEFINE Releases ==
      \A lb \in DOMAIN db["lbs"] \ DOMAIN db'["lbs"] :
        \A ip \in DOMAIN db'["lb_ips"] :
          db'["lb_ips"][ip].zone = db["lbs"][lb].zone => db'["lb_ips"][ip].doc # lb
<1>1. ASSUME IInv, Next, NEW lb \in DOMAIN db["lbs"] \ DOMAIN db'["lbs"],
             NEW ip \in DOMAIN db'["lb_ips"],
             db'["lb_ips"][ip].zone = db["lbs"][lb].zone
      PROVE  db'["lb_ips"][ip].doc # lb
  <2>1. PICK home \in Homes : Ready(home)
    BY <1>1 DEF IInv, Ready
  <2>2. PICK c \in Clients : Arrive(c) \/ Proceed(c)
    BY <1>1 DEF Next
  <2>3. PICK h \in Homes : Step(h, issued', db, db')
    BY <2>1, <2>2, ActionsFit DEF Fits
  <2>4. Good(db) /\ "lbs" \in LbTables
    BY <2>1 DEF Ready, LbTables
  <2>5. ~(db = db' \/ Inserted(h, issued', db, db') \/ Updated(h, issued', db, db'))
    BY <2>4, InsertAddsOneRow, UpdateChangesOneRow DEF Inserted, Updated, Good, Typed
  <2>6. ~Deleted(db, db')
    <3>1. SUFFICES ASSUME NEW t \in LbTables \ {"lbs"}, NEW k,
                          db' = DeleteRow(Keys, db, t, k)
                   PROVE  FALSE
      BY DEF Deleted
    <3>2. Doomed(Keys, db, t, k, "lbs") = {}
      BY <3>1, LbKeysEnd DEF Doomed
    <3>3. QED BY <2>4, <3>1, <3>2, DeleteTakesAway
  <2>7. PICK gone \in DOMAIN db["lbs"] : db' = DeleteRow(Keys, Released(db, gone), "lbs", gone)
    BY <2>3, <2>5, <2>6 DEF Step, LbDeleted
  <2>8. /\ DOMAIN db'["lbs"] = DOMAIN db["lbs"] \ {gone}
        /\ ip \in DOMAIN db["lb_ips"]
        /\ db'["lb_ips"][ip] = Released(db, gone)["lb_ips"][ip]
    BY <2>4, <2>7, LbDeletedRows
  <2>9. gone = lb
    BY <2>8
  <2> DEFINE old == db["lb_ips"][ip]
  <2>10. old \in [zone : Zones, doc : Lbs \cup {Null}] /\ db["lbs"][lb] \in [zone : Zones]
         /\ lb \in Lbs
    BY <2>4, <2>8, LbSchema DEF Good, Typed, LbTables
  <2>11. db'["lb_ips"][ip] = IF old.doc = lb /\ old.zone = db["lbs"][lb].zone
                            THEN LbIpRow(old.zone, Null) ELSE old
    <3>1. Released(db, lb)["lb_ips"]
            = [x \in DOMAIN db["lb_ips"] |->
                 IF db["lb_ips"][x].doc = lb /\ db["lb_ips"][x].zone = db["lbs"][lb].zone
                 THEN LbIpRow(db["lb_ips"][x].zone, Null) ELSE db["lb_ips"][x]]
      BY <2>4, <2>9, ReleasedRows, Zenon
    <3>2. QED BY <2>8, <2>9, <3>1
  <2>12. lb # Null
    BY <2>10, LbIdsAreNotNull
  <2>13. CASE old.doc = lb /\ old.zone = db["lbs"][lb].zone
    BY <2>11, <2>12, <2>13 DEF LbIpRow
  <2>14. CASE ~(old.doc = lb /\ old.zone = db["lbs"][lb].zone)
    BY <1>1, <2>11, <2>14
  <2>15. QED BY <2>13, <2>14
<1>2. IInv /\ [Next]_vars => [Releases]_vars
  BY <1>1
<1>3. Spec => [][Releases]_vars
  BY <1>2, LbInvariant, PTL DEF Spec
<1>4. QED BY <1>3 DEF DeletedLBsReleaseTheirIPs

-----------------------------------------------------------------------------
(***************************************************************************)
(* One request at a time: the behaviours that TLC runs, without its bounds *)
(* on the uuids handed out.                                                *)
(***************************************************************************)
SomeNext == (\E c \in active : Arrive(c) \/ Proceed(c)) /\ active' = active

SomeSpec ==
  Init /\ active \in (SUBSET Clients) \ {{}} /\ [][SomeNext]_<<vars, active>>

\* The handlers that have found an IP free and rely on it.
Relies(c) == req[c].at \in {"InsertLB", "AttachLBIP", "DeleteLBIP"}

FreeIP(ip) == ip \in DOMAIN db["lb_ips"] /\ db["lb_ips"][ip].doc = Null

SerialInv ==
  /\ active \subseteq Clients
  /\ Serial => \A c \in Clients : Relies(c) => c \in active /\ FreeIP(req[c].ip)

\* A statement that answers leaves nothing to rely on.
LEMMA AnsweredReliesOnNothing ==
  ASSUME req \in [Clients -> Requests], NEW c \in Clients, NEW status, Answer(c, status)
  PROVE  ~Relies(c)'
BY DEF Answer, Continue, Answered, Relies

\* Nor does one of the common INSERTs and DELETEs.
LEMMA StatementsRelyOnNothing ==
  ASSUME req \in [Clients -> Requests], NEW c \in Clients, NEW t, NEW k, NEW row,
         \/ InsertJSON(Keys, c, t, k, row)
         \/ CreateSimple(Keys, c, t, k, row)
         \/ DeleteBy(Keys, c, t, k)
  PROVE  ~Relies(c)'
BY AnsweredReliesOnNothing DEF InsertJSON, CreateSimple, DeleteBy

\* Only the handlers of CreateLB and DeleteLBIP come to rely on an IP.
LEMMA WhoRelies ==
  ASSUME req \in [Clients -> Requests], NEW c \in Clients, Arrive(c) \/ Proceed(c),
         Relies(c)'
  PROVE  CheckLBIP(c) \/ InsertLB(c) \/ CheckLBIPDetached(c)
<1>1. CASE \/ CreatePrivateNetwork(c) \/ DeletePrivateNetwork(c) \/ CreateLBIP(c)
           \/ CreateLBWithoutIP(c) \/ DeleteFrontend(c) \/ CreateBackend(c)
           \/ DeleteBackend(c) \/ AttachLBPrivateNetwork(c) \/ DetachLBPrivateNetwork(c)
           \/ CreateLBACL(c) \/ DeleteLBACL(c) \/ DeleteLBRoute(c)
           \/ CreateLBCertificate(c) \/ DeleteLBCertificate(c) \/ DeleteLBIP(c)
           \/ InsertFrontend(c) \/ InsertRoute(c)
  BY <1>1, StatementsRelyOnNothing
     DEF CreatePrivateNetwork, DeletePrivateNetwork, CreateLBIP, CreateLBWithoutIP,
         DeleteFrontend, CreateBackend, DeleteBackend, AttachLBPrivateNetwork,
         DetachLBPrivateNetwork, CreateLBACL, DeleteLBACL, DeleteLBRoute,
         CreateLBCertificate, DeleteLBCertificate, DeleteLBIP, InsertFrontend, InsertRoute
<1>2. CASE UpdateLBIP(c) \/ AttachLBIP(c)
  BY <1>2, AnsweredReliesOnNothing DEF UpdateLBIP, AttachLBIP, ReadLBIP, Continue, Relies
<1>3. CASE DeleteLB(c) \/ WriteBack(c)
  BY <1>3, AnsweredReliesOnNothing DEF DeleteLB, WriteBack
<1>4. CASE CreateFrontend(c) \/ UpdateFrontend(c) \/ CheckFrontendBackend(c)
  BY <1>4, AnsweredReliesOnNothing
     DEF CreateFrontend, UpdateFrontend, CheckFrontendBackend, Continue, Relies
<1>5. CASE CreateLBRoute(c) \/ UpdateLBRoute(c) \/ CheckRouteFrontend(c)
  BY <1>5, AnsweredReliesOnNothing
     DEF CreateLBRoute, UpdateLBRoute, CheckRouteFrontend, Continue, Relies
<1>6. CASE CheckRouteBackend(c)
  <2>1. req[c].then \in {"InsertRoute", "WriteBack"}
    BY <1>6, LocalsTyped DEF CheckRouteBackend
  <2>2. QED BY <1>6, <2>1, AnsweredReliesOnNothing
            DEF CheckRouteBackend, RouteChecked, Continue, Relies
<1>7. CASE ReadRow(c)
  BY <1>7, AnsweredReliesOnNothing DEF ReadRow, Continue, Relies
<1>8. QED BY <1>1, <1>2, <1>3, <1>4, <1>5, <1>6, <1>7 DEF Arrive, Proceed

\* What they rely on was found by the look-up, or is as it was.
LEMMA ReliersFindFreeIPs ==
  ASSUME Good(db), req \in [Clients -> Requests], NEW c \in Clients, Arrive(c) \/ Proceed(c),
         Relies(c)', Relies(c) => FreeIP(req[c].ip)
  PROVE  FreeIP(req[c].ip)'
<1>1. CASE CheckLBIP(c) \/ CheckLBIPDetached(c)
  BY <1>1, AnsweredReliesOnNothing
     DEF CheckLBIP, CheckLBIPDetached, Found, FreeIP, Continue
<1>2. CASE InsertLB(c)
  <2>1. db'["lb_ips"] = db["lb_ips"]
    BY <1>2 DEF InsertLB, InsertRow, Good, Typed, LbTables
  <2>2. req'[c].ip = req[c].ip
    BY <1>2 DEF InsertLB, Continue
  <2>3. QED BY <1>2, <2>1, <2>2 DEF InsertLB, Relies, FreeIP
<1>3. QED BY <1>1, <1>2, WhoRelies

\* The others wait.
LEMMA OthersWait ==
  ASSUME NEW home \in Homes, Ready(home), NEW c \in Clients, Arrive(c) \/ Proceed(c),
         NEW d \in Clients \ {c}
  PROVE  req'[d] = req[d]
BY ActionsFit DEF Fits, Handled, Ready

\* With one active client nothing takes away an IP that a handler relies on.
LEMMA SerialStep == IInv /\ SerialInv /\ [SomeNext]_<<vars, active>> => SerialInv'
<1>1. SUFFICES ASSUME IInv, SerialInv, [SomeNext]_<<vars, active>> PROVE SerialInv'
  OBVIOUS
<1>2. CASE UNCHANGED <<vars, active>>
  BY <1>1, <1>2 DEF SerialInv, Serial, Relies, FreeIP, vars
<1>3. CASE SomeNext
  <2>1. PICK c \in active : Arrive(c) \/ Proceed(c)
    BY <1>3 DEF SomeNext
  <2>2. active' = active /\ c \in Clients
    BY <1>1, <1>3, <2>1 DEF SomeNext, SerialInv
  <2>3. PICK home \in Homes : Ready(home)
    BY <1>1 DEF IInv, Ready
  <2>4. ASSUME Serial, NEW d \in Clients, Relies(d)'
        PROVE  d \in active /\ FreeIP(req[d].ip)'
    <3>1. CASE d = c
      BY <1>1, <2>1, <2>2, <2>3, <2>4, <3>1, ReliersFindFreeIPs DEF SerialInv, Ready
    <3>2. CASE d # c
      <4>1. req'[d] = req[d]
        BY <2>1, <2>2, <2>3, <3>2, OthersWait
      <4>2. d \in active
        BY <1>1, <2>4, <4>1 DEF SerialInv, Relies
      <4>3. QED BY <2>1, <2>4, <3>2, <4>2 DEF Serial
    <3>3. QED BY <3>1, <3>2
  <2>5. QED BY <1>1, <2>2, <2>4 DEF SerialInv, Serial
<1>4. QED BY <1>1, <1>2, <1>3

\* No cascade reaches an IP.
LEMMA StatementsLeaveIPs ==
  ASSUME Good(db), NEW c, NEW t \in LbTables, NEW k, NEW row,
         \/ InsertJSON(Keys, c, t, k, row)
         \/ CreateSimple(Keys, c, t, k, row)
         \/ t # "lb_ips" /\ DeleteBy(Keys, c, t, k)
  PROVE  DOMAIN db["lb_ips"] \subseteq DOMAIN db'["lb_ips"]
<1>1. "lb_ips" \in DOMAIN db /\ t \in DOMAIN db /\ "lb_ips" \in LbTables
  BY DEF Good, Typed, LbTables
<1>2. CASE UNCHANGED db
  BY <1>2
<1>3. CASE db' = InsertRow(db, t, k, row) /\ ~Found(t, k)
  BY <1>1, <1>3, InsertAddsOneRow DEF Found
<1>4. CASE t # "lb_ips" /\ db' = DeleteRow(Keys, db, t, k)
  <2>1. Doomed(Keys, db, t, k, "lb_ips") = {}
    BY <1>4, LbKeysEnd DEF Doomed
  <2>2. QED BY <1>1, <1>4, <2>1, DeleteTakesAway
<1>5. QED BY <1>2, <1>3, <1>4 DEF InsertJSON, CreateSimple, DeleteBy

\* IPs go by DeleteLBIP only.
LEMMA WhoDeletesIPs ==
  ASSUME Good(db), req \in [Clients -> Requests], NEW c \in Clients, Arrive(c) \/ Proceed(c),
         NEW ip \in DOMAIN db["lb_ips"] \ DOMAIN db'["lb_ips"]
  PROVE  req[c].at = "DeleteLBIP" /\ req[c].ip = ip
<1>1. CASE \/ CreatePrivateNetwork(c) \/ DeletePrivateNetwork(c) \/ CreateLBIP(c)
           \/ CreateLBWithoutIP(c) \/ DeleteFrontend(c) \/ CreateBackend(c)
           \/ DeleteBackend(c) \/ AttachLBPrivateNetwork(c) \/ DetachLBPrivateNetwork(c)
           \/ CreateLBACL(c) \/ DeleteLBACL(c) \/ DeleteLBRoute(c)
           \/ CreateLBCertificate(c) \/ DeleteLBCertificate(c)
           \/ InsertFrontend(c) \/ InsertRoute(c)
  BY <1>1, StatementsLeaveIPs
     DEF CreatePrivateNetwork, DeletePrivateNetwork, CreateLBIP, CreateLBWithoutIP,
         DeleteFrontend, CreateBackend, DeleteBackend, AttachLBPrivateNetwork,
         DetachLBPrivateNetwork, CreateLBACL, DeleteLBACL, DeleteLBRoute,
         CreateLBCertificate, DeleteLBCertificate, InsertFrontend, InsertRoute, LbTables
<1>2. CASE \/ CheckLBIP(c) \/ UpdateLBIP(c) \/ AttachLBIP(c) \/ CheckLBIPDetached(c)
           \/ CreateFrontend(c) \/ UpdateFrontend(c) \/ CheckFrontendBackend(c)
           \/ CreateLBRoute(c) \/ UpdateLBRoute(c) \/ CheckRouteFrontend(c)
           \/ CheckRouteBackend(c) \/ ReadRow(c)
  BY <1>2
     DEF CheckLBIP, UpdateLBIP, AttachLBIP, ReadLBIP, CheckLBIPDetached, CreateFrontend,
         UpdateFrontend, CheckFrontendBackend, CreateLBRoute, UpdateLBRoute,
         CheckRouteFrontend, CheckRouteBackend, ReadRow
<1>3. CASE DeleteLB(c)
  BY <1>3, LbDeletedRows DEF DeleteLB, Found, Released
<1>4. CASE InsertLB(c)
  BY <1>4 DEF InsertLB, InsertRow, Good, Typed, LbTables
<1>5. CASE WriteBack(c)
  <2>1. req[c].table \in LbTables
    BY <1>5, LocalsTyped, LbSchema DEF WriteBack
  <2>2. CASE Found(req[c].table, req[c].key)
    BY <1>5, <2>1, <2>2, UpdateChangesOneRow DEF WriteBack, Good, Typed, Found, LbTables
  <2>3. CASE ~Found(req[c].table, req[c].key)
    BY <1>5, <2>3 DEF WriteBack, UpdateRow, Found
  <2>4. QED BY <2>2, <2>3
<1>6. CASE DeleteLBIP(c)
  <2>1. db' = DeleteRow(Keys, db, "lb_ips", req[c].ip)
    BY <1>6 DEF DeleteLBIP, DeleteBy
  <2>2. Doomed(Keys, db, "lb_ips", req[c].ip, "lb_ips") \subseteq {req[c].ip}
    BY LbKeysEnd DEF Doomed
  <2>3. QED BY <1>6, <2>1, <2>2, DeleteTakesAway DEF DeleteLBIP, LbTables
<1>7. QED BY <1>1, <1>2, <1>3, <1>4, <1>5, <1>6 DEF Arrive, Proceed

\* Where requests come one at a time, CreateLB attaches an IP that is there and free, so
\* that no error is answered with the load balancer already inserted, and DeleteLBIP
\* deletes none that is attached.
THEOREM SerialIPsAreKept == SomeSpec => SerialLBIPsInUseAreKept
<1> DEFINE Kept == Serial => AttachesOnlyFreeLBIPs /\ DeletesOnlyDetachedLBIPs
<1>1. Init => req \in [Clients -> {Answered("ok")}]
  BY DEF Init
<1>2. Init /\ active \in (SUBSET Clients) \ {{}} => SerialInv
  BY <1>1 DEF SerialInv, Relies, Answered
<1>3. IInv /\ SerialInv /\ [SomeNext]_<<vars, active>> => [Kept]_vars
  <2>1. SUFFICES ASSUME IInv, SerialInv, SomeNext, Serial
                 PROVE  AttachesOnlyFreeLBIPs /\ DeletesOnlyDetachedLBIPs
    BY DEF vars
  <2>2. \A c \in Clients : Relies(c) => FreeIP(req[c].ip)
    BY <2>1 DEF SerialInv
  <2>3. AttachesOnlyFreeLBIPs
    BY <2>2 DEF AttachesOnlyFreeLBIPs, AttachLBIP, Relies, FreeIP
  <2>4. DeletesOnlyDetachedLBIPs
    <3>1. PICK c \in Clients : Arrive(c) \/ Proceed(c)
      BY <2>1 DEF SomeNext, SerialInv
    <3>2. QED BY <2>1, <2>2, <3>1, WhoDeletesIPs
              DEF DeletesOnlyDetachedLBIPs, Relies, FreeIP, IInv
  <2>5. QED BY <2>3, <2>4
<1>4. IInv /\ SerialInv /\ [SomeNext]_<<vars, active>> => [Next]_vars /\ IInv'
  BY StepKeepsInvariant DEF SomeNext, SerialInv, Next, vars
<1>5. SomeSpec => [](IInv /\ SerialInv)
  BY <1>2, <1>4, InitFits, SerialStep, PTL DEF SomeSpec
<1>6. SomeSpec => [][Kept]_vars
  BY <1>3, <1>5, PTL DEF SomeSpec
<1>7. QED BY <1>6 DEF SerialLBIPsInUseAreKept

\* What TLC explores is among these behaviours.
LEMMA BoundedRunsAreRuns == MCSpec => SomeSpec
<1>1. MCInit => Init /\ active \in (SUBSET Clients) \ {{}}
  BY DEF MCInit
<1>2. [MCNext]_<<vars, active, inPlace>> => [SomeNext]_<<vars, active>>
  BY DEF MCNext, SomeNext
<1>3. QED BY <1>1, <1>2, PTL DEF MCSpec, SomeSpec

=============================================================================
