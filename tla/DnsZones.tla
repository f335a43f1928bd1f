------------------------------ MODULE DnsZones ------------------------------
(***************************************************************************)
(* The Domains and DNS API: zones, under names clients choose and use      *)
(* again, and the records in them.  A record names its zone in a column no *)
(* foreign key is declared on, so that nothing but the handlers keeps the  *)
(* two together.                                                           *)
(***************************************************************************)
EXTENDS Resources

CONSTANTS
  Zones,        \* names of zones
  Fields,       \* what the fields of a record a client matches by may hold
  MaxChanges    \* bound: statements of a patch

ASSUME MaxChangesIsNat == MaxChanges \in Nat

DnsTables == {"dns_zones", "domain_records"}

ZoneRow == [doc |-> Null]
RecordRow(z, fields) == [dns_zone |-> z, doc |-> fields]

RecordsOf(z) == {k \in DOMAIN db["domain_records"] : db["domain_records"][k].dns_zone = z}

-----------------------------------------------------------------------------
CreateDNSZone(c) ==
  /\ Idle(c)
  /\ UNCHANGED issued
  /\ \E z \in Zones : InsertJSON({}, c, "dns_zones", z, ZoneRow)

UpdateDNSZone(c) ==
  Idle(c) /\ \E z \in Zones : Read(c, "dns_zones", z, [at |-> "WriteZone", zone |-> z])

\* Faulty BeginDeleteDNSZone: leaves the records to the database.
DeleteZoneAlone(c) ==
  /\ Idle(c)
  /\ UNCHANGED <<db, issued>>
  /\ \E z \in Zones : Continue(c, [at |-> "DeleteZone", zone |-> z])

\* A statement of its own removes the records, whether the zone is there or not.
BeginDeleteDNSZone(c) ==
  /\ Idle(c)
  /\ UNCHANGED issued
  /\ \E z \in Zones :
       /\ db' = [db EXCEPT !["domain_records"] = [k \in DOMAIN @ \ RecordsOf(z) |-> @[k]]]
       /\ Continue(c, [at |-> "DeleteZone", zone |-> z])

DeleteDNSZone(c) ==
  req[c].at = "DeleteZone" /\ DeleteBy({}, c, "dns_zones", req[c].zone)

\* The document of a zone says nothing the model keeps.
WriteZone(c) ==
  /\ req[c].at = "WriteZone"
  /\ UNCHANGED <<db, issued>>
  /\ Answer(c, "ok")

-----------------------------------------------------------------------------
(***************************************************************************)
(* PatchDomainRecords.  The changes of a request, each with any of "add",  *)
(* "delete" and "set" in this order, amount to a list of these three:      *)
(*   add     one record;                                                   *)
(*   delete  the record with an id, if it is in the zone;                  *)
(*   match   find the records of the zone with certain fields, or all when *)
(*           none are named, and delete them: the first half of "set",     *)
(*           whose second half adds records.                               *)
(* The zone is looked up once, before the first of them, and again for the *)
(* answer.                                                                 *)
(***************************************************************************)
Changes ==
  [do : {"add"}, fields : Fields] \cup [do : {"match"}, fields : Fields \cup {Null}]
    \cup [do : {"delete"}, id : UUIDs]

Patches == UNION {[1..n -> Changes] : n \in 0..MaxChanges}

BeginPatchRecords(c) ==
  Idle(c) /\ \E z \in Zones, todo \in Patches :
    Read(c, "dns_zones", z, [at |-> "PatchRecords", zone |-> z, todo |-> todo, matched |-> {}])

NextIs(c, do) ==
  /\ req[c].at = "PatchRecords" /\ req[c].matched = {}
  /\ req[c].todo # <<>> /\ Head(req[c].todo).do = do

Done(c) == [req[c] EXCEPT !.todo = Tail(@)]

AddRecord(c) ==
  /\ NextIs(c, "add")
  /\ \E k \in UUIDs \ issued :
       /\ issued' = issued \cup {k}
       /\ db' = InsertRow(db, "domain_records", k,
                          RecordRow(req[c].zone, Head(req[c].todo).fields))
  /\ Continue(c, Done(c))

Without(k) == [db EXCEPT !["domain_records"] = [x \in DOMAIN @ \ {k} |-> @[x]]]

\* Faulty DeleteRecord: WHERE id = ? alone.
DeleteRecordAnywhere(c) ==
  /\ NextIs(c, "delete")
  /\ UNCHANGED issued
  /\ db' = Without(Head(req[c].todo).id)
  /\ Continue(c, Done(c))

DeleteRecord(c) ==
  /\ NextIs(c, "delete")
  /\ UNCHANGED issued
  /\ LET k == Head(req[c].todo).id IN
     db' = IF k \in RecordsOf(req[c].zone) THEN Without(k) ELSE db
  /\ Continue(c, Done(c))

\* ListDomainRecords finds nothing when the zone is gone.
MatchRecords(c) ==
  LET r == req[c]
      z == r.zone IN
  /\ NextIs(c, "match")
  /\ UNCHANGED <<db, issued>>
  /\ \/ ~Found("dns_zones", z) /\ Continue(c, Done(c))
     \/ Found("dns_zones", z) /\ Continue(c, [r EXCEPT !.at = "ListRecords"])

ListRecords(c) ==
  LET r == req[c] IN
  /\ r.at = "ListRecords"
  /\ UNCHANGED <<db, issued>>
  /\ Continue(c, [r EXCEPT !.at = "PatchRecords", !.todo = Tail(@),
       !.matched = {k \in RecordsOf(r.zone) :
                      Head(r.todo).fields \in {Null, db["domain_records"][k].doc}}])

DeleteMatched(c) ==
  /\ req[c].at = "PatchRecords"
  /\ UNCHANGED issued
  /\ \E k \in req[c].matched :
       /\ db' = Without(k)
       /\ Continue(c, [req[c] EXCEPT !.matched = @ \ {k}])

EndPatchRecords(c) ==
  /\ req[c].at = "PatchRecords" /\ req[c].todo = <<>> /\ req[c].matched = {}
  /\ Read(c, "dns_zones", req[c].zone, Answered("ok"))

-----------------------------------------------------------------------------
Dns(c) ==
  \/ CreateDNSZone(c) \/ UpdateDNSZone(c) \/ BeginDeleteDNSZone(c) \/ BeginPatchRecords(c)

DnsProceeding(c) ==
  \/ WriteZone(c) \/ DeleteDNSZone(c)
  \/ AddRecord(c) \/ DeleteRecord(c) \/ MatchRecords(c) \/ ListRecords(c) \/ DeleteMatched(c)
  \/ EndPatchRecords(c)

=============================================================================
