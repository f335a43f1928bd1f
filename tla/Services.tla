------------------------------ MODULE Services ------------------------------
(***************************************************************************)
(* The services whose resources are plain rows or lists in a document,     *)
(* together: they share the database, and private networks hold them       *)
(* together (VPC, Kubernetes, gateways).                                   *)
(***************************************************************************)
EXTENDS Redis, SecurityGroupRules, DnsZones

Tables == ResourceTables \cup RedisTables \cup GroupTables \cup DnsTables

Init ==
  /\ db = [t \in Tables |-> EmptyTable]
  /\ issued = {}
  /\ req = [c \in Clients |-> Answered("ok")]

Arrive(c) == Arriving(c) \/ Redis(c) \/ SecurityGroup(c) \/ Dns(c)

Proceed(c) == Proceeding(c) \/ WriteLists(c) \/ DnsProceeding(c)

Next == \E c \in Clients : Arrive(c) \/ Proceed(c)

Spec == Init /\ [][Next]_vars

=============================================================================
