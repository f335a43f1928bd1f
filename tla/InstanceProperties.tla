------------------------ MODULE InstanceProperties ------------------------
(***************************************************************************)
(* What the Instance API must keep true.  The first group of properties    *)
(* holds for any number of concurrent clients.  The second holds when      *)
(* requests come one at a time, which MCInstance states; that some of them *)
(* fail under concurrency is shown by runs that end in a violation.        *)
(***************************************************************************)
EXTENDS InstanceService

(***************************************************************************)
(* Types.                                                                  *)
(***************************************************************************)
ServerRows == [security_group_id : SecurityGroups \cup {Null}, doc : ServerDoc]
IpRows     == [server_id : Servers \cup {Null}, doc : Servers \cup {Null}]
NicRows    == [server_id : Servers, private_network_id : PrivateNetworks]

IdsOf(t) == CASE t = "instance_servers"         -> Servers
              [] t = "instance_ips"             -> Ips
              [] t = "instance_private_nics"    -> Nics
              [] t = "instance_security_groups" -> SecurityGroups
              [] t = "private_networks"         -> PrivateNetworks

RowsOf(t) == CASE t = "instance_servers"         -> ServerRows
               [] t = "instance_ips"             -> IpRows
               [] t = "instance_private_nics"    -> NicRows
               [] t = "instance_security_groups" -> {PlainRow}
               [] t = "private_networks"         -> {PlainRow}

TablesOK(d) ==
  /\ d = [t \in Tables |-> d[t]]
  /\ \A t \in Tables : /\ DOMAIN d[t] \subseteq IdsOf(t)
                       /\ d[t] \in [DOMAIN d[t] -> RowsOf(t)]

Requests ==
  [at : {"answered"}, status : Statuses]
  \cup [at : {"UpdateIP"}, ip : Ips, server : Servers \cup {Null}]
  \cup [at : {"CreateServer"}, server : Servers, sg : SecurityGroups \cup {Null},
        ips : Seq(Ips), todo : Seq(Ips)]
  \cup [at : {"AttachIPs"}, server : Servers, ips : Seq(Ips),
        todo : Seq(Ips) \ {<<>>}, read : BOOLEAN]
  \cup [at : {"ServerAction"}, server : Servers, action : PowerStates \cup {"terminate"}]
  \cup [at : {"SetServerState"}, server : Servers, doc : ServerDoc]
  \cup [at : {"UpdateServer"}, server : Servers, patched : BOOLEAN, doc : ServerDoc]
  \cup [at : {"WriteServer"}, server : Servers, doc : ServerDoc,
        group : SecurityGroups \cup {Null}]
  \cup [at : {"DeletePrivateNIC"}, nic : Nics]

\* Every table holds well-formed rows under ids of its own kind, and every
\* handler is at a statement it can be at, with the locals it has there.
TypeOK == TablesOK(db) /\ req \in [Clients -> Requests]

-----------------------------------------------------------------------------
(***************************************************************************)
(* With any number of clients.                                             *)
(***************************************************************************)

\* Foreign-key integrity of the API: whatever the interleaving of creates,
\* stale updates and deletes, no row refers to a row that is gone.
ReferencesAreLive == RefIntegrity(InstanceKeys, db)

\* The document of an IP, which clients and the "already attached" check read,
\* agrees with the column server_id, which DeleteServer uses to find the IPs to
\* detach; so it never names a deleted server, even though UpdateIP writes back
\* a document read earlier.
IpDocumentsAreLive ==
  \A ip \in DOMAIN db["instance_ips"] :
    LET row == db["instance_ips"][ip] IN
    /\ row.doc = row.server_id
    /\ row.doc \in DOMAIN db["instance_servers"] \cup {Null}

\* A create request for a row under id k is at its INSERT.
BeingCreated(k) ==
  k \notin issued \/ \E c \in Clients : req[c].at = "CreateServer" /\ req[c].server = k

AddsRowsByCreation ==
  \A t \in Tables : \A k \in DOMAIN db'[t] \ DOMAIN db[t] : BeingCreated(k)

\* A row appears only by the INSERT of its own create request: an update whose
\* row was deleted between its SELECT and its UPDATE does not bring it back.
OnlyCreatesAddRows == [][AddsRowsByCreation]_vars

-----------------------------------------------------------------------------
(***************************************************************************)
(* With one request at a time.                                             *)
(***************************************************************************)

\* CreateServer never takes an IP away from another server: when it attaches an
\* IP of its list, that IP is free or already its own.
AttachesOnlyFreeIPs ==
  \A c \in Clients : AttachWrite(c) =>
    LET ip == Head(req[c].todo) IN
    Found("instance_ips", ip) => db["instance_ips"][ip].doc \in {Null, req[c].server}

CreateServerTakesOnlyFreeIPs == [][AttachesOnlyFreeIPs]_vars

\* Once the row of a new server is inserted, its creation succeeds and leaves
\* every IP of the request attached to it: no error answer leaves a server behind.
EndsWithAllIPsAttached ==
  \A c \in Clients : (req[c].at = "AttachIPs" /\ req'[c].at = "answered") =>
    /\ req'[c].status = "ok"
    /\ \A i \in DOMAIN req[c].ips :
         /\ req[c].ips[i] \in DOMAIN db'["instance_ips"]
         /\ db'["instance_ips"][req[c].ips[i]].server_id = req[c].server

\* The security group a server's document shows is the one its column refers to;
\* only an invented placeholder has no column.
GroupDocumentsMatchColumn ==
  \A s \in DOMAIN db["instance_servers"] :
    LET row == db["instance_servers"][s] IN
    row.security_group_id = IF row.doc.sg \in SecurityGroups THEN row.doc.sg ELSE Null

\* After UpdateServer has written, document and column name the same group
\* (a placeholder has no column).
WritesConsistentServer ==
  \A c \in Clients : WriteServer(c) =>
    LET s == req[c].server IN
    s \in DOMAIN db'["instance_servers"] =>
      LET row == db'["instance_servers"][s] IN
      row.doc.sg \in SecurityGroups => row.security_group_id = row.doc.sg

UpdatedServerIsConsistent == [][WritesConsistentServer]_vars

=============================================================================
