-------------------------- MODULE InstanceService --------------------------
(***************************************************************************)
(* The Instance API: servers, flexible IPs, private NICs, security groups, *)
(* and the private networks the NICs are plugged into.                     *)
(***************************************************************************)
EXTENDS Handlers

CONSTANTS
  Servers, Ips, Nics, SecurityGroups, PrivateNetworks,   \* the uuids newID can return
  Placeholder,       \* the invented id of the security group of a server created without one
  MaxPublicIps       \* bound: how many public IPs a create-server request lists

ASSUME NullIsNoId ==
  Null \notin Servers \cup Ips \cup Nics \cup SecurityGroups \cup PrivateNetworks
                \cup {Placeholder}
ASSUME PlaceholderIsNoGroup == Placeholder \notin SecurityGroups
ASSUME MaxPublicIpsIsNat == MaxPublicIps \in Nat

Tables == {"instance_servers", "instance_ips", "instance_private_nics",
           "instance_security_groups", "private_networks"}

(***************************************************************************)
(* Rows.  Of a server's document only the embedded security-group id and   *)
(* the power state are kept, of an IP's the server id; a JSON "" and null  *)
(* are both Null.  "stopped" stands for the state stopped_in_place as well.  *)
(***************************************************************************)
PowerStates == {"stopped", "running"}
ServerDoc == [sg : SecurityGroups \cup {Placeholder, Null}, state : PowerStates]

ServerRow(group, doc) == [security_group_id |-> group, doc |-> doc]
IpRow(server)         == [server_id |-> server, doc |-> server]
NicRow(server, pn)    == [server_id |-> server, private_network_id |-> pn]
PlainRow              == [doc |-> Null]

PublicIpLists == UNION {[1..n -> Ips] : n \in 0..MaxPublicIps}

-----------------------------------------------------------------------------
(***************************************************************************)
(* Security groups and private networks.                                   *)
(***************************************************************************)
CreateSecurityGroup(c) ==
  Idle(c) /\ \E g \in SecurityGroups : CreateSimple(InstanceKeys, c, "instance_security_groups", g, PlainRow)

\* Faulty DetachSecurityGroup: clears the column and leaves the document.
DetachGroupColumnOnly(d, g) ==
  [d EXCEPT !["instance_servers"] =
     [s \in DOMAIN d["instance_servers"] |->
        LET row == d["instance_servers"][s] IN
        IF row.security_group_id = g THEN ServerRow(Null, row.doc) ELSE row]]

DetachSecurityGroup(d, g) ==
  [d EXCEPT !["instance_servers"] =
     [s \in DOMAIN d["instance_servers"] |->
        LET row == d["instance_servers"][s] IN
        IF row.security_group_id = g
        THEN ServerRow(Null, [row.doc EXCEPT !.sg = Null]) ELSE row]]

(***************************************************************************)
(* One transaction: detach the group from the servers whose column names   *)
(* it, then delete it; without such a row everything is rolled back.       *)
(***************************************************************************)
DeleteSecurityGroup(c) ==
  \E g \in SecurityGroups :
    /\ Idle(c)
    /\ UNCHANGED issued
    /\ \/ /\ Found("instance_security_groups", g)
          /\ db' = DeleteRow(InstanceKeys, DetachSecurityGroup(db, g),
                             "instance_security_groups", g)
          /\ Answer(c, "ok")
       \/ /\ ~Found("instance_security_groups", g)
          /\ Answer(c, "not_found")
          /\ UNCHANGED db

CreatePrivateNetwork(c) ==
  Idle(c) /\ \E p \in PrivateNetworks : CreateSimple(InstanceKeys, c, "private_networks", p, PlainRow)

DeletePrivateNetwork(c) ==
  \E p \in PrivateNetworks : Idle(c) /\ DeleteBy(InstanceKeys, c, "private_networks", p)

-----------------------------------------------------------------------------
(***************************************************************************)
(* Flexible IPs.                                                           *)
(***************************************************************************)
CreateIP(c) ==
  /\ Idle(c)
  /\ \E ip \in Ips, s \in Servers \cup {Null} :
       CreateSimple(InstanceKeys, c, "instance_ips", ip, IpRow(s))

DeleteIP(c) == \E ip \in Ips : Idle(c) /\ DeleteBy(InstanceKeys, c, "instance_ips", ip)

(***************************************************************************)
(* UpdateIP, its SELECT: the document to write is the one read, with the   *)
(* server the patch names, if it names one (null detaches).                *)
(***************************************************************************)
ReadIP(c) ==
  /\ Idle(c)
  /\ UNCHANGED <<db, issued>>
  /\ \E ip \in Ips :
       \/ /\ ~Found("instance_ips", ip)
          /\ Answer(c, "not_found")
       \/ /\ Found("instance_ips", ip)
          /\ \E server \in Servers \cup {Null, db["instance_ips"][ip].doc} :
               Continue(c, [at |-> "UpdateIP", ip |-> ip, server |-> server])

(***************************************************************************)
(* UpdateIP, its UPDATE of document and column together.  It does not look *)
(* at the number of rows affected: an IP deleted meanwhile is answered 200.*)
(***************************************************************************)
IpWriteOK(ip, server) ==
  Found("instance_ips", ip) => RowOK(InstanceKeys, db, "instance_ips", IpRow(server))

WriteIP(c) ==
  LET r == req[c] IN
  /\ r.at = "UpdateIP"
  /\ UNCHANGED issued
  /\ \/ /\ IpWriteOK(r.ip, r.server)
        /\ db' = UpdateRow(db, "instance_ips", r.ip, IpRow(r.server))
        /\ Answer(c, "ok")
     \/ /\ ~IpWriteOK(r.ip, r.server)
        /\ Answer(c, "not_found")
        /\ UNCHANGED db

-----------------------------------------------------------------------------
(***************************************************************************)
(* Creating a server: look up each public IP of the request, insert the    *)
(* server, then attach the IPs one UpdateIP at a time.                     *)
(***************************************************************************)
BeginCreateServer(c) ==
  /\ Idle(c)
  /\ \E s \in Servers \ issued, ips \in PublicIpLists, g \in SecurityGroups \cup {Null} :
       /\ issued' = issued \cup {s}
       /\ Continue(c, [at |-> "CreateServer", server |-> s, sg |-> g,
                       ips |-> ips, todo |-> ips])
  /\ UNCHANGED db

CheckPublicIP(c) ==
  LET r == req[c]
      ip == Head(r.todo) IN
  /\ r.at = "CreateServer" /\ r.todo # <<>>
  /\ UNCHANGED <<db, issued>>
  /\ \/ /\ ~Found("instance_ips", ip)
        /\ Answer(c, "not_found")
     \/ /\ Found("instance_ips", ip) /\ db["instance_ips"][ip].doc # Null
        /\ Answer(c, "conflict")
     \/ /\ Found("instance_ips", ip) /\ db["instance_ips"][ip].doc = Null
        /\ Continue(c, [r EXCEPT !.todo = Tail(@)])

NewServerRow(g) ==
  ServerRow(g, [sg |-> IF g = Null THEN Placeholder ELSE g, state |-> "stopped"])

\* Faulty InsertServer: enters the attach loop without looking at its length.
InsertServerAlwaysAttach(c) ==
  LET r == req[c]
      row == NewServerRow(r.sg) IN
  /\ r.at = "CreateServer" /\ r.todo = <<>>
  /\ RowOK(InstanceKeys, db, "instance_servers", row)
  /\ UNCHANGED issued
  /\ db' = InsertRow(db, "instance_servers", r.server, row)
  /\ Continue(c, [at |-> "AttachIPs", server |-> r.server,
                  ips |-> r.ips, todo |-> r.ips, read |-> FALSE])

InsertServer(c) ==
  LET r == req[c]
      row == NewServerRow(r.sg) IN
  /\ r.at = "CreateServer" /\ r.todo = <<>>
  /\ UNCHANGED issued
  /\ \/ /\ RowOK(InstanceKeys, db, "instance_servers", row)
        /\ db' = InsertRow(db, "instance_servers", r.server, row)
        /\ IF r.ips = <<>>
           THEN Answer(c, "ok")
           ELSE Continue(c, [at |-> "AttachIPs", server |-> r.server,
                             ips |-> r.ips, todo |-> r.ips, read |-> FALSE])
     \/ /\ ~RowOK(InstanceKeys, db, "instance_servers", row)
        /\ Answer(c, "not_found")
        /\ UNCHANGED db

(***************************************************************************)
(* The two statements of UpdateIP(ip, {"server": serverID}).  An error is  *)
(* answered as it is; the server inserted before stays.                    *)
(***************************************************************************)
AttachRead(c) ==
  LET r == req[c] IN
  /\ r.at = "AttachIPs" /\ ~r.read
  /\ UNCHANGED <<db, issued>>
  /\ \/ /\ Found("instance_ips", Head(r.todo))
        /\ Continue(c, [r EXCEPT !.read = TRUE])
     \/ /\ ~Found("instance_ips", Head(r.todo))
        /\ Answer(c, "not_found")

\* Faulty AttachWrite: answers from inside the loop.
AttachFirstIPOnly(c) ==
  LET r == req[c] IN
  /\ r.at = "AttachIPs" /\ r.read
  /\ UNCHANGED issued
  /\ db' = UpdateRow(db, "instance_ips", Head(r.todo), IpRow(r.server))
  /\ Answer(c, "ok")

AttachWrite(c) ==
  LET r == req[c]
      ip == Head(r.todo) IN
  /\ r.at = "AttachIPs" /\ r.read
  /\ UNCHANGED issued
  /\ \/ /\ IpWriteOK(ip, r.server)
        /\ db' = UpdateRow(db, "instance_ips", ip, IpRow(r.server))
        /\ IF Tail(r.todo) = <<>>
           THEN Answer(c, "ok")
           ELSE Continue(c, [r EXCEPT !.todo = Tail(@), !.read = FALSE])
     \/ /\ ~IpWriteOK(ip, r.server)
        /\ Answer(c, "not_found")
        /\ UNCHANGED db

-----------------------------------------------------------------------------
(***************************************************************************)
(* Deleting a server, by DELETE or by the action "terminate": one          *)
(* transaction that detaches its IPs, drops its NICs and deletes it.       *)
(***************************************************************************)
\* Faulty DetachIPs: leaves it to ON DELETE SET NULL, which knows no document.
DetachIPsColumnOnly(d, s) ==
  [d EXCEPT !["instance_ips"] =
     [ip \in DOMAIN d["instance_ips"] |->
        LET row == d["instance_ips"][ip] IN
        IF row.server_id = s THEN [row EXCEPT !.server_id = Null] ELSE row]]

DetachIPs(d, s) ==
  [d EXCEPT !["instance_ips"] =
     [ip \in DOMAIN d["instance_ips"] |->
        IF d["instance_ips"][ip].server_id = s THEN IpRow(Null) ELSE d["instance_ips"][ip]]]

DropNICs(d, s) ==
  LET nics == d["instance_private_nics"]
      kept == {n \in DOMAIN nics : nics[n].server_id # s} IN
  [d EXCEPT !["instance_private_nics"] = [n \in kept |-> nics[n]]]

DeleteServerTx(c, s) ==
  /\ UNCHANGED issued
  /\ \/ /\ Found("instance_servers", s)
        /\ db' = DeleteRow(InstanceKeys, DropNICs(DetachIPs(db, s), s), "instance_servers", s)
        /\ Answer(c, "ok")
     \/ /\ ~Found("instance_servers", s)
        /\ Answer(c, "not_found")
        /\ UNCHANGED db

DeleteServer(c) == Idle(c) /\ \E s \in Servers : DeleteServerTx(c, s)

(***************************************************************************)
(* The action endpoint: GetServer, then DeleteServer for "terminate", or   *)
(* SetServerState, which reads the document again and writes it back with  *)
(* the new state, leaving the columns alone.                               *)
(***************************************************************************)
ServerAction(c) ==
  /\ Idle(c)
  /\ UNCHANGED <<db, issued>>
  /\ \E s \in Servers :
       \/ /\ ~Found("instance_servers", s)
          /\ Answer(c, "not_found")
       \/ /\ Found("instance_servers", s)
          /\ \E action \in PowerStates \cup {"terminate"} :
               Continue(c, [at |-> "ServerAction", server |-> s, action |-> action])

Terminate(c) ==
  /\ req[c].at = "ServerAction" /\ req[c].action = "terminate"
  /\ DeleteServerTx(c, req[c].server)

ReadServerState(c) ==
  LET r == req[c] IN
  /\ r.at = "ServerAction" /\ r.action # "terminate"
  /\ UNCHANGED <<db, issued>>
  /\ \/ /\ ~Found("instance_servers", r.server)
        /\ Answer(c, "not_found")
     \/ /\ Found("instance_servers", r.server)
        /\ Continue(c, [at |-> "SetServerState", server |-> r.server,
                        doc |-> [db["instance_servers"][r.server].doc
                                   EXCEPT !.state = r.action]])

WriteServerState(c) ==
  LET r == req[c] IN
  /\ r.at = "SetServerState"
  /\ UNCHANGED issued
  /\ \/ /\ Found("instance_servers", r.server)
        /\ db' = UpdateRow(db, "instance_servers", r.server,
                   ServerRow(db["instance_servers"][r.server].security_group_id, r.doc))
        /\ Answer(c, "ok")
     \/ /\ ~Found("instance_servers", r.server)
        /\ Answer(c, "not_found")
        /\ UNCHANGED db

(***************************************************************************)
(* DeleteInstanceVolume, the last resort of deleting a volume: it lists    *)
(* the servers, removes the volume from the document it is in, and writes  *)
(* that document back like SetServerState.                                 *)
(***************************************************************************)
DeleteInstanceVolume(c) ==
  /\ Idle(c)
  /\ UNCHANGED <<db, issued>>
  /\ \/ Answer(c, "not_found")
     \/ \E s \in DOMAIN db["instance_servers"] :
          Continue(c, [at |-> "SetServerState", server |-> s,
                       doc |-> db["instance_servers"][s].doc])

(***************************************************************************)
(* UpdateServer: read the document, settle the security group the row will *)
(* name (the patched one, Null to detach, or the one in the document),     *)
(* look that group up, and write document and column.  A group the patch   *)
(* names must exist; one that is only in the document and is not found     *)
(* leaves the column NULL.  A patch that mentions the group without an id  *)
(* keeps the one in the document but counts as naming it.                  *)
(***************************************************************************)
ReadServer(c) ==
  /\ Idle(c)
  /\ UNCHANGED <<db, issued>>
  /\ \E s \in Servers :
       \/ /\ ~Found("instance_servers", s)
          /\ Answer(c, "not_found")
       \/ /\ Found("instance_servers", s)
          /\ LET doc == db["instance_servers"][s].doc IN
             \/ \E g \in SecurityGroups \cup {Null, doc.sg} :
                  Continue(c, [at |-> "UpdateServer", server |-> s, patched |-> TRUE,
                               doc |-> [doc EXCEPT !.sg = g]])
             \/ Continue(c, [at |-> "UpdateServer", server |-> s, patched |-> FALSE,
                             doc |-> doc])

CheckGroup(c) ==
  LET r == req[c]
      found == Found("instance_security_groups", r.doc.sg) IN
  /\ r.at = "UpdateServer" /\ r.doc.sg # Null
  /\ UNCHANGED <<db, issued>>
  /\ \/ /\ ~found /\ r.patched
        /\ Answer(c, "not_found")
     \/ /\ found \/ ~r.patched
        /\ Continue(c, [at |-> "WriteServer", server |-> r.server, doc |-> r.doc,
                        group |-> IF found THEN r.doc.sg ELSE Null])

ServerWriteOK(s, row) ==
  Found("instance_servers", s) => RowOK(InstanceKeys, db, "instance_servers", row)

(***************************************************************************)
(* The UPDATE, reached at once when there is no group to look up.  Like    *)
(* UpdateIP it answers 200 when the row is gone.                           *)
(***************************************************************************)
WriteServerRow(c, s, row) ==
  /\ UNCHANGED issued
  /\ \/ /\ ServerWriteOK(s, row)
        /\ db' = UpdateRow(db, "instance_servers", s, row)
        /\ Answer(c, "ok")
     \/ /\ ~ServerWriteOK(s, row)
        /\ Answer(c, "not_found")
        /\ UNCHANGED db

WriteServer(c) ==
  LET r == req[c] IN
  \/ /\ r.at = "UpdateServer" /\ r.doc.sg = Null
     /\ WriteServerRow(c, r.server, ServerRow(Null, r.doc))
  \/ /\ r.at = "WriteServer"
     /\ WriteServerRow(c, r.server, ServerRow(r.group, r.doc))

-----------------------------------------------------------------------------
(***************************************************************************)
(* Private NICs.  The DELETE endpoint first reads the NIC and answers 404  *)
(* when it is not one of the server named in the path.                     *)
(***************************************************************************)
CreatePrivateNIC(c) ==
  /\ Idle(c)
  /\ \E n \in Nics, s \in Servers, p \in PrivateNetworks :
       CreateSimple(InstanceKeys, c, "instance_private_nics", n, NicRow(s, p))

ReadPrivateNIC(c) ==
  /\ Idle(c)
  /\ UNCHANGED <<db, issued>>
  /\ \E n \in Nics, s \in Servers :
       LET owned == /\ Found("instance_private_nics", n)
                    /\ db["instance_private_nics"][n].server_id = s IN
       \/ /\ ~owned
          /\ Answer(c, "not_found")
       \/ /\ owned
          /\ Continue(c, [at |-> "DeletePrivateNIC", nic |-> n])

DeletePrivateNIC(c) ==
  /\ req[c].at = "DeletePrivateNIC"
  /\ DeleteBy(InstanceKeys, c, "instance_private_nics", req[c].nic)

-----------------------------------------------------------------------------
Init ==
  /\ db = [t \in Tables |-> EmptyTable]
  /\ issued = {}
  /\ req = [c \in Clients |-> Answered("ok")]

(***************************************************************************)
(* A request arrives, and its handler runs up to its first read or to the  *)
(* end.                                                                    *)
(***************************************************************************)
Arrive(c) ==
  \/ CreateSecurityGroup(c) \/ DeleteSecurityGroup(c)
  \/ CreatePrivateNetwork(c) \/ DeletePrivateNetwork(c)
  \/ CreateIP(c) \/ DeleteIP(c) \/ ReadIP(c)
  \/ BeginCreateServer(c) \/ DeleteServer(c) \/ ServerAction(c) \/ ReadServer(c)
  \/ DeleteInstanceVolume(c)
  \/ CreatePrivateNIC(c) \/ ReadPrivateNIC(c)

(***************************************************************************)
(* A handler goes on from where it was.                                    *)
(***************************************************************************)
Proceed(c) ==
  \/ WriteIP(c)
  \/ CheckPublicIP(c) \/ InsertServer(c) \/ AttachRead(c) \/ AttachWrite(c)
  \/ Terminate(c) \/ ReadServerState(c) \/ WriteServerState(c)
  \/ CheckGroup(c) \/ WriteServer(c)
  \/ DeletePrivateNIC(c)

Next == \E c \in Clients : Arrive(c) \/ Proceed(c)

Spec == Init /\ [][Next]_vars

=============================================================================
