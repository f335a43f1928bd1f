-------------------------- MODULE InstanceProofs --------------------------
(***************************************************************************)
(* Type correctness, foreign-key integrity and the agreement of an IP's    *)
(* document with its column, for every number of clients and every set of  *)
(* uuids.  The inductive invariant speaks of the database only, apart from *)
(* the types of what handlers hold: Good(d) is kept by every statement and *)
(* transaction, so it does not matter how stale the values handlers write  *)
(* back are, only that each write passes the foreign-key check and writes  *)
(* document and column together.                                           *)
(*                                                                         *)
(* The last part is about one request at a time, when what a handler has   *)
(* read is still true when it writes.                                      *)
(***************************************************************************)
EXTENDS MCInstance, ForeignKeysProofs, SequenceTheorems

IpDocsMatch(d) ==
  \A ip \in DOMAIN d["instance_ips"] :
    d["instance_ips"][ip].doc = d["instance_ips"][ip].server_id

Good(d) == TablesOK(d) /\ RefIntegrity(InstanceKeys, d) /\ IpDocsMatch(d)

IInv == Good(db) /\ req \in [Clients -> Requests]

-----------------------------------------------------------------------------
(***************************************************************************)
(* The keys of the service fit its tables.                                 *)
(***************************************************************************)

\* Every table and column an InstanceKeys key names exists in a typed database.
LEMMA InstanceLayout ==
  ASSUME NEW d, TablesOK(d) PROVE LaidOutFor(InstanceKeys, d)
<1>1. \A fk \in InstanceKeys : /\ fk.child \in Tables /\ fk.parent \in Tables
                               /\ fk.action \in {NoAction, Cascade, SetNull}
  BY DEF InstanceKeys, ForeignKey, Tables, NoAction, Cascade, SetNull
<1>2. DOMAIN d = Tables
  BY DEF TablesOK
<1>3. ASSUME NEW fk \in InstanceKeys, NEW c \in DOMAIN d[fk.child]
      PROVE  fk.col \in DOMAIN d[fk.child][c]
  <2>1. d[fk.child][c] \in RowsOf(fk.child)
    BY <1>1, <1>3 DEF TablesOK
  <2>2. \A row \in ServerRows : DOMAIN row = {"security_group_id", "doc"}
    BY DEF ServerRows
  <2>3. \A row \in IpRows : DOMAIN row = {"server_id", "doc"}
    BY DEF IpRows
  <2>4. \A row \in NicRows : DOMAIN row = {"server_id", "private_network_id"}
    BY DEF NicRows
  <2>5. QED BY <2>1, <2>2, <2>3, <2>4 DEF InstanceKeys, ForeignKey, RowsOf
<1>4. QED BY <1>1, <1>2, <1>3 DEF LaidOutFor

\* No cascade of the service starts another.
LEMMA InstanceCascades == CascadesEndAtOnce(InstanceKeys)
BY DEF CascadesEndAtOnce, InstanceKeys, ForeignKey, NoAction, Cascade, SetNull

\* What integrity says key by key.
LEMMA InstanceIntegrity ==
  ASSUME NEW d
  PROVE  RefIntegrity(InstanceKeys, d) <=>
           /\ \A s \in DOMAIN d["instance_servers"] :
                d["instance_servers"][s]["security_group_id"]
                  \in DOMAIN d["instance_security_groups"] \cup {Null}
           /\ \A ip \in DOMAIN d["instance_ips"] :
                d["instance_ips"][ip]["server_id"]
                  \in DOMAIN d["instance_servers"] \cup {Null}
           /\ \A n \in DOMAIN d["instance_private_nics"] :
                /\ d["instance_private_nics"][n]["server_id"]
                     \in DOMAIN d["instance_servers"] \cup {Null}
                /\ d["instance_private_nics"][n]["private_network_id"]
                     \in DOMAIN d["private_networks"] \cup {Null}
<1> DEFINE Live(fk) == \A c \in DOMAIN d[fk.child] :
                         d[fk.child][c][fk.col] \in DOMAIN d[fk.parent] \cup {Null}
<1>1. RefIntegrity(InstanceKeys, d) <=> \A fk \in InstanceKeys : Live(fk)
  BY DEF RefIntegrity
<1>2. (\A fk \in InstanceKeys : Live(fk)) <=>
        /\ Live(ForeignKey("instance_servers", "security_group_id",
                           "instance_security_groups", SetNull))
        /\ Live(ForeignKey("instance_ips", "server_id", "instance_servers", SetNull))
        /\ Live(ForeignKey("instance_private_nics", "server_id", "instance_servers", Cascade))
        /\ Live(ForeignKey("instance_private_nics", "private_network_id",
                           "private_networks", NoAction))
  <2> HIDE DEF Live
  <2> QED BY DEF InstanceKeys
<1>3. QED BY <1>1, <1>2 DEF ForeignKey

(***************************************************************************)
(* Statements keep a database good.                                        *)
(***************************************************************************)

\* An accepted INSERT of a well-formed row.
LEMMA InsertKeepsGood ==
  ASSUME NEW d, Good(d), NEW t \in Tables, NEW k \in IdsOf(t), NEW row \in RowsOf(t),
         RowOK(InstanceKeys, d, t, row),
         t = "instance_ips" => row.doc = row.server_id
  PROVE  Good(InsertRow(d, t, k, row))
<1>1. TablesOK(InsertRow(d, t, k, row))
  BY DEF Good, TablesOK, InsertRow
<1>2. RefIntegrity(InstanceKeys, InsertRow(d, t, k, row))
  BY InstanceLayout, InsertKeepsIntegrity DEF Good, TablesOK
<1>3. IpDocsMatch(InsertRow(d, t, k, row))
  BY DEF Good, TablesOK, IpDocsMatch, InsertRow, Tables
<1>4. QED BY <1>1, <1>2, <1>3 DEF Good

\* An accepted UPDATE of document and columns, also of a row that is gone.
LEMMA UpdateKeepsGood ==
  ASSUME NEW d, Good(d), NEW t \in Tables, NEW k, NEW row \in RowsOf(t),
         k \in DOMAIN d[t] => RowOK(InstanceKeys, d, t, row),
         t = "instance_ips" => row.doc = row.server_id
  PROVE  Good(UpdateRow(d, t, k, row))
<1>1. TablesOK(UpdateRow(d, t, k, row))
  BY DEF Good, TablesOK, UpdateRow
<1>2. RefIntegrity(InstanceKeys, UpdateRow(d, t, k, row))
  BY InstanceLayout, UpdateKeepsIntegrity DEF Good, TablesOK
<1>3. IpDocsMatch(UpdateRow(d, t, k, row))
  BY DEF Good, TablesOK, IpDocsMatch, UpdateRow, Tables
<1>4. QED BY <1>1, <1>2, <1>3 DEF Good

\* Clearing the columns of SET NULL keys leaves well-formed rows.
LEMMA ClearedRowTyped ==
  ASSUME NEW t, NEW k, NEW u \in Tables, NEW row \in RowsOf(u)
  PROVE  ClearedRow(InstanceKeys, t, k, u, row) \in RowsOf(u)
<1> DEFINE new == ClearedRow(InstanceKeys, t, k, u, row)
<1>0. /\ DOMAIN new = DOMAIN row
      /\ \A col \in DOMAIN row : new[col] \in {row[col], Null}
  BY DEF ClearedRow
<1>1. CASE u = "instance_servers"
  <2>1. row \in ServerRows
    BY <1>1 DEF RowsOf
  <2>2. new.doc = row.doc
    BY <2>1, <1>1 DEF ServerRows, ClearedRow, InstanceKeys, ForeignKey, SetNull, NoAction, Cascade
  <2>3. new = [security_group_id |-> new.security_group_id, doc |-> new.doc]
    BY <2>1 DEF ServerRows, ClearedRow
  <2>4. QED BY <1>0, <1>1, <2>1, <2>2, <2>3 DEF RowsOf, ServerRows
<1>2. CASE u = "instance_ips"
  <2>1. row \in IpRows
    BY <1>2 DEF RowsOf
  <2>2. new = [server_id |-> new.server_id, doc |-> new.doc]
    BY <2>1 DEF IpRows, ClearedRow
  <2>3. QED BY <1>0, <1>2, <2>1, <2>2 DEF RowsOf, IpRows
<1>3. CASE u \notin {"instance_servers", "instance_ips"}
  <2>1. \A fk \in InstanceKeys : fk.child = u => fk.action # SetNull
    BY <1>3 DEF InstanceKeys, ForeignKey, SetNull, NoAction, Cascade
  <2>2. new = [col \in DOMAIN row |-> row[col]]
    BY <2>1 DEF ClearedRow
  <2>3. row = [col \in DOMAIN row |-> row[col]]
    BY <1>3 DEF RowsOf, NicRows, PlainRow, Tables
  <2>4. QED BY <2>2, <2>3
<1>4. QED BY <1>1, <1>2, <1>3

\* An accepted DELETE, provided no IP is attached to a server it deletes.
LEMMA DeleteKeepsGood ==
  ASSUME NEW d, Good(d), NEW t \in Tables, NEW k,
         ~Blocked(InstanceKeys, d, t, k),
         t = "instance_servers" =>
           \A ip \in DOMAIN d["instance_ips"] : d["instance_ips"][ip].server_id # k
  PROVE  Good(DeleteRow(InstanceKeys, d, t, k))
<1> DEFINE new == DeleteRow(InstanceKeys, d, t, k)
<1>0. /\ DOMAIN d = Tables
      /\ \A u \in Tables : \A c \in DOMAIN d[u] : d[u][c] \in RowsOf(u)
  BY DEF Good, TablesOK
<1>1. TablesOK(new)
  <2>1. new = [u \in Tables |-> new[u]]
    BY <1>0 DEF DeleteRow
  <2>2. ASSUME NEW u \in Tables
        PROVE  /\ DOMAIN new[u] \subseteq IdsOf(u)
               /\ new[u] \in [DOMAIN new[u] -> RowsOf(u)]
    <3>1. new[u] = [c \in DOMAIN d[u] \ Doomed(InstanceKeys, d, t, k, u) |->
                      ClearedRow(InstanceKeys, t, k, u, d[u][c])]
      BY <1>0, <2>2 DEF DeleteRow
    <3>2. DOMAIN new[u] \subseteq DOMAIN d[u]
      BY <3>1
    <3>3. \A c \in DOMAIN new[u] : ClearedRow(InstanceKeys, t, k, u, d[u][c]) \in RowsOf(u)
      BY <1>0, <2>2, <3>2, ClearedRowTyped
    <3>4. DOMAIN d[u] \subseteq IdsOf(u)
      BY <2>2 DEF Good, TablesOK
    <3>5. new[u] = [c \in DOMAIN new[u] |-> ClearedRow(InstanceKeys, t, k, u, d[u][c])]
      BY <3>1
    <3> HIDE DEF new
    <3>6. QED BY <3>2, <3>3, <3>4, <3>5
  <2>3. QED BY <2>1, <2>2 DEF TablesOK
<1>2. RefIntegrity(InstanceKeys, new)
  BY <1>0, InstanceLayout, InstanceCascades, DeleteKeepsIntegrity DEF Good
<1>3. IpDocsMatch(new)
  <2>1. SUFFICES ASSUME NEW ip \in DOMAIN new["instance_ips"]
                 PROVE  new["instance_ips"][ip].doc = new["instance_ips"][ip].server_id
    BY DEF IpDocsMatch
  <2> DEFINE row == d["instance_ips"][ip]
  <2>2. /\ ip \in DOMAIN d["instance_ips"]
        /\ new["instance_ips"][ip] = ClearedRow(InstanceKeys, t, k, "instance_ips", row)
    BY <1>0 DEF DeleteRow, Tables
  <2>3. row \in IpRows
    BY <1>0, <2>2 DEF RowsOf, Tables
  <2>4. ~\E fk \in InstanceKeys : /\ fk.child = "instance_ips" /\ fk.parent = t
                                  /\ fk.action = SetNull /\ fk.col = "server_id"
                                  /\ row["server_id"] = k
    BY <2>2 DEF InstanceKeys, ForeignKey
  <2>5. ~\E fk \in InstanceKeys : fk.child = "instance_ips" /\ fk.col = "doc"
    BY DEF InstanceKeys, ForeignKey
  <2>6. /\ new["instance_ips"][ip].server_id = row.server_id
        /\ new["instance_ips"][ip].doc = row.doc
    BY <2>2, <2>3, <2>4, <2>5 DEF ClearedRow, IpRows
  <2>7. QED BY <2>2, <2>6 DEF Good, IpDocsMatch
<1>4. QED BY <1>1, <1>2, <1>3 DEF Good

(***************************************************************************)
(* The statements of the delete transactions that precede the DELETE.      *)
(***************************************************************************)

\* Replacing one table by a well-formed one.
LEMMA ReplaceTable ==
  ASSUME NEW d, TablesOK(d), NEW u \in Tables, NEW new, new = [t \in Tables |-> new[t]],
         \A t \in Tables \ {u} : new[t] = d[t],
         DOMAIN new[u] \subseteq IdsOf(u), new[u] \in [DOMAIN new[u] -> RowsOf(u)]
  PROVE  TablesOK(new)
BY DEF TablesOK

\* Detaching a group clears columns only.
LEMMA DetachGroupKeepsGood ==
  ASSUME NEW d, Good(d), NEW g
  PROVE  Good(DetachSecurityGroup(d, g))
<1> DEFINE new == DetachSecurityGroup(d, g)
           old == d["instance_servers"]
<1>1. /\ DOMAIN d = Tables
      /\ old \in [DOMAIN old -> ServerRows]
      /\ DOMAIN old \subseteq Servers
  BY DEF Good, TablesOK, RowsOf, IdsOf, Tables
<1>2. /\ DOMAIN new = Tables
      /\ \A t \in Tables : DOMAIN new[t] = DOMAIN d[t]
      /\ \A t \in Tables \ {"instance_servers"} : new[t] = d[t]
      /\ new = [t \in Tables |-> new[t]]
  BY <1>1 DEF DetachSecurityGroup, Tables
<1>3. ASSUME NEW s \in DOMAIN old
      PROVE  /\ new["instance_servers"][s] \in ServerRows
             /\ new["instance_servers"][s].security_group_id
                  \in {Null, old[s].security_group_id}
  <2>1. new["instance_servers"][s]
          = IF old[s].security_group_id = g
            THEN ServerRow(Null, [old[s].doc EXCEPT !.sg = Null]) ELSE old[s]
    BY <1>1 DEF DetachSecurityGroup, Tables
  <2>2. old[s] \in ServerRows
    BY <1>1
  <2>3. [old[s].doc EXCEPT !.sg = Null] \in ServerDoc
    BY <2>2 DEF ServerRows, ServerDoc
  <2>4. QED BY <2>1, <2>2, <2>3 DEF ServerRows, ServerRow
<1>4. new["instance_servers"] = [s \in DOMAIN old |-> new["instance_servers"][s]]
  BY <1>1 DEF DetachSecurityGroup, Tables
<1>5. TablesOK(new)
  <2>1. /\ DOMAIN new["instance_servers"] = DOMAIN old
        /\ new["instance_servers"] \in [DOMAIN old -> ServerRows]
    BY <1>2, <1>3, <1>4 DEF Tables
  <2>2. /\ "instance_servers" \in Tables
        /\ IdsOf("instance_servers") = Servers /\ RowsOf("instance_servers") = ServerRows
    BY DEF IdsOf, RowsOf, Tables
  <2> HIDE DEF new
  <2>3. QED BY <1>1, <1>2, <2>1, <2>2, ReplaceTable DEF Good
<1>6. RefIntegrity(InstanceKeys, new)
  <2> HIDE DEF new
  <2> QED BY <1>2, <1>3, InstanceIntegrity DEF Good, Tables
<1>7. IpDocsMatch(new)
  BY <1>2 DEF Good, IpDocsMatch, Tables
<1>8. QED BY <1>5, <1>6, <1>7 DEF Good

\* Detaching the IPs of a server leaves none that names it.
LEMMA DetachIPsKeepsGood ==
  ASSUME NEW d, Good(d), NEW s \in Servers
  PROVE  /\ Good(DetachIPs(d, s))
         /\ \A ip \in DOMAIN DetachIPs(d, s)["instance_ips"] :
              DetachIPs(d, s)["instance_ips"][ip].server_id # s
<1> DEFINE new == DetachIPs(d, s)
           old == d["instance_ips"]
<1>1. /\ DOMAIN d = Tables
      /\ old \in [DOMAIN old -> IpRows]
      /\ DOMAIN old \subseteq Ips
  BY DEF Good, TablesOK, RowsOf, IdsOf, Tables
<1>2. /\ DOMAIN new = Tables
      /\ \A t \in Tables : DOMAIN new[t] = DOMAIN d[t]
      /\ \A t \in Tables \ {"instance_ips"} : new[t] = d[t]
      /\ new = [t \in Tables |-> new[t]]
  BY <1>1 DEF DetachIPs, Tables
<1>3. ASSUME NEW ip \in DOMAIN old
      PROVE  /\ new["instance_ips"][ip] \in IpRows
             /\ new["instance_ips"][ip].server_id \in {Null, old[ip].server_id} \ {s}
             /\ new["instance_ips"][ip].doc = new["instance_ips"][ip].server_id
  <2>1. new["instance_ips"][ip] = IF old[ip].server_id = s THEN IpRow(Null) ELSE old[ip]
    BY <1>1 DEF DetachIPs, Tables
  <2>2. old[ip] \in IpRows /\ old[ip].doc = old[ip].server_id
    BY <1>1 DEF Good, IpDocsMatch
  <2>3. QED BY <2>1, <2>2, NullIsNoId DEF IpRows, IpRow
<1>4. new["instance_ips"] = [ip \in DOMAIN old |-> new["instance_ips"][ip]]
  BY <1>1 DEF DetachIPs, Tables
<1>5. TablesOK(new)
  <2>1. /\ DOMAIN new["instance_ips"] = DOMAIN old
        /\ new["instance_ips"] \in [DOMAIN old -> IpRows]
    BY <1>2, <1>3, <1>4 DEF Tables
  <2>2. /\ "instance_ips" \in Tables
        /\ IdsOf("instance_ips") = Ips /\ RowsOf("instance_ips") = IpRows
    BY DEF IdsOf, RowsOf, Tables
  <2> HIDE DEF new
  <2>3. QED BY <1>1, <1>2, <2>1, <2>2, ReplaceTable DEF Good
<1>6. RefIntegrity(InstanceKeys, new)
  <2>1. /\ new["instance_servers"] = d["instance_servers"]
        /\ new["instance_private_nics"] = d["instance_private_nics"]
        /\ new["instance_security_groups"] = d["instance_security_groups"]
        /\ new["private_networks"] = d["private_networks"]
        /\ DOMAIN new["instance_ips"] = DOMAIN old
    BY <1>2 DEF Tables
  <2>2. \A ip \in DOMAIN new["instance_ips"] :
          new["instance_ips"][ip]["server_id"] \in {Null, old[ip]["server_id"]}
    BY <1>3, <2>1
  <2> HIDE DEF new
  <2> QED BY <2>1, <2>2, InstanceIntegrity DEF Good
<1>7. IpDocsMatch(new)
  BY <1>2, <1>3 DEF IpDocsMatch, Tables
<1>8. \A ip \in DOMAIN new["instance_ips"] : new["instance_ips"][ip].server_id # s
  BY <1>2, <1>3 DEF Tables
<1>9. QED BY <1>5, <1>6, <1>7, <1>8 DEF Good

\* Dropping NICs drops no row another one refers to.
LEMMA DropNICsKeepsGood ==
  ASSUME NEW d, Good(d), NEW s
  PROVE  /\ Good(DropNICs(d, s))
         /\ DropNICs(d, s)["instance_ips"] = d["instance_ips"]
<1> DEFINE new  == DropNICs(d, s)
           old  == d["instance_private_nics"]
           kept == {n \in DOMAIN old : old[n].server_id # s}
<1>1. /\ DOMAIN d = Tables
      /\ old \in [DOMAIN old -> NicRows]
      /\ DOMAIN old \subseteq Nics
  BY DEF Good, TablesOK, RowsOf, IdsOf, Tables
<1>2. /\ DOMAIN new = Tables
      /\ new["instance_private_nics"] = [n \in kept |-> old[n]]
      /\ \A t \in Tables \ {"instance_private_nics"} : new[t] = d[t]
      /\ new = [t \in Tables |-> new[t]]
  BY <1>1 DEF DropNICs, Tables
<1>3. TablesOK(new)
  BY <1>1, <1>2 DEF Good, TablesOK, RowsOf, IdsOf, Tables
<1>4. RefIntegrity(InstanceKeys, new)
  <2>1. /\ \A t \in Tables \ {"instance_private_nics"} : new[t] = d[t]
        /\ DOMAIN new["instance_private_nics"] \subseteq DOMAIN old
        /\ \A n \in DOMAIN new["instance_private_nics"] :
             new["instance_private_nics"][n] = old[n]
    BY <1>2
  <2>2. /\ new["instance_servers"] = d["instance_servers"]
        /\ new["instance_ips"] = d["instance_ips"]
        /\ new["instance_security_groups"] = d["instance_security_groups"]
        /\ new["private_networks"] = d["private_networks"]
    BY <1>2 DEF Tables
  <2> HIDE DEF new
  <2> QED BY <2>1, <2>2, InstanceIntegrity DEF Good
<1>5. IpDocsMatch(new)
  BY <1>2 DEF Good, IpDocsMatch, Tables
<1>6. QED BY <1>2, <1>3, <1>4, <1>5 DEF Good, Tables

\* No key of the service can refuse the deletion of a server or a group.
LEMMA NeverBlocked ==
  ASSUME NEW d, NEW k, NEW t \in {"instance_servers", "instance_security_groups"}
  PROVE  ~Blocked(InstanceKeys, d, t, k)
BY DEF Blocked, InstanceKeys, ForeignKey, NoAction, Cascade, SetNull

-----------------------------------------------------------------------------
(***************************************************************************)
(* Steps.  Kept(c) is what a step of c owes: a good database, and well-    *)
(* typed locals or an answer for c.                                        *)
(***************************************************************************)
Kept(c) == Good(db') /\ \E r \in Requests : Continue(c, r)

\* An answer is well typed, so a step that answers owes the database only.
LEMMA AnswerKept ==
  ASSUME NEW c, NEW status \in Statuses, Answer(c, status), Good(db')
  PROVE  Kept(c)
BY DEF Kept, Answer, Answered, Requests

\* A create request.
LEMMA CreateSimpleKept ==
  ASSUME Good(db), NEW c, NEW t \in Tables, NEW k \in IdsOf(t), NEW row \in RowsOf(t),
         t = "instance_ips" => row.doc = row.server_id,
         CreateSimple(InstanceKeys, c, t, k, row)
  PROVE  Kept(c)
BY InsertKeepsGood, AnswerKept DEF CreateSimple, InsertJSON, Statuses

\* A delete request, except of a server.
LEMMA DeleteByKept ==
  ASSUME Good(db), NEW c, NEW t \in Tables \ {"instance_servers"}, NEW k,
         DeleteBy(InstanceKeys, c, t, k)
  PROVE  Kept(c)
BY DeleteKeepsGood, AnswerKept DEF DeleteBy, Statuses

\* The transaction that deletes a server.
LEMMA DeleteServerTxKept ==
  ASSUME Good(db), NEW c, NEW s \in Servers, DeleteServerTx(c, s)
  PROVE  Kept(c)
<1>1. CASE ~Found("instance_servers", s)
  BY <1>1, AnswerKept DEF DeleteServerTx, Statuses
<1>2. CASE Found("instance_servers", s)
  <2> DEFINE d == DropNICs(DetachIPs(db, s), s)
  <2>1. Good(d) /\ \A ip \in DOMAIN d["instance_ips"] : d["instance_ips"][ip].server_id # s
    BY DetachIPsKeepsGood, DropNICsKeepsGood
  <2>2. db' = DeleteRow(InstanceKeys, d, "instance_servers", s) /\ Answer(c, "ok")
    BY <1>2 DEF DeleteServerTx
  <2>3. ~Blocked(InstanceKeys, d, "instance_servers", s)
    BY NeverBlocked
  <2> HIDE DEF d
  <2>4. Good(DeleteRow(InstanceKeys, d, "instance_servers", s))
    BY <2>1, <2>3, DeleteKeepsGood DEF Tables
  <2>5. QED BY <2>2, <2>4, AnswerKept DEF Statuses
<1>3. QED BY <1>1, <1>2

\* The UPDATE of an IP, in UpdateIP and when CreateServer attaches it.
LEMMA IpWriteKeepsGood ==
  ASSUME Good(db), NEW ip, NEW s \in Servers \cup {Null}, IpWriteOK(ip, s)
  PROVE  Good(UpdateRow(db, "instance_ips", ip, IpRow(s)))
<1>1. IpRow(s) \in RowsOf("instance_ips") /\ IpRow(s).doc = IpRow(s).server_id
  BY DEF IpRow, RowsOf, IpRows
<1>2. QED BY <1>1, UpdateKeepsGood DEF IpWriteOK, Found, Tables

\* The UPDATE of a server.
LEMMA WriteServerRowKept ==
  ASSUME Good(db), NEW c, NEW s, NEW group \in SecurityGroups \cup {Null},
         NEW doc \in ServerDoc, WriteServerRow(c, s, ServerRow(group, doc))
  PROVE  Kept(c)
<1>1. ServerRow(group, doc) \in RowsOf("instance_servers")
  BY DEF ServerRow, RowsOf, ServerRows
<1>2. CASE ServerWriteOK(s, ServerRow(group, doc))
  <2>1. Good(UpdateRow(db, "instance_servers", s, ServerRow(group, doc)))
    BY <1>1, <1>2, UpdateKeepsGood DEF ServerWriteOK, Found, Tables
  <2>2. QED BY <1>2, <2>1, AnswerKept DEF WriteServerRow, Statuses
<1>3. CASE ~ServerWriteOK(s, ServerRow(group, doc))
  BY <1>3, AnswerKept DEF WriteServerRow, Statuses
<1>4. QED BY <1>2, <1>3

\* Documents read from a good database are well typed.
LEMMA DocsTyped ==
  ASSUME Good(db)
  PROVE  /\ DOMAIN db["instance_ips"] \subseteq Ips
         /\ DOMAIN db["instance_servers"] \subseteq Servers
         /\ \A ip \in DOMAIN db["instance_ips"] :
              db["instance_ips"][ip].doc \in Servers \cup {Null}
         /\ \A s \in DOMAIN db["instance_servers"] :
              /\ db["instance_servers"][s].doc \in ServerDoc
              /\ db["instance_servers"][s].security_group_id \in SecurityGroups \cup {Null}
<1>1. /\ DOMAIN db["instance_ips"] \subseteq Ips
      /\ db["instance_ips"] \in [DOMAIN db["instance_ips"] -> IpRows]
  BY DEF Good, TablesOK, RowsOf, IdsOf, Tables
<1>2. /\ DOMAIN db["instance_servers"] \subseteq Servers
      /\ db["instance_servers"] \in [DOMAIN db["instance_servers"] -> ServerRows]
  BY DEF Good, TablesOK, RowsOf, IdsOf, Tables
<1>3. QED BY <1>1, <1>2 DEF IpRows, ServerRows

\* Every way a request can begin.
LEMMA ArriveKept ==
  ASSUME IInv, NEW c \in Clients, Arrive(c)
  PROVE  Kept(c)
<1>0. Good(db)
  BY DEF IInv
<1>1. CASE CreateSecurityGroup(c)
  BY <1>0, <1>1, CreateSimpleKept DEF CreateSecurityGroup, RowsOf, IdsOf, Tables
<1>2. CASE DeleteSecurityGroup(c)
  <2>1. PICK g \in SecurityGroups :
          \/ /\ db' = DeleteRow(InstanceKeys, DetachSecurityGroup(db, g),
                                "instance_security_groups", g)
             /\ Answer(c, "ok")
          \/ Answer(c, "not_found") /\ UNCHANGED db
    BY <1>2 DEF DeleteSecurityGroup
  <2>2. Good(DeleteRow(InstanceKeys, DetachSecurityGroup(db, g),
                       "instance_security_groups", g))
    BY <1>0, DetachGroupKeepsGood, NeverBlocked, DeleteKeepsGood DEF Tables
  <2>3. QED BY <1>0, <2>1, <2>2, AnswerKept DEF Statuses
<1>3. CASE CreatePrivateNetwork(c)
  BY <1>0, <1>3, CreateSimpleKept DEF CreatePrivateNetwork, RowsOf, IdsOf, Tables
<1>4. CASE DeletePrivateNetwork(c)
  BY <1>0, <1>4, DeleteByKept DEF DeletePrivateNetwork, Tables
<1>5. CASE CreateIP(c)
  <2>1. PICK ip \in Ips, s \in Servers \cup {Null} :
          CreateSimple(InstanceKeys, c, "instance_ips", ip, IpRow(s))
    BY <1>5 DEF CreateIP
  <2>2. IpRow(s) \in RowsOf("instance_ips") /\ IpRow(s).doc = IpRow(s).server_id
    BY DEF IpRow, RowsOf, IpRows
  <2>3. QED BY <1>0, <2>1, <2>2, CreateSimpleKept DEF IdsOf, Tables
<1>6. CASE DeleteIP(c)
  BY <1>0, <1>6, DeleteByKept DEF DeleteIP, Tables
<1>7. CASE ReadIP(c)
  BY <1>0, <1>7, DocsTyped DEF ReadIP, Kept, Answer, Answered, Found, Requests, Statuses
<1>8. CASE BeginCreateServer(c)
  <2>1. PublicIpLists \subseteq Seq(Ips)
    BY MaxPublicIpsIsNat DEF PublicIpLists
  <2>2. QED BY <1>0, <1>8, <2>1 DEF BeginCreateServer, Kept, Requests
<1>9. CASE DeleteServer(c)
  BY <1>0, <1>9, DeleteServerTxKept DEF DeleteServer
<1>10. CASE ServerAction(c)
  BY <1>0, <1>10 DEF ServerAction, Kept, Answer, Answered, Requests, Statuses
<1>11. CASE ReadServer(c)
  <2>1. \A doc \in ServerDoc : \A g \in SecurityGroups \cup {Null, doc.sg} :
          [doc EXCEPT !.sg = g] \in ServerDoc
    BY DEF ServerDoc
  <2>2. QED BY <1>0, <1>11, <2>1, DocsTyped
             DEF ReadServer, Kept, Answer, Answered, Found, Requests, Statuses
<1>12. CASE CreatePrivateNIC(c)
  <2>1. PICK n \in Nics, s \in Servers, p \in PrivateNetworks :
          CreateSimple(InstanceKeys, c, "instance_private_nics", n, NicRow(s, p))
    BY <1>12 DEF CreatePrivateNIC
  <2>2. NicRow(s, p) \in RowsOf("instance_private_nics")
    BY DEF NicRow, RowsOf, NicRows
  <2>3. QED BY <1>0, <2>1, <2>2, CreateSimpleKept DEF IdsOf, Tables
<1>13. CASE ReadPrivateNIC(c)
  BY <1>0, <1>13 DEF ReadPrivateNIC, Kept, Answer, Answered, Requests, Statuses
<1>14. CASE DeleteInstanceVolume(c)
  BY <1>0, <1>14, DocsTyped
     DEF DeleteInstanceVolume, Kept, Answer, Answered, Found, Requests, Statuses
<1>15. QED BY <1>1, <1>2, <1>3, <1>4, <1>5, <1>6, <1>7, <1>8, <1>9, <1>10, <1>11,
              <1>12, <1>13, <1>14 DEF Arrive

\* Lists of IPs still to look up or attach.
LEMMA TodoLists ==
  ASSUME NEW todo \in Seq(Ips), todo # <<>>
  PROVE  Head(todo) \in Ips /\ Tail(todo) \in Seq(Ips)
OBVIOUS

\* Every way a handler can go on.
LEMMA ProceedKept ==
  ASSUME IInv, NEW c \in Clients, Proceed(c)
  PROVE  Kept(c)
<1> DEFINE r == req[c]
<1>0. Good(db) /\ r \in Requests
  BY DEF IInv
<1>1. CASE WriteIP(c)
  <2>1. r.at = "UpdateIP" /\ r.server \in Servers \cup {Null}
    BY <1>0, <1>1 DEF WriteIP, Requests
  <2>2. CASE IpWriteOK(r.ip, r.server)
    <3>1. Good(UpdateRow(db, "instance_ips", r.ip, IpRow(r.server)))
      BY <1>0, <2>1, <2>2, IpWriteKeepsGood
    <3>2. QED BY <1>1, <2>2, <3>1, AnswerKept DEF WriteIP, Statuses
  <2>3. CASE ~IpWriteOK(r.ip, r.server)
    BY <1>0, <1>1, <2>3, AnswerKept DEF WriteIP, Statuses
  <2>4. QED BY <2>2, <2>3
<1>2. CASE CheckPublicIP(c)
  <2>1. /\ r.at = "CreateServer" /\ r.todo # <<>>
        /\ r \in [at : {"CreateServer"}, server : Servers, sg : SecurityGroups \cup {Null},
                  ips : Seq(Ips), todo : Seq(Ips)]
    BY <1>0, <1>2 DEF CheckPublicIP, Requests
  <2>2. [r EXCEPT !.todo = Tail(@)] \in Requests
    BY <2>1, TodoLists DEF Requests
  <2>3. QED BY <1>0, <1>2, <2>2 DEF CheckPublicIP, Kept, Answer, Answered, Requests, Statuses
<1>3. CASE InsertServer(c)
  <2>1. /\ r.at = "CreateServer" /\ r.server \in Servers
        /\ r.sg \in SecurityGroups \cup {Null} /\ r.ips \in Seq(Ips)
    BY <1>0, <1>3 DEF InsertServer, Requests
  <2>2. NewServerRow(r.sg) \in RowsOf("instance_servers")
    BY <2>1 DEF NewServerRow, ServerRow, RowsOf, ServerRows, ServerDoc, PowerStates
  <2>3. CASE RowOK(InstanceKeys, db, "instance_servers", NewServerRow(r.sg))
    <3>1. Good(InsertRow(db, "instance_servers", r.server, NewServerRow(r.sg)))
      BY <1>0, <2>1, <2>2, <2>3, InsertKeepsGood DEF IdsOf, Tables
    <3>2. r.ips # <<>> =>
            [at |-> "AttachIPs", server |-> r.server, ips |-> r.ips, todo |-> r.ips,
             read |-> FALSE] \in Requests
      BY <2>1 DEF Requests
    <3>3. QED BY <1>3, <2>3, <3>1, <3>2, AnswerKept DEF InsertServer, Kept, Statuses
  <2>4. CASE ~RowOK(InstanceKeys, db, "instance_servers", NewServerRow(r.sg))
    BY <1>0, <1>3, <2>4, AnswerKept DEF InsertServer, Statuses
  <2>5. QED BY <2>3, <2>4
<1>4. ASSUME r.at = "AttachIPs"
      PROVE  /\ r.server \in Servers /\ r.todo \in Seq(Ips) /\ r.todo # <<>>
             /\ \A b \in BOOLEAN : [r EXCEPT !.read = b] \in Requests
             /\ Tail(r.todo) # <<>> => [r EXCEPT !.todo = Tail(@), !.read = FALSE] \in Requests
  <2>1. r \in [at : {"AttachIPs"}, server : Servers, ips : Seq(Ips),
               todo : Seq(Ips) \ {<<>>}, read : BOOLEAN]
    BY <1>0, <1>4 DEF Requests
  <2>2. QED BY <2>1, TodoLists DEF Requests
<1>5. CASE AttachRead(c)
  BY <1>0, <1>4, <1>5 DEF AttachRead, Kept, Answer, Answered, Requests, Statuses
<1>6. CASE AttachWrite(c)
  <2> DEFINE ip == Head(r.todo)
  <2>1. r.at = "AttachIPs"
    BY <1>6 DEF AttachWrite
  <2>2. CASE IpWriteOK(ip, r.server)
    <3>1. Good(UpdateRow(db, "instance_ips", ip, IpRow(r.server)))
      BY <1>0, <1>4, <2>1, <2>2, IpWriteKeepsGood
    <3>2. QED BY <1>4, <1>6, <2>1, <2>2, <3>1, AnswerKept DEF AttachWrite, Kept, Statuses
  <2>3. CASE ~IpWriteOK(ip, r.server)
    BY <1>0, <1>6, <2>3, AnswerKept DEF AttachWrite, Statuses
  <2>4. QED BY <2>2, <2>3
<1>7. CASE Terminate(c)
  <2>1. r.server \in Servers
    BY <1>0, <1>7 DEF Terminate, Requests
  <2>2. QED BY <1>0, <1>7, <2>1, DeleteServerTxKept DEF Terminate
<1>8. CASE ReadServerState(c)
  <2>1. r.at = "ServerAction" /\ r.server \in Servers /\ r.action \in PowerStates
    BY <1>0, <1>8 DEF ReadServerState, Requests
  <2>2. \A doc \in ServerDoc : [doc EXCEPT !.state = r.action] \in ServerDoc
    BY <2>1 DEF ServerDoc
  <2>3. QED BY <1>0, <1>8, <2>1, <2>2, DocsTyped
             DEF ReadServerState, Kept, Answer, Answered, Found, Requests, Statuses
<1>9. CASE WriteServerState(c)
  <2>1. r.at = "SetServerState" /\ r.server \in Servers /\ r.doc \in ServerDoc
    BY <1>0, <1>9 DEF WriteServerState, Requests
  <2>2. CASE Found("instance_servers", r.server)
    <3> DEFINE group == db["instance_servers"][r.server].security_group_id
               row == ServerRow(group, r.doc)
    <3>1. group \in SecurityGroups \cup {Null}
      BY <1>0, <2>2, DocsTyped DEF Found
    <3>2. row \in RowsOf("instance_servers")
      BY <2>1, <3>1 DEF ServerRow, RowsOf, ServerRows
    <3>3. RowOK(InstanceKeys, db, "instance_servers", row)
      <4>1. group \in DOMAIN db["instance_security_groups"] \cup {Null}
        BY <1>0, <2>2, InstanceIntegrity DEF Good, Found
      <4>2. row["security_group_id"] = group
        BY DEF ServerRow
      <4> HIDE DEF row, group
      <4>3. QED BY <4>1, <4>2 DEF RowOK, InstanceKeys, ForeignKey
    <3>4. Good(UpdateRow(db, "instance_servers", r.server, row))
      <4> HIDE DEF row
      <4> QED BY <1>0, <3>2, <3>3, UpdateKeepsGood DEF Tables
    <3>5. QED BY <1>9, <2>2, <3>4, AnswerKept DEF WriteServerState, Statuses
  <2>3. CASE ~Found("instance_servers", r.server)
    BY <1>0, <1>9, <2>3, AnswerKept DEF WriteServerState, Statuses
  <2>4. QED BY <2>2, <2>3
<1>10. CASE CheckGroup(c)
  <2>1. /\ r.at = "UpdateServer" /\ r.doc.sg # Null
        /\ r.server \in Servers /\ r.doc \in ServerDoc
    BY <1>0, <1>10 DEF CheckGroup, Requests
  <2>2. Found("instance_security_groups", r.doc.sg) => r.doc.sg \in SecurityGroups
    BY <1>0 DEF Good, TablesOK, Found, IdsOf, Tables
  <2>3. QED BY <1>0, <1>10, <2>1, <2>2
             DEF CheckGroup, Kept, Answer, Answered, Requests, Statuses
<1>11. CASE WriteServer(c)
  <2>1. CASE r.at = "UpdateServer" /\ WriteServerRow(c, r.server, ServerRow(Null, r.doc))
    <3>1. r.doc \in ServerDoc
      BY <1>0, <2>1 DEF Requests
    <3>2. QED BY <1>0, <2>1, <3>1, WriteServerRowKept
  <2>2. CASE r.at = "WriteServer" /\ WriteServerRow(c, r.server, ServerRow(r.group, r.doc))
    <3>1. r.doc \in ServerDoc /\ r.group \in SecurityGroups \cup {Null}
      BY <1>0, <2>2 DEF Requests
    <3>2. QED BY <1>0, <2>2, <3>1, WriteServerRowKept
  <2>3. QED BY <1>11, <2>1, <2>2 DEF WriteServer
<1>12. CASE DeletePrivateNIC(c)
  BY <1>0, <1>12, DeleteByKept DEF DeletePrivateNIC, Tables
<1>13. QED BY <1>1, <1>2, <1>3, <1>5, <1>6, <1>7, <1>8, <1>9, <1>10, <1>11, <1>12
           DEF Proceed

-----------------------------------------------------------------------------
(***************************************************************************)
(* The invariant and what follows from it.                                 *)
(***************************************************************************)

\* The empty database is good.
LEMMA InitIInv == Init => IInv
<1> SUFFICES ASSUME Init PROVE IInv
  OBVIOUS
<1>1. /\ db = [t \in Tables |-> db[t]]
      /\ \A t \in Tables : db[t] = EmptyTable /\ DOMAIN db[t] = {}
  BY DEF Init, EmptyTable
<1>2. TablesOK(db)
  BY <1>1 DEF TablesOK, EmptyTable
<1>3. RefIntegrity(InstanceKeys, db)
  BY <1>1, InstanceIntegrity DEF Tables
<1>4. IpDocsMatch(db)
  BY <1>1 DEF IpDocsMatch, Tables
<1>5. req \in [Clients -> Requests]
  BY DEF Init, Answered, Requests, Statuses
<1>6. QED BY <1>2, <1>3, <1>4, <1>5 DEF IInv, Good

\* Every step keeps the invariant.
LEMMA StepIInv == IInv /\ [Next]_vars => IInv'
<1> SUFFICES ASSUME IInv, [Next]_vars PROVE IInv'
  OBVIOUS
<1>1. CASE UNCHANGED vars
  BY <1>1 DEF vars, IInv, Good, TablesOK, IpDocsMatch, RefIntegrity
<1>2. CASE Next
  <2>1. PICK c \in Clients : Arrive(c) \/ Proceed(c)
    BY <1>2 DEF Next
  <2>2. Kept(c)
    BY <2>1, ArriveKept, ProceedKept
  <2>3. PICK r \in Requests : req' = [req EXCEPT ![c] = r]
    BY <2>2 DEF Kept, Continue
  <2>4. req' \in [Clients -> Requests]
    BY <2>3 DEF IInv
  <2>5. QED BY <2>2, <2>4 DEF Kept, IInv, Good, TablesOK, IpDocsMatch, RefIntegrity
<1>3. QED BY <1>1, <1>2

\* IInv is an invariant.
THEOREM InstanceInvariant == Spec => []IInv
BY InitIInv, StepIInv, PTL DEF Spec

\* Type correctness of database and handlers.
THEOREM TypeCorrect == Spec => []TypeOK
<1>1. IInv => TypeOK
  BY DEF IInv, Good, TypeOK
<1>2. QED BY <1>1, InstanceInvariant, PTL

\* Whatever the interleaving, no row of the Instance API refers to a missing row.
THEOREM ReferencesStayLive == Spec => []ReferencesAreLive
<1>1. IInv => ReferencesAreLive
  BY DEF IInv, Good, ReferencesAreLive
<1>2. QED BY <1>1, InstanceInvariant, PTL

\* Whatever the interleaving, the document of an IP shows what its column says:
\* no server, or one that exists.
THEOREM IpDocumentsStayLive == Spec => []IpDocumentsAreLive
<1>1. IInv => IpDocumentsAreLive
  BY InstanceIntegrity DEF IInv, Good, IpDocsMatch, IpDocumentsAreLive
<1>2. QED BY <1>1, InstanceInvariant, PTL

-----------------------------------------------------------------------------
(***************************************************************************)
(* No resurrection.                                                        *)
(***************************************************************************)

\* The rows of e that are not in d have ids in S.
AddsOnly(S, d, e) == \A t \in Tables : DOMAIN e[t] \ DOMAIN d[t] \subseteq S

\* Only an INSERT adds a row, and only under the id it inserts.
LEMMA StatementsAdd ==
  ASSUME NEW d, DOMAIN d = Tables, NEW t \in Tables, NEW k
  PROVE  /\ \A row : AddsOnly({k}, d, InsertRow(d, t, k, row))
         /\ \A row : AddsOnly({}, d, UpdateRow(d, t, k, row))
         /\ AddsOnly({}, d, DeleteRow(InstanceKeys, d, t, k))
<1>1. \A row : AddsOnly({k}, d, InsertRow(d, t, k, row))
  BY DEF AddsOnly, InsertRow
<1>2. \A row : AddsOnly({}, d, UpdateRow(d, t, k, row))
  BY DEF AddsOnly, UpdateRow
<1>3. AddsOnly({}, d, DeleteRow(InstanceKeys, d, t, k))
  BY DEF AddsOnly, DeleteRow
<1>4. QED BY <1>1, <1>2, <1>3

\* The statements of the delete transactions add nothing.
LEMMA TransactionsAdd ==
  ASSUME NEW d, DOMAIN d = Tables, NEW k
  PROVE  /\ AddsOnly({}, d, DeleteRow(InstanceKeys, DetachSecurityGroup(d, k),
                                      "instance_security_groups", k))
         /\ AddsOnly({}, d, DeleteRow(InstanceKeys, DropNICs(DetachIPs(d, k), k),
                                      "instance_servers", k))
<1>1. DOMAIN DetachSecurityGroup(d, k) = Tables /\ AddsOnly({}, d, DetachSecurityGroup(d, k))
  BY DEF AddsOnly, DetachSecurityGroup, Tables
<1>2. DOMAIN DetachIPs(d, k) = Tables /\ AddsOnly({}, d, DetachIPs(d, k))
  BY DEF AddsOnly, DetachIPs, Tables
<1>3. \A e : DOMAIN e = Tables => DOMAIN DropNICs(e, k) = Tables /\ AddsOnly({}, e, DropNICs(e, k))
  BY DEF AddsOnly, DropNICs, Tables
<1>4. \A e, f : AddsOnly({}, d, e) /\ AddsOnly({}, e, f) => AddsOnly({}, d, f)
  BY DEF AddsOnly
<1>5. \A e : AddsOnly({}, d, e) /\ DOMAIN e = Tables =>
        /\ AddsOnly({}, d, DeleteRow(InstanceKeys, e, "instance_security_groups", k))
        /\ AddsOnly({}, d, DeleteRow(InstanceKeys, e, "instance_servers", k))
  BY <1>4, StatementsAdd DEF Tables
<1>6. /\ DOMAIN DropNICs(DetachIPs(d, k), k) = Tables
      /\ AddsOnly({}, d, DropNICs(DetachIPs(d, k), k))
  BY <1>2, <1>3, <1>4
<1>7. QED BY <1>1, <1>5, <1>6

\* An update in flight never brings back a row deleted in between, and a delete
\* never adds one: rows appear by the INSERT of their own create request only.
THEOREM RowsAppearOnlyByCreation == Spec => OnlyCreatesAddRows
<1>1. ASSUME IInv, [Next]_vars PROVE [AddsRowsByCreation]_vars
  <2>1. SUFFICES ASSUME NEW c \in Clients, Arrive(c) \/ Proceed(c)
                 PROVE  AddsRowsByCreation
    BY <1>1 DEF Next
  <2>2. DOMAIN db = Tables /\ AddsOnly({}, db, db)
    BY <1>1 DEF IInv, Good, TablesOK, AddsOnly
  <2>3. ASSUME AddsOnly({}, db, db') PROVE AddsRowsByCreation
    BY <2>3 DEF AddsOnly, AddsRowsByCreation
  <2>4. ASSUME NEW k, BeingCreated(k), AddsOnly({k}, db, db') PROVE AddsRowsByCreation
    BY <2>4 DEF AddsOnly, AddsRowsByCreation
  <2>5. ASSUME NEW t \in Tables, NEW k, NEW row, CreateSimple(InstanceKeys, c, t, k, row)
        PROVE  AddsRowsByCreation
    <3>1. k \notin issued
      BY <2>5 DEF CreateSimple, InsertJSON
    <3>2. db' = db \/ db' = InsertRow(db, t, k, row)
      BY <2>5 DEF CreateSimple, InsertJSON
    <3>3. AddsOnly({}, db, db') \/ AddsOnly({k}, db, db')
      BY <2>2, <3>2, StatementsAdd
    <3>4. QED BY <2>3, <2>4, <3>1, <3>3 DEF BeingCreated
  <2>6. ASSUME NEW t \in Tables, NEW k, DeleteBy(InstanceKeys, c, t, k) PROVE AddsRowsByCreation
    BY <2>2, <2>3, <2>6, StatementsAdd DEF DeleteBy
  <2>7. ASSUME NEW s, DeleteServerTx(c, s) PROVE AddsRowsByCreation
    BY <2>2, <2>3, <2>7, TransactionsAdd DEF DeleteServerTx
  <2>8. CASE Arrive(c)
    <3>1. CASE CreateSecurityGroup(c) \/ CreatePrivateNetwork(c) \/ CreateIP(c)
                 \/ CreatePrivateNIC(c)
      BY <2>5, <3>1 DEF CreateSecurityGroup, CreatePrivateNetwork, CreateIP,
                        CreatePrivateNIC, Tables
    <3>2. CASE DeletePrivateNetwork(c) \/ DeleteIP(c) \/ DeleteServer(c)
      BY <2>6, <2>7, <3>2 DEF DeletePrivateNetwork, DeleteIP, DeleteServer, Tables
    <3>3. CASE DeleteSecurityGroup(c)
      BY <2>2, <2>3, <3>3, TransactionsAdd DEF DeleteSecurityGroup
    <3>4. CASE ReadIP(c) \/ BeginCreateServer(c) \/ ServerAction(c) \/ ReadServer(c)
                 \/ ReadPrivateNIC(c) \/ DeleteInstanceVolume(c)
      BY <2>2, <2>3, <3>4
         DEF ReadIP, BeginCreateServer, ServerAction, ReadServer, ReadPrivateNIC,
             DeleteInstanceVolume
    <3>5. QED BY <2>8, <3>1, <3>2, <3>3, <3>4 DEF Arrive
  <2>9. CASE Proceed(c)
    <3>1. CASE InsertServer(c)
      <4>1. BeingCreated(req[c].server)
        BY <3>1 DEF InsertServer, BeingCreated
      <4>2. AddsOnly({}, db, db') \/ AddsOnly({req[c].server}, db, db')
        BY <2>2, <3>1, StatementsAdd DEF InsertServer, Tables
      <4>3. QED BY <2>3, <2>4, <4>1, <4>2
    <3>2. CASE WriteIP(c) \/ AttachWrite(c) \/ WriteServerState(c) \/ WriteServer(c)
      <4>1. \/ db' = db
            \/ \E t \in Tables : \E k, row : db' = UpdateRow(db, t, k, row)
        BY <3>2 DEF WriteIP, AttachWrite, WriteServerState, WriteServer, WriteServerRow,
                    Tables
      <4>2. QED BY <2>2, <2>3, <4>1, StatementsAdd
    <3>3. CASE Terminate(c) \/ DeletePrivateNIC(c)
      BY <2>6, <2>7, <3>3 DEF Terminate, DeletePrivateNIC, Tables
    <3>4. CASE CheckPublicIP(c) \/ AttachRead(c) \/ ReadServerState(c) \/ CheckGroup(c)
      BY <2>2, <2>3, <3>4 DEF CheckPublicIP, AttachRead, ReadServerState, CheckGroup
    <3>5. QED BY <2>9, <3>1, <3>2, <3>3, <3>4 DEF Proceed
  <2>10. QED BY <2>1, <2>8, <2>9
<1>2. QED BY <1>1, InstanceInvariant, PTL DEF Spec, OnlyCreatesAddRows

-----------------------------------------------------------------------------
(***************************************************************************)
(* One request at a time.  Only then is what a handler has read still true *)
(* when it writes: Ready says what it relies on at each statement.         *)
(***************************************************************************)
GroupShown(doc) == IF doc.sg \in SecurityGroups THEN doc.sg ELSE Null

GroupsMatch(d) ==
  \A s \in DOMAIN d["instance_servers"] :
    d["instance_servers"][s].security_group_id = GroupShown(d["instance_servers"][s].doc)

\* The document in a handler names the group that the one in the table names.
ShowsGroup(d, r) ==
  /\ r.server \in DOMAIN d["instance_servers"]
  /\ d["instance_servers"][r.server].doc.sg = r.doc.sg

Attached(d, ip, servers) ==
  ip \in DOMAIN d["instance_ips"] /\ d["instance_ips"][ip].server_id \in servers

\* The loop over the IPs of a request has done the first n of them.
HasDone(r, n) == n \in 0..Len(r.ips) /\ r.todo = SubSeq(r.ips, n + 1, Len(r.ips))

Ready(d, r) ==
  /\ r.at = "SetServerState" => ShowsGroup(d, r)
  /\ r.at = "UpdateServer" => r.patched \/ ShowsGroup(d, r)
  /\ r.at = "WriteServer" => r.group = GroupShown(r.doc)
  /\ r.at = "CreateServer" =>
       \E n : HasDone(r, n) /\ \A i \in 1..n : Attached(d, r.ips[i], {Null})
  /\ r.at = "AttachIPs" =>
       /\ r.server \in DOMAIN d["instance_servers"]
       /\ \A i \in 1..Len(r.ips) : Attached(d, r.ips[i], {Null, r.server})
       /\ \E n : HasDone(r, n) /\ \A i \in 1..n : Attached(d, r.ips[i], {r.server})

\* What a step of handler c leaves when the handler is alone.
LeavesReady(c) == GroupsMatch(db') /\ Ready(db', req'[c])

\* The loop over a list: what comes next, and when it ends.
LEMMA NextInList ==
  ASSUME NEW r, r.ips \in Seq(Ips), NEW n, HasDone(r, n)
  PROVE  /\ r.todo = <<>> => n = Len(r.ips)
         /\ r.todo # <<>> => /\ n + 1 \in 1..Len(r.ips) /\ Head(r.todo) = r.ips[n + 1]
                             /\ \A i \in 1..(n + 1) : i \in 1..n \/ i = n + 1
                             /\ \A s : s.ips = r.ips /\ s.todo = Tail(r.todo) =>
                                         HasDone(s, n + 1)
                             /\ Tail(r.todo) = <<>> => n + 1 = Len(r.ips)
<1>1. Len(r.ips) \in Nat /\ n \in 0..Len(r.ips)
  BY DEF HasDone
<1>2. ASSUME NEW m \in 0..Len(r.ips), SubSeq(r.ips, m + 1, Len(r.ips)) = <<>>
      PROVE  m = Len(r.ips)
  <2>1. CASE m + 1 \in 1..Len(r.ips)
    <3>1. Len(SubSeq(r.ips, m + 1, Len(r.ips))) = Len(r.ips) - (m + 1) + 1
      BY <1>1, <2>1, SubSeqProperties
    <3>2. Len(SubSeq(r.ips, m + 1, Len(r.ips))) = 0
      <4>1. \A s : s = <<>> => Len(s) = 0
        OBVIOUS
      <4>2. QED BY <1>2, <4>1, Zenon
    <3>3. QED BY <1>1, <2>1, <3>1, <3>2
  <2>2. QED BY <1>1, <2>1
<1>3. r.todo = <<>> => n = Len(r.ips)
  BY <1>1, <1>2 DEF HasDone
<1>4. ASSUME r.todo # <<>>
      PROVE  /\ n + 1 \in 1..Len(r.ips)
             /\ Head(r.todo) = r.ips[n + 1]
             /\ Tail(r.todo) = SubSeq(r.ips, (n + 1) + 1, Len(r.ips))
  <2>1. n # Len(r.ips)
    BY <1>1, <1>4, SubSeqEmpty DEF HasDone
  <2>2. n + 1 \in 1..Len(r.ips)
    BY <1>1, <2>1
  <2>3. QED BY <1>1, <2>2, HeadTailOfSubSeq DEF HasDone
<1>5. r.todo # <<>> /\ Tail(r.todo) = <<>> => n + 1 = Len(r.ips)
  <2>1. \A m \in 0..Len(r.ips) : SubSeq(r.ips, m + 1, Len(r.ips)) = <<>> => m = Len(r.ips)
    BY <1>2
  <2>2. QED BY <1>1, <1>4, <2>1
<1>6. ASSUME r.todo # <<>>, NEW s, s.ips = r.ips, s.todo = Tail(r.todo)
      PROVE  HasDone(s, n + 1)
  BY <1>1, <1>4, <1>6 DEF HasDone
<1>7. \A i \in 1..(n + 1) : i \in 1..n \/ i = n + 1
  BY <1>1
<1>8. QED BY <1>3, <1>4, <1>5, <1>6, <1>7

\* A request that has been answered relies on nothing.
LEMMA AnswerReady ==
  ASSUME IInv, NEW c \in Clients, NEW status, Answer(c, status), GroupsMatch(db')
  PROVE  LeavesReady(c) /\ req'[c] = Answered(status)
BY DEF LeavesReady, Ready, Answer, Answered, Continue, IInv

\* What a handler continues with.
LEMMA ContinueIs ==
  ASSUME IInv, NEW c \in Clients, NEW r, Continue(c, r)
  PROVE  req'[c] = r
BY DEF Continue, IInv

\* Statements that leave the servers alone.
LEMMA SameServersMatch ==
  ASSUME NEW d, NEW e, GroupsMatch(d),
         DOMAIN e["instance_servers"] \subseteq DOMAIN d["instance_servers"],
         \A s \in DOMAIN e["instance_servers"] :
           /\ e["instance_servers"][s].security_group_id
                = d["instance_servers"][s].security_group_id
           /\ e["instance_servers"][s].doc = d["instance_servers"][s].doc
  PROVE  GroupsMatch(e)
BY DEF GroupsMatch, GroupShown

\* INSERT and UPDATE of a server whose document and column agree, or of another row.
LEMMA WritesMatch ==
  ASSUME Good(db), GroupsMatch(db), NEW t \in Tables, NEW k, NEW row,
         t = "instance_servers" => row.security_group_id = GroupShown(row.doc)
  PROVE  GroupsMatch(InsertRow(db, t, k, row)) /\ GroupsMatch(UpdateRow(db, t, k, row))
BY DEF Good, TablesOK, GroupsMatch, InsertRow, UpdateRow, Tables

\* DELETE of anything but a security group.
LEMMA DeleteMatches ==
  ASSUME NEW d, Good(d), GroupsMatch(d), NEW t \in Tables \ {"instance_security_groups"}, NEW k
  PROVE  GroupsMatch(DeleteRow(InstanceKeys, d, t, k))
<1> DEFINE new == DeleteRow(InstanceKeys, d, t, k)
<1>1. /\ DOMAIN d = Tables
      /\ \A s \in DOMAIN d["instance_servers"] : d["instance_servers"][s] \in ServerRows
  BY DEF Good, TablesOK, RowsOf, Tables
<1>2. ASSUME NEW s \in DOMAIN new["instance_servers"]
      PROVE  /\ s \in DOMAIN d["instance_servers"]
             /\ new["instance_servers"][s] = d["instance_servers"][s]
  <2> DEFINE row == d["instance_servers"][s]
  <2>1. /\ s \in DOMAIN d["instance_servers"]
        /\ new["instance_servers"][s]
             = ClearedRow(InstanceKeys, t, k, "instance_servers", row)
    BY <1>1, <1>2 DEF DeleteRow, Tables
  <2>2. \A fk \in InstanceKeys : fk.child = "instance_servers" => fk.parent # t
    BY DEF InstanceKeys, ForeignKey
  <2>3. ClearedRow(InstanceKeys, t, k, "instance_servers", row) = [col \in DOMAIN row |-> row[col]]
    BY <2>2 DEF ClearedRow
  <2>4. row = [col \in DOMAIN row |-> row[col]]
    BY <1>1, <2>1 DEF ServerRows
  <2>5. QED BY <2>1, <2>3, <2>4
<1>3. DOMAIN new["instance_servers"] \subseteq DOMAIN d["instance_servers"]
  BY <1>2
<1> HIDE DEF new
<1>4. QED BY <1>2, <1>3, SameServersMatch DEF new

\* A statement that changes no table, or IPs and NICs at most, and ends the request.
LEMMA AnswerAlone ==
  ASSUME IInv, GroupsMatch(db), NEW c \in Clients, NEW status, Answer(c, status),
         UNCHANGED db
  PROVE  LeavesReady(c)
BY AnswerReady DEF GroupsMatch

\* createSimple.
LEMMA CreateSimpleAlone ==
  ASSUME IInv, GroupsMatch(db), NEW c \in Clients, NEW t \in Tables \ {"instance_servers"},
         NEW k, NEW row, CreateSimple(InstanceKeys, c, t, k, row)
  PROVE  LeavesReady(c)
<1>1. CASE db' = InsertRow(db, t, k, row) /\ Answer(c, "ok")
  BY <1>1, WritesMatch, AnswerReady DEF IInv
<1>2. QED BY <1>1, AnswerAlone DEF CreateSimple, InsertJSON

\* deleteBy.
LEMMA DeleteByAlone ==
  ASSUME IInv, GroupsMatch(db), NEW c \in Clients,
         NEW t \in Tables \ {"instance_security_groups"}, NEW k, DeleteBy(InstanceKeys, c, t, k)
  PROVE  LeavesReady(c)
<1>1. CASE db' = DeleteRow(InstanceKeys, db, t, k) /\ Answer(c, "ok")
  BY <1>1, DeleteMatches, AnswerReady DEF IInv
<1>2. QED BY <1>1, AnswerAlone DEF DeleteBy

\* The transaction that deletes a server touches no other server.
LEMMA DeleteServerAlone ==
  ASSUME IInv, GroupsMatch(db), NEW c \in Clients, NEW s \in Servers, DeleteServerTx(c, s)
  PROVE  LeavesReady(c)
<1> DEFINE d == DropNICs(DetachIPs(db, s), s)
<1>1. Good(d)
  BY DetachIPsKeepsGood, DropNICsKeepsGood DEF IInv
<1>2. d["instance_servers"] = db["instance_servers"]
  BY DEF DropNICs, DetachIPs, IInv, Good, TablesOK, Tables
<1>3. GroupsMatch(d)
  BY <1>2 DEF GroupsMatch
<1> HIDE DEF d
<1>4. GroupsMatch(DeleteRow(InstanceKeys, d, "instance_servers", s))
  BY <1>1, <1>3, DeleteMatches DEF Tables
<1>5. CASE db' = DeleteRow(InstanceKeys, d, "instance_servers", s) /\ Answer(c, "ok")
  BY <1>4, <1>5, AnswerReady
<1>6. QED BY <1>5, AnswerAlone DEF DeleteServerTx, d

\* The transaction that deletes a group clears document and column of its servers.
LEMMA DeleteGroupAlone ==
  ASSUME IInv, GroupsMatch(db), NEW c \in Clients, DeleteSecurityGroup(c)
  PROVE  LeavesReady(c)
<1>1. PICK g \in SecurityGroups :
        \/ /\ db' = DeleteRow(InstanceKeys, DetachSecurityGroup(db, g),
                              "instance_security_groups", g)
           /\ Answer(c, "ok")
        \/ Answer(c, "not_found") /\ UNCHANGED db
  BY DEF DeleteSecurityGroup
<1>2. CASE /\ db' = DeleteRow(InstanceKeys, DetachSecurityGroup(db, g),
                              "instance_security_groups", g)
           /\ Answer(c, "ok")
  <2> DEFINE d    == DetachSecurityGroup(db, g)
             old  == db["instance_servers"]
             rows == d["instance_servers"]
  <2>1. /\ Good(db) /\ DOMAIN db = Tables
        /\ \A s \in DOMAIN old : old[s] \in ServerRows
    BY DEF IInv, Good, TablesOK, RowsOf, Tables
  <2>2. /\ Good(d) /\ DOMAIN d = Tables
        /\ DOMAIN rows = DOMAIN old
        /\ \A s \in DOMAIN old :
             rows[s] = IF old[s].security_group_id = g
                       THEN ServerRow(Null, [old[s].doc EXCEPT !.sg = Null]) ELSE old[s]
    BY <2>1, DetachGroupKeepsGood DEF DetachSecurityGroup, Tables
  <2>3. ASSUME NEW s \in DOMAIN rows
        PROVE  /\ rows[s].security_group_id = GroupShown(rows[s].doc)
               /\ rows[s].security_group_id # g
               /\ rows[s] = [security_group_id |-> rows[s].security_group_id, doc |-> rows[s].doc]
    <3>1. old[s] \in ServerRows /\ old[s].security_group_id = GroupShown(old[s].doc)
      BY <2>1, <2>2, <2>3 DEF GroupsMatch
    <3>2. CASE old[s].security_group_id = g
      <4>1. rows[s] = ServerRow(Null, [old[s].doc EXCEPT !.sg = Null])
        BY <2>2, <2>3, <3>2
      <4>2. [old[s].doc EXCEPT !.sg = Null].sg = Null
        BY <3>1 DEF ServerRows, ServerDoc
      <4> DEFINE doc == [old[s].doc EXCEPT !.sg = Null]
      <4> HIDE DEF doc
      <4>3. rows[s] = [security_group_id |-> Null, doc |-> doc]
        BY <4>1 DEF ServerRow, doc
      <4>4. GroupShown(doc) = Null /\ Null # g
        BY <4>2, NullIsNoId DEF GroupShown, doc
      <4>5. QED BY <4>3, <4>4
    <3>3. CASE old[s].security_group_id # g
      BY <2>2, <2>3, <3>1, <3>3 DEF ServerRows
    <3>4. QED BY <3>2, <3>3
  <2>4. GroupsMatch(d)
    BY <2>3 DEF GroupsMatch
  <2> HIDE DEF d
  <2> DEFINE new == DeleteRow(InstanceKeys, d, "instance_security_groups", g)
  <2>5. ASSUME NEW s \in DOMAIN new["instance_servers"]
        PROVE  s \in DOMAIN rows /\ new["instance_servers"][s] = rows[s]
    <3>1. /\ s \in DOMAIN rows
          /\ new["instance_servers"][s]
               = ClearedRow(InstanceKeys, "instance_security_groups", g, "instance_servers",
                            rows[s])
      BY <2>2, <2>5 DEF DeleteRow, Tables
    <3>2. \A fk \in InstanceKeys : fk.child = "instance_servers" => fk.col = "security_group_id"
      BY DEF InstanceKeys, ForeignKey
    <3>3. new["instance_servers"][s] = [col \in DOMAIN rows[s] |-> rows[s][col]]
      BY <2>3, <3>1, <3>2 DEF ClearedRow
    <3>4. QED BY <2>3, <3>1, <3>3
  <2>6. DOMAIN new["instance_servers"] \subseteq DOMAIN rows
    BY <2>5
  <2> HIDE DEF new
  <2>7. GroupsMatch(new)
    BY <2>4, <2>5, <2>6, SameServersMatch
  <2>8. QED BY <1>2, <2>7, AnswerReady DEF new, d
<1>3. QED BY <1>1, <1>2, AnswerAlone

\* Every way a request can arrive.
LEMMA ArriveAlone ==
  ASSUME IInv, GroupsMatch(db), NEW c \in Clients, Arrive(c)
  PROVE  LeavesReady(c)
<1> USE DEF IInv
<1>0. GroupsMatch(db) /\ (UNCHANGED db => GroupsMatch(db'))
  BY DEF GroupsMatch
<1>1. CASE CreateSecurityGroup(c) \/ CreatePrivateNetwork(c) \/ CreateIP(c) \/ CreatePrivateNIC(c)
  BY <1>1, CreateSimpleAlone
     DEF CreateSecurityGroup, CreatePrivateNetwork, CreateIP, CreatePrivateNIC, Tables
<1>2. CASE DeletePrivateNetwork(c) \/ DeleteIP(c) \/ DeleteServer(c)
  BY <1>2, DeleteByAlone, DeleteServerAlone
     DEF DeletePrivateNetwork, DeleteIP, DeleteServer, Tables
<1>3. CASE DeleteSecurityGroup(c)
  BY <1>3, DeleteGroupAlone
<1>4. CASE ReadIP(c) \/ ServerAction(c) \/ ReadPrivateNIC(c)
  <2>1. CASE \E status : Answer(c, status)
    BY <1>0, <1>4, <2>1, AnswerAlone DEF ReadIP, ServerAction, ReadPrivateNIC
  <2>2. ASSUME NEW r, Continue(c, r), r.at \in {"UpdateIP", "ServerAction", "DeletePrivateNIC"}
        PROVE  LeavesReady(c)
    <3>1. UNCHANGED db
      BY <1>4 DEF ReadIP, ServerAction, ReadPrivateNIC
    <3>2. QED BY <1>0, <2>2, <3>1, ContinueIs DEF LeavesReady, Ready
  <2>3. CASE \E x, y : Continue(c, [at |-> "UpdateIP", ip |-> x, server |-> y])
    BY <2>2, <2>3
  <2>4. CASE \E x, y : Continue(c, [at |-> "ServerAction", server |-> x, action |-> y])
    BY <2>2, <2>4
  <2>5. CASE \E x : Continue(c, [at |-> "DeletePrivateNIC", nic |-> x])
    BY <2>2, <2>5
  <2>6. QED BY <1>4, <2>1, <2>3, <2>4, <2>5 DEF ReadIP, ServerAction, ReadPrivateNIC
<1>5. CASE BeginCreateServer(c)
  <2>1. PICK ips \in PublicIpLists :
          \E s, g : Continue(c, [at |-> "CreateServer", server |-> s, sg |-> g,
                                 ips |-> ips, todo |-> ips])
    BY <1>5 DEF BeginCreateServer
  <2>2. /\ req'[c].at = "CreateServer" /\ req'[c].ips = ips /\ req'[c].todo = ips
        /\ UNCHANGED db
    BY <1>5, <2>1, ContinueIs DEF BeginCreateServer
  <2>3. ips \in Seq(Ips)
    BY DEF PublicIpLists
  <2>4. SubSeq(ips, 0 + 1, Len(ips)) = ips
    BY <2>3, SubSeqFull
  <2>5. HasDone(req'[c], 0) /\ \A i \in 1..0 : FALSE
    BY <2>2, <2>3, <2>4 DEF HasDone
  <2>6. \E n : HasDone(req'[c], n)
               /\ \A i \in 1..n : Attached(db', req'[c].ips[i], {Null})
    BY <2>5
  <2>7. QED BY <1>0, <2>2, <2>6 DEF LeavesReady, Ready
<1>6. CASE DeleteInstanceVolume(c)
  <2>1. CASE Answer(c, "not_found")
    BY <1>0, <1>6, <2>1, AnswerAlone DEF DeleteInstanceVolume
  <2>2. CASE \E s \in DOMAIN db["instance_servers"] :
               Continue(c, [at |-> "SetServerState", server |-> s,
                            doc |-> db["instance_servers"][s].doc])
    BY <1>0, <1>6, <2>2, ContinueIs DEF DeleteInstanceVolume, LeavesReady, Ready, ShowsGroup
  <2>3. QED BY <1>6, <2>1, <2>2 DEF DeleteInstanceVolume
<1>7. CASE ReadServer(c)
  <2>1. CASE Answer(c, "not_found")
    BY <1>0, <1>7, <2>1, AnswerAlone DEF ReadServer
  <2>2. CASE \E s, doc : Continue(c, [at |-> "UpdateServer", server |-> s, patched |-> TRUE,
                                      doc |-> doc])
    BY <1>0, <1>7, <2>2, ContinueIs DEF ReadServer, LeavesReady, Ready
  <2>3. CASE \E s \in DOMAIN db["instance_servers"] :
               Continue(c, [at |-> "UpdateServer", server |-> s, patched |-> FALSE,
                            doc |-> db["instance_servers"][s].doc])
    BY <1>0, <1>7, <2>3, ContinueIs DEF ReadServer, LeavesReady, Ready, ShowsGroup
  <2>4. PICK s \in Servers :
          \/ Answer(c, "not_found")
          \/ /\ Found("instance_servers", s)
             /\ LET doc == db["instance_servers"][s].doc IN
                \/ \E g \in SecurityGroups \cup {Null, doc.sg} :
                     Continue(c, [at |-> "UpdateServer", server |-> s, patched |-> TRUE,
                                  doc |-> [doc EXCEPT !.sg = g]])
                \/ Continue(c, [at |-> "UpdateServer", server |-> s, patched |-> FALSE,
                                doc |-> doc])
    BY <1>7 DEF ReadServer
  <2>5. QED BY <2>1, <2>2, <2>3, <2>4 DEF Found
<1>8. QED BY <1>1, <1>2, <1>3, <1>4, <1>5, <1>6, <1>7 DEF Arrive

\* The end of the loop that attaches the IPs of a new server.
Finishes(c) ==
  (req[c].at = "AttachIPs" /\ req'[c].at = "answered") =>
    /\ req'[c].status = "ok"
    /\ \A i \in DOMAIN req[c].ips :
         /\ req[c].ips[i] \in DOMAIN db'["instance_ips"]
         /\ db'["instance_ips"][req[c].ips[i]].server_id = req[c].server

\* The statements of CreateServer: each IP of the request is free when it is looked up,
\* and is attached to the new server when the loop has come to it.
LEMMA CreateServerAlone ==
  ASSUME IInv, GroupsMatch(db), NEW c \in Clients, Ready(db, req[c]),
         CheckPublicIP(c) \/ InsertServer(c) \/ AttachRead(c) \/ AttachWrite(c)
  PROVE  LeavesReady(c) /\ Finishes(c)
<1> DEFINE r == req[c]
<1>1. /\ Good(db) /\ r \in Requests /\ DOMAIN db = Tables
      /\ UNCHANGED db => GroupsMatch(db')
  BY DEF IInv, Good, TablesOK, GroupsMatch
<1>2. r.at \in {"CreateServer", "AttachIPs"} => r.ips \in Seq(Ips) /\ r.server \in Servers
  BY <1>1 DEF Requests
<1>3. CASE CheckPublicIP(c)
  <2>1. r.at = "CreateServer" /\ r.todo # <<>> /\ UNCHANGED db
    BY <1>3 DEF CheckPublicIP
  <2>2. PICK n : HasDone(r, n) /\ \A i \in 1..n : Attached(db, r.ips[i], {Null})
    BY <2>1 DEF Ready
  <2>3. CASE \E status : Answer(c, status)
    BY <1>1, <2>1, <2>3, AnswerAlone DEF Finishes
  <2>4. CASE /\ Found("instance_ips", Head(r.todo))
             /\ db["instance_ips"][Head(r.todo)].doc = Null
             /\ Continue(c, [r EXCEPT !.todo = Tail(@)])
    <3>1. /\ n + 1 \in 1..Len(r.ips) /\ Head(r.todo) = r.ips[n + 1]
          /\ \A i \in 1..(n + 1) : i \in 1..n \/ i = n + 1
          /\ \A s : s.ips = r.ips /\ s.todo = Tail(r.todo) => HasDone(s, n + 1)
      BY <1>2, <2>1, <2>2, NextInList
    <3>2. Attached(db, r.ips[n + 1], {Null})
      BY <1>1, <2>4, <3>1 DEF Attached, Found, Good, IpDocsMatch
    <3>3. \A i \in 1..(n + 1) : Attached(db, r.ips[i], {Null})
      BY <2>2, <3>1, <3>2
    <3>4. /\ req'[c].at = "CreateServer" /\ req'[c].ips = r.ips
          /\ req'[c].todo = Tail(r.todo)
      <4>1. req'[c] = [r EXCEPT !.todo = Tail(@)]
        BY <2>4, ContinueIs
      <4>2. r.todo \in Seq(Ips) /\ r = [r EXCEPT !.todo = @] /\ "todo" \in DOMAIN r
        BY <1>1, <2>1 DEF Requests
      <4>3. QED BY <2>1, <4>1, <4>2
    <3>5. HasDone(req'[c], n + 1) /\ \A i \in 1..(n + 1) : Attached(db', req'[c].ips[i], {Null})
      BY <2>1, <3>1, <3>3, <3>4
    <3>6. QED BY <1>1, <2>1, <3>4, <3>5 DEF LeavesReady, Ready, Finishes
  <2>5. QED BY <1>3, <2>3, <2>4 DEF CheckPublicIP
<1>4. CASE InsertServer(c)
  <2> DEFINE row == NewServerRow(r.sg)
  <2>1. r.at = "CreateServer" /\ r.todo = <<>> /\ r.sg \in SecurityGroups \cup {Null}
    BY <1>1, <1>4 DEF InsertServer, Requests
  <2>2. PICK n : HasDone(r, n) /\ \A i \in 1..n : Attached(db, r.ips[i], {Null})
    BY <2>1 DEF Ready
  <2>3. n = Len(r.ips)
    BY <1>2, <2>1, <2>2, NextInList
  <2>4. CASE ~RowOK(InstanceKeys, db, "instance_servers", row)
    BY <1>1, <1>4, <2>1, <2>4, AnswerAlone DEF InsertServer, Finishes
  <2>5. CASE RowOK(InstanceKeys, db, "instance_servers", row)
    <3>1. db' = InsertRow(db, "instance_servers", r.server, row)
      BY <1>4, <2>5 DEF InsertServer
    <3>2. row.security_group_id = GroupShown(row.doc)
      BY <2>1, NullIsNoId, PlaceholderIsNoGroup DEF NewServerRow, ServerRow, GroupShown
    <3>3. GroupsMatch(db')
      BY <1>1, <3>1, <3>2, WritesMatch DEF Tables
    <3>4. /\ r.server \in DOMAIN db'["instance_servers"]
          /\ db'["instance_ips"] = db["instance_ips"]
      BY <1>1, <3>1 DEF InsertRow, Tables
    <3>5. CASE Answer(c, "ok")
      BY <2>1, <3>3, <3>5, AnswerReady DEF Finishes
    <3>6. CASE Continue(c, [at |-> "AttachIPs", server |-> r.server,
                            ips |-> r.ips, todo |-> r.ips, read |-> FALSE])
      <4>1. /\ req'[c].at = "AttachIPs" /\ req'[c].server = r.server
            /\ req'[c].ips = r.ips /\ req'[c].todo = r.ips
        BY <3>6, ContinueIs
      <4>2. SubSeq(r.ips, 0 + 1, Len(r.ips)) = r.ips
        BY <1>2, <2>1, SubSeqFull
      <4>3. HasDone(req'[c], 0) /\ \A i \in 1..0 : FALSE
        BY <1>2, <2>1, <4>1, <4>2 DEF HasDone
      <4>4. \E m : /\ HasDone(req'[c], m)
                   /\ \A i \in 1..m : Attached(db', req'[c].ips[i], {req'[c].server})
        BY <4>3
      <4>5. \A i \in 1..Len(r.ips) : Attached(db', r.ips[i], {Null, r.server})
        BY <2>2, <2>3, <3>4 DEF Attached
      <4>6. QED BY <3>3, <3>4, <4>1, <4>4, <4>5 DEF LeavesReady, Ready, Finishes
    <3>7. QED BY <1>4, <2>5, <3>5, <3>6 DEF InsertServer
  <2>6. QED BY <2>4, <2>5
<1>5. ASSUME AttachRead(c) \/ AttachWrite(c)
      PROVE  /\ r.at = "AttachIPs" /\ r.todo # <<>>
             /\ r.server \in DOMAIN db["instance_servers"]
             /\ \A i \in 1..Len(r.ips) : Attached(db, r.ips[i], {Null, r.server})
             /\ Found("instance_ips", Head(r.todo))
             /\ \E n : /\ HasDone(r, n) /\ n + 1 \in 1..Len(r.ips)
                       /\ Head(r.todo) = r.ips[n + 1]
                       /\ \A i \in 1..(n + 1) : i \in 1..n \/ i = n + 1
                       /\ \A s : s.ips = r.ips /\ s.todo = Tail(r.todo) => HasDone(s, n + 1)
                       /\ Tail(r.todo) = <<>> => n + 1 = Len(r.ips)
                       /\ \A i \in 1..n : Attached(db, r.ips[i], {r.server})
  <2>1. r.at = "AttachIPs" /\ r.todo # <<>>
    BY <1>1, <1>5 DEF AttachRead, AttachWrite, Requests
  <2>2. PICK n : HasDone(r, n) /\ \A i \in 1..n : Attached(db, r.ips[i], {r.server})
    BY <2>1 DEF Ready
  <2>3. /\ n + 1 \in 1..Len(r.ips) /\ Head(r.todo) = r.ips[n + 1]
        /\ \A i \in 1..(n + 1) : i \in 1..n \/ i = n + 1
        /\ \A s : s.ips = r.ips /\ s.todo = Tail(r.todo) => HasDone(s, n + 1)
        /\ Tail(r.todo) = <<>> => n + 1 = Len(r.ips)
    BY <1>2, <2>1, <2>2, NextInList
  <2>4. QED BY <2>1, <2>2, <2>3 DEF Ready, Attached, Found
<1>6. CASE AttachRead(c)
  <2>1. Continue(c, [r EXCEPT !.read = TRUE]) /\ UNCHANGED db
    BY <1>5, <1>6 DEF AttachRead
  <2>2. /\ req'[c].at = "AttachIPs" /\ req'[c].server = r.server
        /\ req'[c].ips = r.ips /\ req'[c].todo = r.todo
    <3>1. req'[c] = [r EXCEPT !.read = TRUE]
      BY <2>1, ContinueIs
    <3>2. QED BY <1>1, <1>5, <1>6, <3>1 DEF Requests
  <2>3. QED BY <1>1, <1>5, <1>6, <2>1, <2>2 DEF LeavesReady, Ready, Finishes, HasDone, Attached
<1>7. CASE AttachWrite(c)
  <2> DEFINE ip == Head(r.todo)
  <2>1. PICK n : /\ HasDone(r, n) /\ n + 1 \in 1..Len(r.ips)
                 /\ ip = r.ips[n + 1]
                 /\ \A i \in 1..(n + 1) : i \in 1..n \/ i = n + 1
                 /\ \A s : s.ips = r.ips /\ s.todo = Tail(r.todo) => HasDone(s, n + 1)
                 /\ Tail(r.todo) = <<>> => n + 1 = Len(r.ips)
                 /\ \A i \in 1..n : Attached(db, r.ips[i], {r.server})
    BY <1>5, <1>7
  <2>2. IpWriteOK(ip, r.server)
    BY <1>5, <1>7 DEF IpWriteOK, RowOK, InstanceKeys, ForeignKey, IpRow
  <2>3. db' = UpdateRow(db, "instance_ips", ip, IpRow(r.server))
    BY <1>7, <2>2 DEF AttachWrite
  <2>4. /\ db'["instance_servers"] = db["instance_servers"]
        /\ DOMAIN db'["instance_ips"] = DOMAIN db["instance_ips"]
        /\ \A x \in DOMAIN db["instance_ips"] :
             db'["instance_ips"][x] = IF x = ip THEN IpRow(r.server) ELSE db["instance_ips"][x]
    BY <1>1, <1>5, <1>7, <2>3 DEF UpdateRow, Tables, Found
  <2>5. GroupsMatch(db')
    BY <2>4 DEF GroupsMatch
  <2>6. \A S : r.server \in S =>
          \A x : Attached(db, x, S) => Attached(db', x, S)
    BY <2>4 DEF Attached, IpRow
  <2>7. Attached(db', ip, {r.server})
    BY <1>5, <1>7, <2>4 DEF Attached, IpRow, Found
  <2>8. \A i \in 1..(n + 1) : Attached(db', r.ips[i], {r.server})
    BY <2>1, <2>6, <2>7
  <2>9. CASE Tail(r.todo) = <<>>
    <3>1. Answer(c, "ok")
      BY <1>7, <2>2, <2>9 DEF AttachWrite
    <3>2. \A i \in DOMAIN r.ips : Attached(db', r.ips[i], {r.server})
      <4>1. DOMAIN r.ips = 1..(n + 1)
        BY <1>2, <1>5, <1>7, <2>1, <2>9
      <4>2. QED BY <2>8, <4>1
    <3>3. LeavesReady(c) /\ req'[c] = Answered("ok")
      BY <2>5, <3>1, AnswerReady
    <3>4. req'[c].status = "ok"
      BY <3>3 DEF Answered
    <3>5. QED BY <3>2, <3>3, <3>4 DEF Finishes, Attached
  <2>10. CASE Tail(r.todo) # <<>>
    <3>1. Continue(c, [r EXCEPT !.todo = Tail(@), !.read = FALSE])
      BY <1>7, <2>2, <2>10 DEF AttachWrite
    <3>2. /\ req'[c].at = "AttachIPs" /\ req'[c].server = r.server
          /\ req'[c].ips = r.ips /\ req'[c].todo = Tail(r.todo)
      <4>1. req'[c] = [r EXCEPT !.todo = Tail(@), !.read = FALSE]
        BY <3>1, ContinueIs
      <4>2. QED BY <1>1, <1>5, <1>7, <4>1 DEF Requests
    <3>3. HasDone(req'[c], n + 1)
      BY <2>1, <3>2
    <3>4. \A i \in 1..Len(r.ips) : Attached(db', r.ips[i], {Null, r.server})
      BY <1>5, <1>7, <2>6
    <3>5. QED BY <1>5, <1>7, <2>4, <2>5, <2>8, <3>2, <3>3, <3>4
             DEF LeavesReady, Ready, Finishes
  <2>11. QED BY <2>9, <2>10
<1>8. QED BY <1>3, <1>4, <1>6, <1>7

\* A handler that is alone leaves everything as it must be.
LEMMA ProceedAlone ==
  ASSUME IInv, GroupsMatch(db), NEW c \in Clients, Ready(db, req[c]), Proceed(c)
  PROVE  LeavesReady(c) /\ Finishes(c)
<1> DEFINE r == req[c]
<1>1. /\ Good(db) /\ r \in Requests /\ DOMAIN db = Tables
      /\ UNCHANGED db => GroupsMatch(db')
  BY DEF IInv, Good, TablesOK, GroupsMatch
<1>2. r.at # "AttachIPs" => Finishes(c)
  BY DEF Finishes
<1>3. CASE CheckPublicIP(c) \/ InsertServer(c) \/ AttachRead(c) \/ AttachWrite(c)
  BY <1>3, CreateServerAlone
<1>4. CASE WriteIP(c)
  <2>1. \A row : GroupsMatch(UpdateRow(db, "instance_ips", r.ip, row))
    BY <1>1, WritesMatch DEF Tables
  <2>2. QED BY <1>2, <1>4, <2>1, AnswerAlone, AnswerReady DEF WriteIP
<1>5. CASE Terminate(c)
  <2>1. r.server \in Servers
    BY <1>1, <1>5 DEF Terminate, Requests
  <2>2. QED BY <1>2, <1>5, <2>1, DeleteServerAlone DEF Terminate
<1>6. CASE ReadServerState(c)
  <2>1. CASE \E status : Answer(c, status)
    BY <1>2, <1>6, <2>1, AnswerAlone DEF ReadServerState
  <2>2. CASE /\ Found("instance_servers", r.server)
             /\ Continue(c, [at |-> "SetServerState", server |-> r.server,
                             doc |-> [db["instance_servers"][r.server].doc
                                        EXCEPT !.state = r.action]])
    <3> DEFINE doc == [db["instance_servers"][r.server].doc EXCEPT !.state = r.action]
    <3>1. doc.sg = db["instance_servers"][r.server].doc.sg
      BY <1>1, <2>2, DocsTyped DEF Found, ServerDoc
    <3> HIDE DEF doc
    <3>2. req'[c] = [at |-> "SetServerState", server |-> r.server, doc |-> doc]
      BY <2>2, ContinueIs DEF doc
    <3>3. UNCHANGED db /\ r.at = "ServerAction"
      BY <1>6 DEF ReadServerState
    <3>4. QED BY <1>1, <1>2, <2>2, <3>1, <3>2, <3>3
             DEF LeavesReady, Ready, ShowsGroup, Found
  <2>3. QED BY <1>6, <2>1, <2>2 DEF ReadServerState
<1>7. CASE WriteServerState(c)
  <2> DEFINE row == ServerRow(db["instance_servers"][r.server].security_group_id, r.doc)
  <2>1. r.at = "SetServerState" /\ ShowsGroup(db, r)
    BY <1>7 DEF WriteServerState, Ready
  <2>2. row.security_group_id = GroupShown(row.doc)
    BY <2>1 DEF ServerRow, ShowsGroup, GroupsMatch, GroupShown
  <2>3. GroupsMatch(UpdateRow(db, "instance_servers", r.server, row))
    BY <1>1, <2>2, WritesMatch DEF Tables
  <2>4. QED BY <1>2, <1>7, <2>1, <2>3, AnswerAlone, AnswerReady DEF WriteServerState
<1>8. CASE CheckGroup(c)
  <2> DEFINE found == Found("instance_security_groups", r.doc.sg)
  <2>1. r.at = "UpdateServer" /\ r.doc.sg # Null /\ UNCHANGED db /\ r.doc \in ServerDoc
    BY <1>1, <1>8 DEF CheckGroup, Requests
  <2>2. found => r.doc.sg \in SecurityGroups
    BY <1>1 DEF Found, Good, TablesOK, IdsOf, Tables
  <2>3. ASSUME ~r.patched, ~found PROVE GroupShown(r.doc) = Null
    <3>1. ShowsGroup(db, r)
      BY <2>1, <2>3 DEF Ready
    <3>2. db["instance_servers"][r.server].security_group_id = GroupShown(r.doc)
      BY <3>1 DEF ShowsGroup, GroupsMatch, GroupShown
    <3>3. db["instance_servers"][r.server].security_group_id
            \in DOMAIN db["instance_security_groups"] \cup {Null}
      BY <1>1, <3>1, InstanceIntegrity DEF Good, ShowsGroup
    <3>4. QED BY <2>3, <3>2, <3>3 DEF GroupShown, Found
  <2>4. CASE Answer(c, "not_found")
    BY <1>2, <2>1, <2>4, AnswerAlone
  <2>5. CASE /\ found \/ ~r.patched
             /\ Continue(c, [at |-> "WriteServer", server |-> r.server, doc |-> r.doc,
                             group |-> IF found THEN r.doc.sg ELSE Null])
    <3>1. GroupShown(r.doc) = IF found THEN r.doc.sg ELSE Null
      BY <2>2, <2>3, <2>5 DEF GroupShown
    <3>2. req'[c] = [at |-> "WriteServer", server |-> r.server, doc |-> r.doc,
                     group |-> GroupShown(r.doc)]
      BY <2>5, <3>1, ContinueIs
    <3>3. QED BY <1>1, <1>2, <2>1, <3>2 DEF LeavesReady, Ready
  <2>6. QED BY <1>8, <2>4, <2>5 DEF CheckGroup
<1>9. CASE WriteServer(c)
  <2>1. PICK group : /\ WriteServerRow(c, r.server, ServerRow(group, r.doc))
                     /\ r.at \in {"UpdateServer", "WriteServer"}
                     /\ group = GroupShown(r.doc)
    BY <1>9, NullIsNoId DEF WriteServer, Ready, GroupShown
  <2> DEFINE row == ServerRow(group, r.doc)
  <2>2. row.security_group_id = GroupShown(row.doc)
    BY <2>1 DEF ServerRow
  <2> HIDE DEF row
  <2>3. GroupsMatch(UpdateRow(db, "instance_servers", r.server, row))
    BY <1>1, <2>2, WritesMatch DEF Tables
  <2>4. QED BY <1>2, <2>1, <2>3, AnswerAlone, AnswerReady DEF WriteServerRow, row
<1>10. CASE DeletePrivateNIC(c)
  BY <1>2, <1>10, DeleteByAlone DEF DeletePrivateNIC, Tables
<1>11. QED BY <1>3, <1>4, <1>5, <1>6, <1>7, <1>8, <1>9, <1>10 DEF Proceed

-----------------------------------------------------------------------------
(***************************************************************************)
(* The behaviours that TLC runs, without its bounds.                       *)
(***************************************************************************)
SomeNext == (\E c \in active : Arrive(c) \/ Proceed(c)) /\ active' = active

SomeSpec ==
  Init /\ active \in (SUBSET Clients) \ {{}} /\ [][SomeNext]_<<vars, active>>

\* What TLC explores is among them.
LEMMA BoundedRunsAreRuns == MCSpec => SomeSpec
<1>1. MCInit => Init /\ active \in (SUBSET Clients) \ {{}}
  BY DEF MCInit
<1>2. [MCNext]_<<vars, active>> => [SomeNext]_<<vars, active>>
  BY DEF MCNext, SomeNext
<1>3. QED BY <1>1, <1>2, PTL DEF MCSpec, SomeSpec

\* When one client sends requests, the others stay idle, and nothing that its handler
\* relies on changes in between.
SerialInv ==
  /\ IInv
  /\ active \subseteq Clients
  /\ Serial => /\ GroupsMatch(db)
               /\ \A c \in Clients : Ready(db, req[c]) /\ (Idle(c) \/ c \in active)

\* It holds at the beginning.
LEMMA InitIsSerial == Init /\ active \in (SUBSET Clients) \ {{}} => SerialInv
<1> SUFFICES ASSUME Init, active \in (SUBSET Clients) \ {{}} PROVE SerialInv
  OBVIOUS
<1>1. GroupsMatch(db)
  BY DEF Init, GroupsMatch, EmptyTable, Tables
<1>2. \A c \in Clients : Ready(db, req[c]) /\ Idle(c)
  BY DEF Init, Ready, Idle, Answered
<1>3. QED BY <1>1, <1>2, InitIInv DEF SerialInv

\* A step in such a behaviour is one of the only handler.
LEMMA SerialStep ==
  ASSUME SerialInv, SomeNext
  PROVE  /\ SerialInv'
         /\ Serial => \A c \in Clients : Finishes(c)
<1>1. PICK c \in active : Arrive(c) \/ Proceed(c)
  BY DEF SomeNext
<1>2. c \in Clients /\ active' = active /\ IInv
  BY <1>1 DEF SerialInv, SomeNext
<1>3. IInv'
  BY <1>1, <1>2, StepIInv DEF Next
<1>4. ASSUME Serial
      PROVE  /\ GroupsMatch(db')
             /\ \A x \in Clients : Ready(db', req'[x]) /\ (Idle(x)' \/ x \in active)
             /\ \A x \in Clients : Finishes(x)
  <2>1. \A x \in Clients \ {c} : Idle(x)
    BY <1>1, <1>4 DEF Serial, SerialInv
  <2>2. GroupsMatch(db) /\ Ready(db, req[c])
    BY <1>2, <1>4 DEF SerialInv
  <2>3. ASSUME Arrive(c) PROVE Finishes(c)
    <3>1. Idle(c)
      BY <2>3 DEF Arrive, CreateSecurityGroup, DeleteSecurityGroup, CreatePrivateNetwork,
         DeletePrivateNetwork, CreateIP, DeleteIP, ReadIP, BeginCreateServer, DeleteServer,
         ServerAction, ReadServer, DeleteInstanceVolume, CreatePrivateNIC, ReadPrivateNIC
    <3>2. QED BY <3>1 DEF Idle, Finishes
  <2>4. LeavesReady(c) /\ Finishes(c)
    BY <1>1, <1>2, <2>2, <2>3, ArriveAlone, ProceedAlone
  <2>5. \E r : Continue(c, r)
    BY <1>1, <1>2, ArriveKept, ProceedKept DEF Kept
  <2>6. \A x \in Clients \ {c} : req'[x] = req[x]
    BY <1>2, <2>5 DEF Continue, IInv
  <2>7. \A x \in Clients \ {c} : Ready(db', req'[x]) /\ Idle(x)' /\ Finishes(x)
    BY <2>1, <2>6 DEF Idle, Ready, Finishes
  <2>8. QED BY <1>1, <2>4, <2>7 DEF LeavesReady
<1>5. QED BY <1>2, <1>3, <1>4 DEF SerialInv, Serial

\* It holds in every state.
LEMMA SerialInvariant == SomeSpec => []SerialInv
<1>1. SerialInv /\ UNCHANGED <<vars, active>> => SerialInv'
  BY DEF SerialInv, Serial, vars, IInv, Good, TablesOK, IpDocsMatch, RefIntegrity, GroupsMatch,
         Idle
<1>2. SerialInv /\ [SomeNext]_<<vars, active>> => SerialInv'
  BY <1>1, SerialStep
<1>3. QED BY <1>2, InitIsSerial, PTL DEF SomeSpec

\* With one request at a time, a server's document shows the security group its column
\* refers to: SetServerState, UpdateServer and DeleteInstanceVolume write a document that
\* is the one in the table, and DeleteSecurityGroup clears both places.
THEOREM SerialGroupsMatch == SomeSpec => []SerialGroupDocumentsMatchColumn
<1>1. SerialInv => SerialGroupDocumentsMatchColumn
  BY DEF SerialInv, GroupsMatch, GroupShown, SerialGroupDocumentsMatchColumn,
         GroupDocumentsMatchColumn
<1>2. QED BY <1>1, SerialInvariant, PTL

\* With one request at a time, CreateServer takes no IP away from another server: the IPs
\* it looked up are still free, or its own, when it attaches them.  A creation whose server
\* is inserted is answered with success, and all IPs of the request are attached to the
\* server by then, in whatever order and however often the request lists them.
THEOREM SerialCreationsAreWhole == SomeSpec => SerialCreatesTakeTheirIPs
<1>1. SerialInv /\ [SomeNext]_<<vars, active>> => [Serial => AttachesOnlyFreeIPs]_vars
  <2>1. SUFFICES ASSUME SerialInv, Serial, NEW c \in Clients, AttachWrite(c)
                 PROVE  LET ip == Head(req[c].todo) IN
                        Found("instance_ips", ip) =>
                          db["instance_ips"][ip].doc \in {Null, req[c].server}
    BY DEF AttachesOnlyFreeIPs
  <2> DEFINE r == req[c]
  <2>2. r.at = "AttachIPs" /\ r \in Requests /\ Ready(db, r) /\ Good(db)
    BY <2>1 DEF AttachWrite, SerialInv, IInv
  <2>3. r.todo # <<>> /\ r.ips \in Seq(Ips)
    BY <2>2 DEF Requests
  <2>4. PICK n : HasDone(r, n)
    BY <2>2 DEF Ready
  <2>5. n + 1 \in 1..Len(r.ips) /\ Head(r.todo) = r.ips[n + 1]
    BY <2>3, <2>4, NextInList
  <2>6. Attached(db, Head(r.todo), {Null, r.server})
    BY <2>2, <2>5 DEF Ready
  <2>7. QED BY <2>2, <2>6 DEF Attached, Good, IpDocsMatch
<1>2. SerialInv /\ [SomeNext]_<<vars, active>> => [Serial => EndsWithAllIPsAttached]_vars
  BY SerialStep DEF Finishes, EndsWithAllIPsAttached, vars
<1>3. SerialInv /\ [SomeNext]_<<vars, active>>
        => [Serial => AttachesOnlyFreeIPs /\ EndsWithAllIPsAttached]_vars
  BY <1>1, <1>2
<1>4. QED BY <1>3, SerialInvariant, PTL DEF SomeSpec, SerialCreatesTakeTheirIPs

=============================================================================
