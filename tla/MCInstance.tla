---------------------------- MODULE MCInstance ----------------------------
(***************************************************************************)
(* Instances of the Instance API for TLC.  In every behaviour some of the  *)
(* clients send requests: when it is one, requests come one at a time and  *)
(* use everything the instance has; when there are more, they compete      *)
(* either for IPs and NICs or for security groups, and a create-server     *)
(* request lists at most one IP.                                           *)
(***************************************************************************)
EXTENDS InstanceProperties, TLC

VARIABLE active   \* the clients that send requests

Serial == \A c, d \in active : c = d

ConcurrentBounds ==
  /\ issued \cap SecurityGroups = {} \/ issued \subseteq Servers \cup SecurityGroups
  /\ Ips = {} \/ \E ip \in Ips : issued \cap Ips \subseteq {ip}
  /\ \A c \in Clients : req[c].at = "CreateServer" => Len(req[c].ips) <= 1

MCInit == Init /\ active \in (SUBSET Clients) \ {{}}

MCNext == /\ \E c \in active : Arrive(c) \/ Proceed(c)
          /\ Serial \/ ConcurrentBounds'
          /\ active' = active

MCSpec == MCInit /\ [][MCNext]_<<vars, active>>

(***************************************************************************)
(* Nobody patches an IP: once created, it changes hands only in the attach *)
(* loop of CreateServer and by deletions.                                  *)
(***************************************************************************)
NoIPPatched == \A c \in Clients : req'[c].at # "UpdateIP"

UnpatchedSpec == MCInit /\ [][MCNext /\ NoIPPatched]_<<vars, active>>

Symmetry == Permutations(Clients) \cup Permutations(Servers) \cup Permutations(Ips)
              \cup Permutations(SecurityGroups)

-----------------------------------------------------------------------------
\* One request at a time, CreateServer takes no IP away from another server, and a server
\* whose row was inserted gets every IP of its request: no error answer leaves a server
\* behind.
SerialCreatesTakeTheirIPs ==
  [][Serial => AttachesOnlyFreeIPs /\ EndsWithAllIPsAttached]_vars

\* One request at a time, a server's document and its column agree on the group,
\* whatever sequence of updates, power actions and deletions of groups came before.
SerialGroupDocumentsMatchColumn == Serial => GroupDocumentsMatchColumn

=============================================================================
