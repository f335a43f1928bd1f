-------------------------------- MODULE MCRdb --------------------------------
(***************************************************************************)
(* Instances of the Managed Database API for TLC.  In every behaviour some *)
(* of the clients send requests; concurrent ones use, besides instances,   *)
(* either endpoints and networks, or users, databases and privileges, or   *)
(* ACLs, or replicas, snapshots and backups.                               *)
(***************************************************************************)
EXTENDS RdbProperties, TLC

VARIABLES
  active,   \* the clients that send requests
  scope     \* the tables the behaviour uses

Serial == \A c, d \in active : c = d

Scopes == {{"rdb_instances", "private_networks"},
           {"rdb_instances", "rdb_users", "rdb_databases", "rdb_privileges"},
           {"rdb_instances", "rdb_acls"},
           {"rdb_instances"} \cup CopyTables}

\* The table a handler is about to write.
Target(r) == CASE r.at = "WriteUser" -> "rdb_users"
               [] r.at = "SetPrivileges" -> "rdb_privileges"
               [] r.at \in {"DeleteACLs", "ReadACLs", "WriteACLs"} -> "rdb_acls"
               [] r.at \in {"WriteDoc", "WriteCopy", "DeleteCopy"} -> r.table
               [] OTHER -> "rdb_instances"

\* Requests stay in the scope, there are several endpoints, and with them several
\* instances, only beside networks or snapshots, and every handler that will insert an
\* instance finds a uuid for it.
Bounds ==
  /\ \A t \in RdbTables \ scope : db[t] = EmptyTable
  /\ \A c \in Clients : Target(req[c]) \in scope
  /\ scope \cap {"private_networks", "rdb_snapshots"} # {}
       \/ \A e, f \in issued \cap Endpoints : e = f
  /\ Cardinality({c \in Clients : req[c].at = "CreateInstance"})
       <= Cardinality(Instances \ issued)

MCInit == Init /\ active \in (SUBSET Clients) \ {{}} /\ scope \in Scopes

MCNext == /\ \E c \in active : Arrive(c) \/ Proceed(c)
          /\ UNCHANGED <<active, scope>>
          /\ Bounds'

MCSpec == MCInit /\ [][MCNext]_<<vars, active, scope>>

Symmetry == Permutations(Clients) \cup Permutations(Instances) \cup Permutations(Endpoints)
              \cup Permutations(Copies) \cup Permutations(RuleIPs) \cup Permutations(Users)

-----------------------------------------------------------------------------
\* One request at a time, an endpoint enters the list of its instance by its own creation
\* only, on a private network that is there, and leaves it by its own deletion only.
SerialEndpointsComeAndGoOneByOne ==
  [][Serial => AddsEndpointsOnLiveNetworks /\ EndpointsComeAndGoOneByOne]_vars

=============================================================================
