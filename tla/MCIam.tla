-------------------------------- MODULE MCIam --------------------------------
(***************************************************************************)
(* Instances of the IAM API for TLC.  In every behaviour some of the       *)
(* clients send requests, about API keys, policies, groups or SSH keys.    *)
(***************************************************************************)
EXTENDS IamProperties, TLC, FiniteSetsExt

VARIABLES
  active,   \* the clients that send requests
  scope,    \* the tables the behaviour uses
  found     \* one request at a time: the tables as the last one not answered 2xx found them

Serial == \A c, d \in active : c = d

Scopes == {{"iam_applications", "iam_users", "iam_api_keys"},
           {"iam_applications", "iam_policies", "iam_rules"},
           {"iam_users", "iam_groups", "iam_group_members"},
           {"iam_ssh_keys"}}

\* How many ids of S the handlers in progress will still ask for.
Needed(S) == LET waiting(at) == {c \in Clients : req[c].at = at} IN
  IF S = ApiKeys
  THEN Cardinality(waiting("InsertKey"))
  ELSE MapThenSumSet(LAMBDA c : req[c].todo, waiting("InsertRule") \cup waiting("SetRules"))

AtMostOne(S) == \A x, y \in issued \cap S : x = y

\* Requests stay in the scope, concurrent clients share one application, policy
\* and user, and a handler finds the ids it needs.
Bounds ==
  /\ \A t \in IamTables \ scope : db[t] = EmptyTable
  /\ "iam_api_keys" \in scope \/ \A c \in Clients : req[c].at # "InsertKey"
  /\ Serial \/ \A S \in {Applications, Policies, Users} : AtMostOne(S)
  /\ \A S \in {ApiKeys, Rules} : Needed(S) <= Cardinality(S \ issued)

MCInit == Init /\ active \in (SUBSET Clients) \ {{}} /\ scope \in Scopes /\ found = db

MCNext == /\ \E c \in active :
               /\ Arrive(c) \/ Proceed(c)
               /\ found' = CASE ~Serial -> found
                             [] Serial /\ req'[c] = Answered("ok") -> db'
                             [] Serial /\ req'[c] # Answered("ok") ->
                                  IF Idle(c) THEN db ELSE found
          /\ UNCHANGED <<active, scope>>
          /\ Bounds'

MCSpec == MCInit /\ [][MCNext]_<<vars, active, scope, found>>

Symmetry == Permutations(Clients) \cup Permutations(Applications) \cup Permutations(Policies)
              \cup Permutations(Rules) \cup Permutations(Users)

-----------------------------------------------------------------------------
\* One request at a time, a request that is answered with an error has left no trace:
\* membership creation "must 404 rather than creating an empty or partially-populated
\* group", and likewise for rules, policies and keys.
SerialErrorsLeaveNoTrace ==
  Serial => \A c \in active : Idle(c) /\ req[c].status # "ok" => db = found

=============================================================================
