---------------------------- MODULE IamProperties ----------------------------
(***************************************************************************)
(* What the IAM API must keep true, with any number of concurrent clients; *)
(* MCIam adds what holds for requests that come one at a time.             *)
(***************************************************************************)
EXTENDS IamService

PlainTables == {"iam_applications", "iam_users", "iam_groups", "iam_ssh_keys"}

IdsOf(t) == CASE t = "iam_applications"  -> Applications
              [] t = "iam_api_keys"      -> ApiKeys
              [] t = "iam_policies"      -> Policies
              [] t = "iam_rules"         -> Rules
              [] t = "iam_users"         -> Users
              [] t = "iam_groups"        -> Groups
              [] t = "iam_group_members" -> Groups \X Users
              [] t = "iam_ssh_keys"      -> SSHKeys

KeyRows == [application_id : Applications \cup {Null}, application : Applications \cup {Null},
            user : Users \cup {Null}]
PolicyRows == [application_id : Applications \cup {Null},
               application : Applications \cup {Null}]

RowsOf(t) == CASE t \in PlainTables          -> {PlainRow}
               [] t = "iam_api_keys"      -> KeyRows
               [] t = "iam_policies"      -> PolicyRows
               [] t = "iam_rules"         -> [policy_id : Policies]
               [] t = "iam_group_members" -> [group_id : Groups, user_id : Users]

Requests ==
  [at : {"answered"}, status : Statuses]
  \cup [at : {"ReadGroup"}, group : Groups]
  \cup [at : {"InsertKey"}, user : Users]
  \cup [at : {"InsertRule"}, policy : Policies, todo : 1..MaxListed]
  \cup [at : {"SetRules"}, policy : Policies, todo : 0..MaxListed]
  \cup (UNION {[at : {"WriteDoc"}, table : {t}, key : IdsOf(t)] : t \in PlainTables})
  \cup (UNION {[at : {"WriteRow"}, table : {t}, key : IdsOf(t), row : RowsOf(t)] :
                 t \in {"iam_api_keys", "iam_policies"}})

\* Every table holds well-formed rows under keys of its own kind, a membership is
\* stored under its group and user, and every handler is at a statement it can be at:
\* it leaves the loop over a policy's rules at its end.
IamTypeOK ==
  /\ DOMAIN db = IamTables
  /\ \A t \in IamTables : /\ DOMAIN db[t] \subseteq IdsOf(t)
                          /\ \A k \in DOMAIN db[t] : db[t][k] \in RowsOf(t)
  /\ \A k \in DOMAIN db["iam_group_members"] :
       db["iam_group_members"][k] = MemberRow(k[1], k[2])
  /\ \A c \in Clients : req[c] \in Requests

-----------------------------------------------------------------------------
ReplacedLists == {fk \in IamKeys : fk.col \in {"policy_id", "group_id"}}

Store == INSTANCE ReferentialStore
  WITH Kinds <- IamTables, Nothing <- Null, Listed <- ReplacedLists,
       Owns <- With(IamKeys, Cascade), Detaches <- With(IamKeys, SetNull),
       Blocks <- With(IamKeys, NoAction), rows <- ReferencesIn(IamKeys, db)

\* An application with keys or policies stays, rules go with their policy, memberships
\* with their group and their user; the rules of a policy and the members of a group
\* are replaced as a whole and only theirs: whatever runs at the same time, each
\* request does one of these things to the references or nothing.
IamKeepsReferences == Store!Spec

\* "Keep application_id SQL column in sync": the application that the document of a
\* key or a policy names, which is what clients see, exists, although only the column
\* keeps it from being deleted.
IamDocumentsAreLive ==
  \A t \in {"iam_api_keys", "iam_policies"} : \A k \in DOMAIN db[t] :
    db[t][k].application \in DOMAIN db["iam_applications"] \cup {Null}

\* A policy whose creation is answered with an error is not there: the loop over its
\* rules fails only if somebody has deleted the policy in the meantime.
NoHalfCreatedPolicies ==
  [][\A c \in Clients :
       (req[c].at = "InsertRule" /\ req'[c].at = "answered" /\ req'[c].status # "ok")
         => req[c].policy \notin DOMAIN db'["iam_policies"]]_vars

=============================================================================
