----------------------------- MODULE IamService -----------------------------
(***************************************************************************)
(* The IAM API: applications with their API keys and policies, policies    *)
(* with their rules, users and the groups they are members of, SSH keys.   *)
(*                                                                         *)
(* Applications and policies are referred to by foreign keys, and so are   *)
(* the users of a group.  The user of an API key is looked up when the key *)
(* is created and stays in the document only; a policy's user or group is  *)
(* looked at by nobody and left out.  Updates of keys and policies merge   *)
(* their body into the document, whatever fields it has.                   *)
(***************************************************************************)
EXTENDS Handlers, FiniteSets

CONSTANTS
  Applications, ApiKeys, Policies, Rules, Users, Groups, SSHKeys,   \* fresh ids
  MaxListed                       \* bound: rules or members in a request

ASSUME IamIdsAreNotNull ==
  Null \notin Applications \cup ApiKeys \cup Policies \cup Rules \cup Users \cup Groups
                \cup SSHKeys

ASSUME MaxListedIsNat == MaxListed \in Nat

IamTables == {"iam_applications", "iam_api_keys", "iam_policies", "iam_rules",
              "iam_users", "iam_groups", "iam_group_members", "iam_ssh_keys"}

Lists(S) == UNION {[1..n -> S] : n \in 0..MaxListed}

(***************************************************************************)
(* Rows.  The application is in a column and, a second time, in the        *)
(* document.                                                               *)
(***************************************************************************)
PlainRow == [doc |-> Null]
KeyRow(a, u) == [application_id |-> a, application |-> a, user |-> u]
PolicyRow(a) == [application_id |-> a, application |-> a]
RuleRow(p) == [policy_id |-> p]
MemberRow(g, u) == [group_id |-> g, user_id |-> u]

Rewrite(t, k) == [at |-> "WriteDoc", table |-> t, key |-> k]

-----------------------------------------------------------------------------
(***************************************************************************)
(* Applications, users, groups and SSH keys.  Updates change nothing in    *)
(* their documents that the model keeps; the answer to an update of a      *)
(* group needs the group once more.                                        *)
(***************************************************************************)
CreateApplication(c) ==
  Idle(c) /\ \E a \in Applications : CreateSimple(IamKeys, c, "iam_applications", a, PlainRow)

UpdateApplication(c) ==
  Idle(c) /\ \E a \in Applications :
    Read(c, "iam_applications", a, Rewrite("iam_applications", a))

DeleteApplication(c) ==
  Idle(c) /\ \E a \in Applications : DeleteBy(IamKeys, c, "iam_applications", a)

CreateUser(c) ==
  Idle(c) /\ \E u \in Users : CreateSimple(IamKeys, c, "iam_users", u, PlainRow)

UpdateUser(c) ==
  Idle(c) /\ \E u \in Users : Read(c, "iam_users", u, Rewrite("iam_users", u))

DeleteUser(c) ==
  Idle(c) /\ \E u \in Users : DeleteBy(IamKeys, c, "iam_users", u)

CreateGroup(c) ==
  Idle(c) /\ \E g \in Groups : CreateSimple(IamKeys, c, "iam_groups", g, PlainRow)

UpdateGroup(c) ==
  Idle(c) /\ \E g \in Groups : Read(c, "iam_groups", g, Rewrite("iam_groups", g))

DeleteGroup(c) ==
  Idle(c) /\ \E g \in Groups : DeleteBy(IamKeys, c, "iam_groups", g)

CreateSSHKey(c) ==
  Idle(c) /\ \E k \in SSHKeys : CreateSimple(IamKeys, c, "iam_ssh_keys", k, PlainRow)

UpdateSSHKey(c) ==
  Idle(c) /\ \E k \in SSHKeys : Read(c, "iam_ssh_keys", k, Rewrite("iam_ssh_keys", k))

DeleteSSHKey(c) ==
  Idle(c) /\ \E k \in SSHKeys : DeleteBy(IamKeys, c, "iam_ssh_keys", k)

WithMembers(g) == [at |-> "ReadGroup", group |-> g]

WriteDoc(c) ==
  LET r == req[c] IN
  /\ r.at = "WriteDoc"
  /\ UNCHANGED issued
  /\ db' = UpdateRow(db, r.table, r.key, PlainRow)
  /\ IF r.table = "iam_groups" /\ Found(r.table, r.key)
     THEN Continue(c, WithMembers(r.key))
     ELSE Answer(c, IF Found(r.table, r.key) THEN "ok" ELSE "not_found")

ReadGroup(c) ==
  /\ req[c].at = "ReadGroup"
  /\ UNCHANGED <<db, issued>>
  /\ Answer(c, IF Found("iam_groups", req[c].group) THEN "ok" ELSE "not_found")

-----------------------------------------------------------------------------
(***************************************************************************)
(* API keys: a new one is for one application or for one user.  The update *)
(* writes the application of the patched document into the column; the     *)
(* body may name another application or user, both, or "" for none, and    *)
(* the user is not looked up again.                                        *)
(***************************************************************************)
RejectKey(c) == Answer(c, "invalid") /\ UNCHANGED <<db, issued>>

CreateKey(c) ==
  Idle(c) /\ \E a \in Applications \cup {Null}, u \in Users \cup {Null} :
    \/ (a = Null) = (u = Null) /\ RejectKey(c)
    \/ /\ a # Null /\ u = Null
       /\ \E k \in ApiKeys : CreateSimple(IamKeys, c, "iam_api_keys", k, KeyRow(a, Null))
    \/ /\ a = Null /\ u # Null
       /\ Read(c, "iam_users", u, [at |-> "InsertKey", user |-> u])

InsertKey(c) ==
  /\ req[c].at = "InsertKey"
  /\ \E k \in ApiKeys : CreateSimple(IamKeys, c, "iam_api_keys", k, KeyRow(Null, req[c].user))

ReadKey(c) ==
  Idle(c) /\ \E k \in ApiKeys, a \in Applications \cup {Null}, u \in Users \cup {Null} :
    Read(c, "iam_api_keys", k, [at |-> "WriteRow", table |-> "iam_api_keys", key |-> k,
                                row |-> KeyRow(a, u)])

DeleteKey(c) ==
  Idle(c) /\ \E k \in ApiKeys : DeleteBy(IamKeys, c, "iam_api_keys", k)

-----------------------------------------------------------------------------
(***************************************************************************)
(* Policies and rules.  A policy is inserted first and its rules after it, *)
(* each in a statement of its own; todo counts those that are left.        *)
(***************************************************************************)
RulesOf(p) == {k \in DOMAIN db["iam_rules"] : db["iam_rules"][k].policy_id = p}

RuleLoop(p, n) ==
  IF n = 0 THEN Answered("ok") ELSE [at |-> "InsertRule", policy |-> p, todo |-> n]

CreatePolicy(c) ==
  Idle(c) /\ \E p \in Policies \ issued, a \in Applications \cup {Null}, n \in 0..MaxListed :
    /\ issued' = issued \cup {p}
    /\ \/ /\ RowOK(IamKeys, db, "iam_policies", PolicyRow(a))
          /\ db' = InsertRow(db, "iam_policies", p, PolicyRow(a))
          /\ Continue(c, RuleLoop(p, n))
       \/ /\ ~RowOK(IamKeys, db, "iam_policies", PolicyRow(a))
          /\ Answer(c, "not_found")
          /\ UNCHANGED db

\* Faulty InsertRule: the uuid is drawn once, before the loop over the rules.
InsertRuleUnderOneId(c) ==
  LET r == req[c] IN
  /\ r.at = "InsertRule"
  /\ \E k \in Rules :
       /\ (k \in issued) = (RulesOf(r.policy) # {})
       /\ issued' = issued \cup {k}
       /\ IF Found("iam_rules", k) \/ ~Found("iam_policies", r.policy)
          THEN Answer(c, "conflict") /\ UNCHANGED db
          ELSE /\ db' = InsertRow(db, "iam_rules", k, RuleRow(r.policy))
               /\ Continue(c, RuleLoop(r.policy, r.todo - 1))

\* Faulty InsertRule: the loop goes on until it is past the last rule.
InsertRuleTooMany(c) ==
  LET r == req[c] IN
  /\ r.at = "InsertRule"
  /\ \E k \in Rules \ issued :
       /\ issued' = issued \cup {k}
       /\ db' = InsertRow(db, "iam_rules", k, RuleRow(r.policy))
       /\ Continue(c, [r EXCEPT !.todo = @ - 1])

InsertRule(c) ==
  LET r == req[c] IN
  /\ r.at = "InsertRule"
  /\ \E k \in Rules \ issued :
       /\ issued' = issued \cup {k}
       /\ \/ /\ RowOK(IamKeys, db, "iam_rules", RuleRow(r.policy))
             /\ db' = InsertRow(db, "iam_rules", k, RuleRow(r.policy))
             /\ Continue(c, RuleLoop(r.policy, r.todo - 1))
          \/ /\ ~RowOK(IamKeys, db, "iam_rules", RuleRow(r.policy))
             /\ Answer(c, "not_found")
             /\ UNCHANGED db

\* The patch leaves the policy's application, names another, or clears it with "".
ReadPolicy(c) ==
  Idle(c) /\ \E p \in Policies, a \in Applications \cup {Null} :
    Read(c, "iam_policies", p,
         [at |-> "WriteRow", table |-> "iam_policies", key |-> p,
          row |-> PolicyRow(a)])

DeletePolicy(c) ==
  Idle(c) /\ \E p \in Policies : DeleteBy(IamKeys, c, "iam_policies", p)

\* UPDATE of document and column, of a key or of a policy; it answers 200 even if
\* the row is gone.
WriteRowOK(r) == Found(r.table, r.key) => RowOK(IamKeys, db, r.table, r.row)

\* Faulty WriteRow: the column is not kept in sync with the document.
WriteRowDocument(c) ==
  LET r == req[c] IN
  /\ r.at = "WriteRow"
  /\ UNCHANGED issued
  /\ db' = IF Found(r.table, r.key)
           THEN [db EXCEPT ![r.table][r.key].application = r.row.application]
           ELSE db
  /\ Answer(c, "ok")

WriteRow(c) ==
  LET r == req[c] IN
  /\ r.at = "WriteRow"
  /\ UNCHANGED issued
  /\ \/ /\ WriteRowOK(r)
        /\ db' = UpdateRow(db, r.table, r.key, r.row)
        /\ Answer(c, "ok")
     \/ ~WriteRowOK(r) /\ Answer(c, "not_found") /\ UNCHANGED db

CreateRule(c) ==
  Idle(c) /\ \E k \in Rules, p \in Policies :
    CreateSimple(IamKeys, c, "iam_rules", k, RuleRow(p))

BeginSetRules(c) ==
  Idle(c) /\ \E p \in Policies, n \in 0..MaxListed :
    Read(c, "iam_policies", p, [at |-> "SetRules", policy |-> p, todo |-> n])

\* Table t with the rows of one group or policy replaced by new ones.
Replaced(t, old, new) ==
  [k \in (DOMAIN t \ old) \cup DOMAIN new |-> IF k \in DOMAIN new THEN new[k] ELSE t[k]]

MembersOf(g) == {k \in DOMAIN db["iam_group_members"] : k[1] = g}

\* One transaction; its errors are not mapped, so a policy that is gone answers 500.
SetRules(c) ==
  LET r == req[c] IN
  /\ r.at = "SetRules"
  /\ \/ /\ r.todo > 0 /\ ~Found("iam_policies", r.policy)
        /\ Answer(c, "error")
        /\ UNCHANGED <<db, issued>>
     \/ /\ r.todo > 0 => Found("iam_policies", r.policy)
        /\ \E ids \in {S \in SUBSET (Rules \ issued) :
                         IsFiniteSet(S) /\ Cardinality(S) = r.todo} :
             /\ issued' = issued \cup ids
             /\ db' = [db EXCEPT !["iam_rules"] =
                         Replaced(@, RulesOf(r.policy), [k \in ids |-> RuleRow(r.policy)])]
        /\ Answer(c, "ok")

-----------------------------------------------------------------------------
(***************************************************************************)
(* Members of groups.                                                      *)
(***************************************************************************)

\* INSERT OR IGNORE, which ignores a member that is there but not a missing
\* group or user.
AddMember(c) ==
  /\ Idle(c) /\ UNCHANGED issued
  /\ \E g \in Groups, u \in Users :
       \/ /\ RowOK(IamKeys, db, "iam_group_members", MemberRow(g, u))
          /\ db' = InsertRow(db, "iam_group_members", <<g, u>>, MemberRow(g, u))
          /\ Continue(c, WithMembers(g))
       \/ /\ ~RowOK(IamKeys, db, "iam_group_members", MemberRow(g, u))
          /\ Answer(c, "not_found")
          /\ UNCHANGED db

RemoveMember(c) ==
  /\ Idle(c) /\ UNCHANGED issued
  /\ \E g \in Groups, u \in Users :
       /\ db' = DeleteRow(IamKeys, db, "iam_group_members", <<g, u>>)
       /\ Continue(c, WithMembers(g))

\* The x-th INSERT of the list fails: a missing group or user, or a member twice.
InsertFails(g, list, x) ==
  \/ ~RowOK(IamKeys, db, "iam_group_members", MemberRow(g, list[x]))
  \/ \E y \in 1..(x - 1) : list[y] = list[x]

MemberRows(g, list) ==
  [k \in {<<g, list[x]>> : x \in DOMAIN list} |-> MemberRow(g, k[2])]

\* Faulty SetMembers: no transaction, so what came before the failure stays.
SetMembersUpToFailure(c) ==
  /\ Idle(c) /\ UNCHANGED issued
  /\ \E g \in Groups, list \in Lists(Users) :
       LET done == {x \in DOMAIN list : \A y \in 1..x : ~InsertFails(g, list, y)} IN
       /\ db' = [db EXCEPT !["iam_group_members"] =
                   Replaced(@, MembersOf(g), MemberRows(g, [x \in done |-> list[x]]))]
       /\ IF done = DOMAIN list THEN Continue(c, WithMembers(g)) ELSE Answer(c, "not_found")

\* One transaction, answered with the error of the first INSERT that fails.
SetMembers(c) ==
  /\ Idle(c) /\ UNCHANGED issued
  /\ \E g \in Groups, list \in Lists(Users) :
       LET failing == {x \in DOMAIN list : InsertFails(g, list, x)} IN
       \/ /\ failing = {}
          /\ db' = [db EXCEPT !["iam_group_members"] =
                      Replaced(@, MembersOf(g), MemberRows(g, list))]
          /\ Continue(c, WithMembers(g))
       \/ /\ UNCHANGED db
          /\ \E x \in failing :
               /\ \A y \in failing : x <= y
               /\ Answer(c, IF RowOK(IamKeys, db, "iam_group_members", MemberRow(g, list[x]))
                            THEN "conflict" ELSE "not_found")

-----------------------------------------------------------------------------
Init ==
  /\ db = [t \in IamTables |-> EmptyTable]
  /\ issued = {}
  /\ req = [c \in Clients |-> Answered("ok")]

Arrive(c) ==
  \/ CreateApplication(c) \/ UpdateApplication(c) \/ DeleteApplication(c)
  \/ CreateUser(c) \/ UpdateUser(c) \/ DeleteUser(c)
  \/ CreateGroup(c) \/ UpdateGroup(c) \/ DeleteGroup(c)
  \/ CreateSSHKey(c) \/ UpdateSSHKey(c) \/ DeleteSSHKey(c)
  \/ CreateKey(c) \/ ReadKey(c) \/ DeleteKey(c)
  \/ CreatePolicy(c) \/ ReadPolicy(c) \/ DeletePolicy(c)
  \/ CreateRule(c) \/ BeginSetRules(c)
  \/ AddMember(c) \/ RemoveMember(c) \/ SetMembers(c)

Proceed(c) ==
  \/ WriteDoc(c) \/ ReadGroup(c) \/ InsertKey(c) \/ WriteRow(c)
  \/ InsertRule(c) \/ SetRules(c)

Next == \E c \in Clients : Arrive(c) \/ Proceed(c)

Spec == Init /\ [][Next]_vars

=============================================================================
