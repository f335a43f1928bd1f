-------------------------- MODULE SecurityGroupRules --------------------------
(***************************************************************************)
(* The documents of the security groups of the Instance API: the list of   *)
(* rules, and everything else a group says, its policies.  What servers    *)
(* have to do with groups is the business of InstanceService.              *)
(***************************************************************************)
EXTENDS ListDocuments

GroupTables == {"instance_security_groups"}
GroupLists == {"rules", "policies"}

GroupDocs == [rules : GivenLists, policies : GivenLists]

CreateSecurityGroup(c) ==
  Idle(c) /\ \E k \in UUIDs, doc \in GroupDocs :
    CreateSimple({}, c, "instance_security_groups", k, [doc |-> doc])

\* A patch may name the rules as well, and does not ask whether the group is still there.
UpdateSecurityGroup(c) ==
  Idle(c) /\ \E k \in UUIDs : \E patch \in PatchesOf(GroupDocs) :
    Read(c, "instance_security_groups", k,
         Rewrite("instance_security_groups", k, patch, FALSE))

SetSecurityGroupRules(c) == SetList(c, "instance_security_groups", "rules", GivenLists)

DeleteSecurityGroup(c) == Delete(c, "instance_security_groups")

SecurityGroup(c) ==
  \/ CreateSecurityGroup(c) \/ UpdateSecurityGroup(c) \/ SetSecurityGroupRules(c)
  \/ DeleteSecurityGroup(c)

=============================================================================
