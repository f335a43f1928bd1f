---------------------------- MODULE ListDocuments ----------------------------
(***************************************************************************)
(* Resources that keep lists inside their documents.  Whoever changes one  *)
(* of the lists reads the whole document, replaces the list in it and      *)
(* writes the whole document back.                                         *)
(*                                                                         *)
(* Of a list the model keeps which of the possible contents it has; Null   *)
(* is the empty one.                                                       *)
(***************************************************************************)
EXTENDS Resources

CONSTANT Contents   \* what a list may hold

GivenLists == {Null} \cup Contents

\* The write that is to follow, with the document to be written and the lists it is about.
\* A checked write asks whether it met a row.
Rewrite(t, k, patch, checked) ==
  [at |-> "WriteLists", table |-> t, key |-> k, names |-> DOMAIN patch, checked |-> checked,
   doc |-> PatchMerge(db[t][k].doc, patch)]

SetList(c, t, name, lists) ==
  Idle(c) /\ \E k \in UUIDs : \E patch \in [{name} -> lists] :
    Read(c, t, k, Rewrite(t, k, patch, TRUE))

WriteLists(c) ==
  LET r == req[c] IN
  /\ r.at = "WriteLists"
  /\ UNCHANGED issued
  /\ db' = UpdateRow(db, r.table, r.key, [doc |-> r.doc])
  /\ Answer(c, IF r.checked /\ ~Found(r.table, r.key) THEN "not_found" ELSE "ok")

=============================================================================
