----------------------------- MODULE IamProofs -----------------------------
(***************************************************************************)
(* The IAM API, for every number of clients and every set of ids: types,   *)
(* documents that name live applications, no half created policies, that   *)
(* the tables implement ReferentialStore, and that requests that come one  *)
(* at a time leave no trace when they fail.                                *)
(*                                                                         *)
(* The inductive invariant: rows are well-formed and sound, references are *)
(* live, the uuids of rows have been drawn, and a handler that will write  *)
(* a row later holds a sound one.  Soundness is what the code keeps in two *)
(* places at once: the application in document and column, the group and   *)
(* user in the key and the columns of a membership.                        *)
(***************************************************************************)
EXTENDS MCIam, ForeignKeysProofs, FiniteSetTheorems

DocumentTables == {"iam_api_keys", "iam_policies"}

Sound(t, k, row) ==
  /\ t \in DocumentTables => row.application = row.application_id
  /\ t = "iam_group_members" => row = MemberRow(k[1], k[2])

Typed(d) ==
  /\ DOMAIN d = IamTables /\ d = [t \in DOMAIN d |-> d[t]]
  /\ \A t \in IamTables :
       /\ DOMAIN d[t] \subseteq IdsOf(t)
       /\ d[t] \in [DOMAIN d[t] -> RowsOf(t)]
       /\ \A k \in DOMAIN d[t] : Sound(t, k, d[t][k])

Good(d) == Typed(d) /\ RefIntegrity(IamKeys, d)

\* Rows stored under a uuid have it from newID.
Drawn(iss, d) == DOMAIN d["iam_rules"] \subseteq iss

LocalsSound(r) == r.at = "WriteRow" => Sound(r.table, r.key, r.row)

IInv ==
  /\ Good(db)
  /\ Drawn(issued, db)
  /\ req \in [Clients -> Requests]
  /\ \A c \in Clients : LocalsSound(req[c])

-----------------------------------------------------------------------------
(***************************************************************************)
(* The keys and the rows of the service.                                   *)
(***************************************************************************)

\* What the keys of the schema relate; none is SET NULL and no cascade starts another.
LEMMA IamKeysEnd ==
  /\ \A fk \in IamKeys :
       /\ fk.child \in DocumentTables \cup {"iam_rules", "iam_group_members"}
       /\ fk.parent \in {"iam_applications", "iam_policies", "iam_groups", "iam_users"}
       /\ fk.action \in {NoAction, Cascade}
       /\ fk.action # SetNull
       /\ fk.child \in DocumentTables =>
            fk.col = "application_id" /\ fk.parent = "iam_applications"
       /\ fk.child = "iam_rules" => fk.col = "policy_id" /\ fk.parent = "iam_policies"
       /\ fk.child = "iam_group_members" =>
            \/ fk.col = "group_id" /\ fk.parent = "iam_groups"
            \/ fk.col = "user_id" /\ fk.parent = "iam_users"
       /\ fk.action = Cascade => fk.child \in {"iam_rules", "iam_group_members"}
  /\ CascadesEndAtOnce(IamKeys)
<1>1. \A fk \in IamKeys :
       /\ fk.child \in DocumentTables \cup {"iam_rules", "iam_group_members"}
       /\ fk.parent \in {"iam_applications", "iam_policies", "iam_groups", "iam_users"}
       /\ fk.action \in {NoAction, Cascade}
       /\ fk.child \in DocumentTables =>
            fk.col = "application_id" /\ fk.parent = "iam_applications"
       /\ fk.child = "iam_rules" => fk.col = "policy_id" /\ fk.parent = "iam_policies"
       /\ fk.child = "iam_group_members" =>
            \/ fk.col = "group_id" /\ fk.parent = "iam_groups"
            \/ fk.col = "user_id" /\ fk.parent = "iam_users"
       /\ fk.action = Cascade => fk.child \in {"iam_rules", "iam_group_members"}
  BY DEF IamKeys, ForeignKey, DocumentTables, NoAction, Cascade
<1>2. QED BY <1>1 DEF CascadesEndAtOnce, NoAction, Cascade, SetNull, DocumentTables

\* The keys that hold the references of API keys and policies, rules, and memberships.
LEMMA IamKeysGiven ==
  /\ \E fk \in IamKeys : fk.child = "iam_api_keys" /\ fk.col = "application_id"
                         /\ fk.parent = "iam_applications"
  /\ \E fk \in IamKeys : fk.child = "iam_policies" /\ fk.col = "application_id"
                         /\ fk.parent = "iam_applications"
  /\ \E fk \in IamKeys : fk.child = "iam_rules" /\ fk.col = "policy_id"
                         /\ fk.parent = "iam_policies"
  /\ \E fk \in IamKeys : fk.child = "iam_group_members" /\ fk.col = "group_id"
                         /\ fk.parent = "iam_groups"
BY DEF IamKeys, ForeignKey

\* The sets of ids and rows, table by table.
LEMMA IamSchema ==
  /\ \A t \in PlainTables : t \in IamTables /\ RowsOf(t) = {PlainRow}
  /\ IdsOf("iam_applications") = Applications /\ IdsOf("iam_users") = Users
  /\ IdsOf("iam_groups") = Groups /\ IdsOf("iam_ssh_keys") = SSHKeys
  /\ IdsOf("iam_api_keys") = ApiKeys /\ RowsOf("iam_api_keys") = KeyRows
  /\ IdsOf("iam_policies") = Policies /\ RowsOf("iam_policies") = PolicyRows
  /\ IdsOf("iam_rules") = Rules /\ RowsOf("iam_rules") = [policy_id : Policies]
  /\ IdsOf("iam_group_members") = Groups \X Users
  /\ RowsOf("iam_group_members") = [group_id : Groups, user_id : Users]
  /\ DocumentTables \cup {"iam_rules", "iam_group_members"} = IamTables \ PlainTables
BY DEF IdsOf, RowsOf, IamTables, PlainTables, DocumentTables

\* A well-formed row is a record with the columns that the keys speak of.
LEMMA RowsAreRecords ==
  ASSUME NEW t \in IamTables, NEW row \in RowsOf(t)
  PROVE  /\ row = [col \in DOMAIN row |-> row[col]]
         /\ \A fk \in IamKeys : fk.child = t => fk.col \in DOMAIN row
<1>1. row = [col \in DOMAIN row |-> row[col]]
  BY DEF IamTables, RowsOf, KeyRows, PolicyRows, PlainRow, PlainTables
<1>2. ASSUME NEW fk \in IamKeys, fk.child = t PROVE fk.col \in DOMAIN row
  <2>1. CASE t \in DocumentTables
    <3>1. fk.col = "application_id"
      BY <1>2, <2>1, IamKeysEnd
    <3>2. row \in KeyRows \/ row \in PolicyRows
      BY <2>1, IamSchema DEF DocumentTables
    <3>3. QED BY <3>1, <3>2 DEF KeyRows, PolicyRows
  <2>2. CASE t = "iam_rules"
    <3>1. fk.col = "policy_id" /\ row \in [policy_id : Policies]
      BY <1>2, <2>2, IamKeysEnd, IamSchema
    <3>2. QED BY <3>1
  <2>3. CASE t = "iam_group_members"
    <3>1. fk.col \in {"group_id", "user_id"} /\ row \in [group_id : Groups, user_id : Users]
      BY <1>2, <2>3, IamKeysEnd, IamSchema
    <3>2. QED BY <3>1
  <2>4. QED BY <1>2, <2>1, <2>2, <2>3, IamKeysEnd
<1>3. QED BY <1>1, <1>2

\* The tables and columns the keys speak of are there.
LEMMA IamLayout ==
  ASSUME NEW d, Typed(d) PROVE LaidOutFor(IamKeys, d)
<1>1. \A fk \in IamKeys : /\ fk.child \in IamTables /\ fk.parent \in IamTables
                          /\ fk.action \in {NoAction, Cascade, SetNull}
  BY IamKeysEnd DEF IamTables, DocumentTables
<1>2. ASSUME NEW fk \in IamKeys, NEW k \in DOMAIN d[fk.child]
      PROVE  fk.col \in DOMAIN d[fk.child][k]
  <2>1. d[fk.child][k] \in RowsOf(fk.child)
    BY <1>1 DEF Typed
  <2>2. QED BY <1>1, <2>1, RowsAreRecords
<1>3. QED BY <1>1, <1>2 DEF LaidOutFor, Typed

-----------------------------------------------------------------------------
(***************************************************************************)
(* What statements and transactions do to the tables.                      *)
(***************************************************************************)
Inserted(iss, d, e) ==
  \E t \in IamTables : \E k \in IdsOf(t) : \E row \in RowsOf(t) :
    /\ k \notin DOMAIN d[t] /\ RowOK(IamKeys, d, t, row) /\ Sound(t, k, row)
    /\ t = "iam_rules" => k \in iss
    /\ e = InsertRow(d, t, k, row)

Updated(d, e) ==
  \E t \in IamTables : \E k \in DOMAIN d[t] : \E row \in RowsOf(t) :
    /\ RowOK(IamKeys, d, t, row) /\ Sound(t, k, row)
    /\ e = UpdateRow(d, t, k, row)

Deleted(d, e) ==
  \E t \in IamTables : \E k \in DOMAIN d[t] :
    ~Blocked(IamKeys, d, t, k) /\ e = DeleteRow(IamKeys, d, t, k)

\* The rows of t that belong to owner.
Belonging(d, ref, owner) == {x \in DOMAIN d[ref.child] : d[ref.child][x][ref.col] = owner}

Fitting(iss, d, ref, owner, new) ==
  /\ DOMAIN new \cap (DOMAIN d[ref.child] \ Belonging(d, ref, owner)) = {}
  /\ ref.child = "iam_rules" => DOMAIN new \subseteq iss
  /\ \A x \in DOMAIN new :
       /\ x \in IdsOf(ref.child) /\ new[x] \in RowsOf(ref.child)
       /\ Sound(ref.child, x, new[x]) /\ RowOK(IamKeys, d, ref.child, new[x])
       /\ new[x][ref.col] = owner

Exchanged(d, ref, owner, new) ==
  [d EXCEPT ![ref.child] = Replaced(d[ref.child], Belonging(d, ref, owner), new)]

ListReplaced(iss, d, e) ==
  \E ref \in ReplacedLists : \E owner \in DOMAIN d[ref.parent] : \E new :
    Fitting(iss, d, ref, owner, new) /\ e = Exchanged(d, ref, owner, new)

Step(iss, d, e) ==
  d = e \/ Inserted(iss, d, e) \/ Updated(d, e) \/ Deleted(d, e) \/ ListReplaced(iss, d, e)

\* An accepted INSERT of a well-formed row.
LEMMA InsertKeepsGood ==
  ASSUME NEW iss, NEW d, Good(d), Drawn(iss, d), NEW e, Inserted(iss, d, e)
  PROVE  Good(e) /\ Drawn(iss, e)
<1>1. PICK t \in IamTables : \E k \in IdsOf(t) : \E row \in RowsOf(t) :
        /\ k \notin DOMAIN d[t] /\ RowOK(IamKeys, d, t, row) /\ Sound(t, k, row)
        /\ t = "iam_rules" => k \in iss
        /\ e = InsertRow(d, t, k, row)
  BY DEF Inserted
<1>2. PICK k \in IdsOf(t) : \E row \in RowsOf(t) :
        /\ k \notin DOMAIN d[t] /\ RowOK(IamKeys, d, t, row) /\ Sound(t, k, row)
        /\ t = "iam_rules" => k \in iss
        /\ e = InsertRow(d, t, k, row)
  BY <1>1
<1>3. PICK row \in RowsOf(t) :
        /\ k \notin DOMAIN d[t] /\ RowOK(IamKeys, d, t, row) /\ Sound(t, k, row)
        /\ t = "iam_rules" => k \in iss
        /\ e = InsertRow(d, t, k, row)
  BY <1>2
<1>4. /\ DOMAIN e = IamTables
      /\ \A u \in IamTables \ {t} : e[u] = d[u]
      /\ DOMAIN e[t] = DOMAIN d[t] \cup {k}
      /\ e[t][k] = row
      /\ \A x \in DOMAIN d[t] : e[t][x] = d[t][x]
      /\ e[t] = [x \in DOMAIN e[t] |-> e[t][x]]
  BY <1>3 DEF InsertRow, Good, Typed
<1>9. e = [u \in DOMAIN e |-> e[u]]
  BY <1>3 DEF InsertRow
<1>5. Typed(e)
  BY <1>3, <1>4, <1>9 DEF Good, Typed
<1>6. RefIntegrity(IamKeys, e)
  BY <1>3, IamLayout, InsertKeepsIntegrity DEF Good, Typed
<1>7. Drawn(iss, e)
  BY <1>3, <1>4 DEF Drawn, IamTables
<1>8. QED BY <1>5, <1>6, <1>7 DEF Good

\* An accepted UPDATE with a well-formed row.
LEMMA UpdateKeepsGood ==
  ASSUME NEW iss, NEW d, Good(d), Drawn(iss, d), NEW e, Updated(d, e)
  PROVE  Good(e) /\ Drawn(iss, e)
<1>1. PICK t \in IamTables : \E k \in DOMAIN d[t] : \E row \in RowsOf(t) :
        /\ RowOK(IamKeys, d, t, row) /\ Sound(t, k, row)
        /\ e = UpdateRow(d, t, k, row)
  BY DEF Updated
<1>2. PICK k \in DOMAIN d[t] : \E row \in RowsOf(t) :
        /\ RowOK(IamKeys, d, t, row) /\ Sound(t, k, row)
        /\ e = UpdateRow(d, t, k, row)
  BY <1>1
<1>3. PICK row \in RowsOf(t) : /\ RowOK(IamKeys, d, t, row) /\ Sound(t, k, row)
                               /\ e = UpdateRow(d, t, k, row)
  BY <1>2
<1>4. /\ DOMAIN e = IamTables
      /\ \A u \in IamTables \ {t} : e[u] = d[u]
      /\ DOMAIN e[t] = DOMAIN d[t]
      /\ e[t][k] = row
      /\ \A x \in DOMAIN d[t] \ {k} : e[t][x] = d[t][x]
      /\ e[t] = [x \in DOMAIN e[t] |-> e[t][x]]
  BY <1>3 DEF UpdateRow, Good, Typed
<1>9. e = [u \in DOMAIN e |-> e[u]]
  BY <1>3 DEF UpdateRow
<1>5. Typed(e)
  BY <1>3, <1>4, <1>9 DEF Good, Typed
<1>6. RefIntegrity(IamKeys, e)
  BY <1>3, IamLayout, UpdateKeepsIntegrity DEF Good, Typed
<1>7. Drawn(iss, e)
  BY <1>3, <1>4 DEF Drawn, IamTables
<1>8. QED BY <1>5, <1>6, <1>7 DEF Good

\* A DELETE takes rows away and leaves the others as they are.
LEMMA DeleteTakesAway ==
  ASSUME NEW d, Good(d), NEW t, NEW k, NEW u \in IamTables
  PROVE  /\ DOMAIN DeleteRow(IamKeys, d, t, k)[u] = DOMAIN d[u] \ Doomed(IamKeys, d, t, k, u)
         /\ \A x \in DOMAIN DeleteRow(IamKeys, d, t, k)[u] :
              DeleteRow(IamKeys, d, t, k)[u][x] = d[u][x]
<1>1. u \in DOMAIN d /\ \A x \in DOMAIN d[u] : d[u][x] \in RowsOf(u)
  BY DEF Good, Typed
<1>2. \A x \in DOMAIN d[u] : d[u][x] = [col \in DOMAIN d[u][x] |-> d[u][x][col]]
  BY <1>1, RowsAreRecords
<1>3. QED BY <1>1, <1>2, IamKeysEnd, DeleteOnlyTakesAway

\* An accepted DELETE, with its cascades.
LEMMA DeleteKeepsGood ==
  ASSUME NEW iss, NEW d, Good(d), Drawn(iss, d), NEW e, Deleted(d, e)
  PROVE  Good(e) /\ Drawn(iss, e)
<1>1. PICK t \in IamTables : \E k \in DOMAIN d[t] :
        ~Blocked(IamKeys, d, t, k) /\ e = DeleteRow(IamKeys, d, t, k)
  BY DEF Deleted
<1>2. PICK k \in DOMAIN d[t] : ~Blocked(IamKeys, d, t, k) /\ e = DeleteRow(IamKeys, d, t, k)
  BY <1>1
<1>3. DOMAIN e = IamTables /\ \A u \in IamTables : e[u] = [x \in DOMAIN e[u] |-> e[u][x]]
  BY <1>2 DEF DeleteRow, Good, Typed
<1>4. ASSUME NEW u \in IamTables
      PROVE  /\ DOMAIN e[u] \subseteq DOMAIN d[u]
             /\ \A x \in DOMAIN e[u] : e[u][x] = d[u][x]
  BY <1>2, DeleteTakesAway
<1>5. ASSUME NEW u \in IamTables
      PROVE  /\ DOMAIN e[u] \subseteq IdsOf(u)
             /\ \A x \in DOMAIN e[u] : e[u][x] \in RowsOf(u) /\ Sound(u, x, e[u][x])
  BY <1>4 DEF Good, Typed
<1>10. e = [u \in DOMAIN e |-> e[u]]
  BY <1>2 DEF DeleteRow
<1>6. Typed(e)
  BY <1>3, <1>5, <1>10 DEF Typed
<1>7. RefIntegrity(IamKeys, e)
  BY <1>2, IamLayout, IamKeysEnd, DeleteKeepsIntegrity DEF Good, Typed
<1>8. Drawn(iss, e)
  BY <1>4 DEF Drawn, IamTables
<1>9. QED BY <1>6, <1>7, <1>8 DEF Good

\* A list that is replaced, row by row.
OneListDiffers(d, ref, owner, new, e) ==
  /\ ref.child \in {"iam_rules", "iam_group_members"} /\ ref.child \in IamTables
  /\ DOMAIN e = IamTables
  /\ \A u \in IamTables \ {ref.child} : e[u] = d[u]
  /\ DOMAIN e[ref.child] = (DOMAIN d[ref.child] \ Belonging(d, ref, owner)) \cup DOMAIN new
  /\ \A x \in DOMAIN new : e[ref.child][x] = new[x]
  /\ \A x \in DOMAIN d[ref.child] \ Belonging(d, ref, owner) :
       e[ref.child][x] = d[ref.child][x]
  /\ e[ref.child] = [x \in DOMAIN e[ref.child] |-> e[ref.child][x]]

\* A replacement changes one list and nothing else.
LEMMA ReplacedRows ==
  ASSUME NEW iss, NEW d, Good(d), NEW ref \in ReplacedLists, NEW owner, NEW new,
         Fitting(iss, d, ref, owner, new), NEW e, e = Exchanged(d, ref, owner, new)
  PROVE  OneListDiffers(d, ref, owner, new, e)
<1>1. ref.child \in {"iam_rules", "iam_group_members"}
  BY IamKeysEnd DEF ReplacedLists, DocumentTables
<1>2. ref.child \in DOMAIN d /\ ref.child \in IamTables /\ DOMAIN d = IamTables
  BY <1>1 DEF Good, Typed, IamTables
<1>3. e[ref.child] = Replaced(d[ref.child], Belonging(d, ref, owner), new)
  BY <1>2 DEF Exchanged
<1>4. DOMAIN new \cap (DOMAIN d[ref.child] \ Belonging(d, ref, owner)) = {}
  BY DEF Fitting
<1>5. /\ DOMAIN e[ref.child]
           = (DOMAIN d[ref.child] \ Belonging(d, ref, owner)) \cup DOMAIN new
      /\ \A x \in DOMAIN e[ref.child] :
           e[ref.child][x] = IF x \in DOMAIN new THEN new[x] ELSE d[ref.child][x]
      /\ e[ref.child] = [x \in DOMAIN e[ref.child] |-> e[ref.child][x]]
  BY <1>3 DEF Replaced
<1>6. DOMAIN e = IamTables /\ \A u \in IamTables \ {ref.child} : e[u] = d[u]
  BY <1>2 DEF Exchanged
<1>7. QED BY <1>1, <1>2, <1>4, <1>5, <1>6 DEF OneListDiffers

\* Replacing a list by rows that the foreign keys accept.
LEMMA ReplacementKeepsGood ==
  ASSUME NEW iss, NEW d, Good(d), Drawn(iss, d), NEW e, ListReplaced(iss, d, e)
  PROVE  Good(e) /\ Drawn(iss, e)
<1>1. PICK ref \in ReplacedLists : \E owner \in DOMAIN d[ref.parent] : \E new :
        Fitting(iss, d, ref, owner, new) /\ e = Exchanged(d, ref, owner, new)
  BY DEF ListReplaced
<1>2. PICK owner \in DOMAIN d[ref.parent] : \E new :
        Fitting(iss, d, ref, owner, new) /\ e = Exchanged(d, ref, owner, new)
  BY <1>1
<1>3. PICK new :
        Fitting(iss, d, ref, owner, new) /\ e = Exchanged(d, ref, owner, new)
  BY <1>2
<1>0. OneListDiffers(d, ref, owner, new, e)
  BY <1>3, ReplacedRows
<1> DEFINE t == ref.child
           old == Belonging(d, ref, owner)
<1>4. /\ t \in {"iam_rules", "iam_group_members"} /\ t \in IamTables
      /\ DOMAIN e = IamTables
      /\ \A u \in IamTables \ {t} : e[u] = d[u]
      /\ DOMAIN e[t] = (DOMAIN d[t] \ old) \cup DOMAIN new
      /\ \A x \in DOMAIN new : e[t][x] = new[x]
      /\ \A x \in DOMAIN d[t] \ old : e[t][x] = d[t][x]
      /\ e[t] = [x \in DOMAIN e[t] |-> e[t][x]]
  BY <1>0 DEF OneListDiffers
<1>5. \A x \in DOMAIN new :
        /\ x \in IdsOf(t) /\ new[x] \in RowsOf(t)
        /\ Sound(t, x, new[x]) /\ RowOK(IamKeys, d, t, new[x])
  BY <1>3 DEF Fitting
<1>6. t = "iam_rules" => DOMAIN new \subseteq iss
  BY <1>3 DEF Fitting
<1> HIDE DEF t, old
<1>7. Typed(e)
  <2>1. ASSUME NEW u \in IamTables, u # t
        PROVE  /\ DOMAIN e[u] \subseteq IdsOf(u)
               /\ e[u] \in [DOMAIN e[u] -> RowsOf(u)]
               /\ \A k \in DOMAIN e[u] : Sound(u, k, e[u][k])
    BY <1>4, <2>1 DEF Good, Typed
  <2>2. \A x \in DOMAIN e[t] : x \in IdsOf(t) /\ e[t][x] \in RowsOf(t) /\ Sound(t, x, e[t][x])
    BY <1>4, <1>5 DEF Good, Typed
  <2>3. e = [u \in DOMAIN e |-> e[u]]
    BY <1>3 DEF Exchanged
  <2>4. QED BY <1>4, <2>1, <2>2, <2>3 DEF Typed
<1>8. RefIntegrity(IamKeys, e)
  <2>1. SUFFICES ASSUME NEW fk \in IamKeys, NEW x \in DOMAIN e[fk.child]
                 PROVE  e[fk.child][x][fk.col] \in DOMAIN e[fk.parent] \cup {Null}
    BY DEF RefIntegrity
  <2>2. fk.parent \in IamTables /\ fk.child \in IamTables /\ e[fk.parent] = d[fk.parent]
    BY <1>4, IamKeysEnd DEF IamTables, DocumentTables
  <2>3. CASE fk.child = t /\ x \in DOMAIN new
    BY <1>4, <1>5, <2>2, <2>3 DEF RowOK
  <2>4. CASE ~(fk.child = t /\ x \in DOMAIN new)
    <3>1. x \in DOMAIN d[fk.child] /\ e[fk.child][x] = d[fk.child][x]
      BY <1>4, <2>1, <2>2, <2>4
    <3>2. QED BY <2>2, <3>1 DEF Good, RefIntegrity
  <2>5. QED BY <2>3, <2>4
<1>9. Drawn(iss, e)
  BY <1>4, <1>6 DEF Drawn, IamTables
<1>10. QED BY <1>7, <1>8, <1>9 DEF Good

\* Whatever a statement or transaction does, the tables stay good.
LEMMA StepKeepsGood ==
  ASSUME NEW iss, NEW d, Good(d), Drawn(iss, d), NEW e, Step(iss, d, e)
  PROVE  Good(e) /\ Drawn(iss, e)
BY InsertKeepsGood, UpdateKeepsGood, DeleteKeepsGood, ReplacementKeepsGood DEF Step

-----------------------------------------------------------------------------
(***************************************************************************)
(* Every action is a Step and leaves its client with sound locals.         *)
(***************************************************************************)
Ready == Good(db) /\ Drawn(issued, db) /\ req \in [Clients -> Requests]
           /\ \A c \in Clients : LocalsSound(req[c])

Handled(c) == \E r \in Requests : LocalsSound(r) /\ req' = [req EXCEPT ![c] = r]

Fits(c) == issued \subseteq issued' /\ Step(issued', db, db') /\ Handled(c)

\* That is all the invariant needs.
LEMMA FittingKeepsInvariant ==
  ASSUME IInv, NEW c \in Clients, Fits(c)
  PROVE  IInv'
<1>1. PICK r \in Requests : LocalsSound(r) /\ req' = [req EXCEPT ![c] = r]
  BY DEF Fits, Handled
<1>2. Drawn(issued', db)
  BY DEF IInv, Drawn, Fits
<1>3. Good(db') /\ Drawn(issued', db')
  BY <1>2, StepKeepsGood DEF IInv, Fits
<1>4. req' \in [Clients -> Requests]
  BY <1>1 DEF IInv
<1>5. \A d \in Clients : LocalsSound(req'[d])
  BY <1>1 DEF IInv
<1>6. QED BY <1>3, <1>4, <1>5 DEF IInv

\* The locals of each statement that is still to come.
LEMMA LocalsTyped ==
  ASSUME NEW r \in Requests
  PROVE  /\ r.at \in {"answered", "WriteDoc", "WriteRow", "ReadGroup", "InsertKey",
                      "InsertRule", "SetRules"}
         /\ r.at = "WriteDoc" => r.table \in PlainTables /\ r.key \in IdsOf(r.table)
         /\ r.at = "WriteRow" => /\ r.table \in DocumentTables /\ r.key \in IdsOf(r.table)
                                 /\ r.row \in RowsOf(r.table)
         /\ r.at = "ReadGroup" => r.group \in Groups
         /\ r.at = "InsertKey" => r.user \in Users
         /\ r.at = "InsertRule" => r.policy \in Policies /\ r.todo \in 1..MaxListed
         /\ r.at = "SetRules" => r.policy \in Policies /\ r.todo \in 0..MaxListed
BY DEF Requests, DocumentTables

\* The answers that statements give.
LEMMA StatusesGiven == {"ok", "not_found", "conflict", "invalid", "error"} \subseteq Statuses
BY DEF Statuses

\* An answer leaves nothing to be sound about.
LEMMA AnswersFit ==
  ASSUME NEW c, NEW status \in Statuses, Answer(c, status)
  PROVE  Handled(c)
<1>1. Answered(status) \in Requests /\ LocalsSound(Answered(status))
  BY DEF Answered, Requests, LocalsSound
<1>2. QED BY <1>1 DEF Answer, Continue, Handled

\* A step that changes no table, with sound locals.
LEMMA WaitingFits ==
  ASSUME issued \subseteq issued', UNCHANGED db, NEW c, NEW r \in Requests, LocalsSound(r),
         Continue(c, r)
  PROVE  Fits(c)
BY DEF Fits, Step, Handled, Continue

\* An answer without a change.
LEMMA RefusalFits ==
  ASSUME issued \subseteq issued', UNCHANGED db, NEW c, NEW status \in Statuses,
         Answer(c, status)
  PROVE  Fits(c)
BY AnswersFit DEF Fits, Step

\* The look-up at the head of a handler.
LEMMA ReadFits ==
  ASSUME NEW c, NEW t, NEW k, NEW next, Read(c, t, k, next),
         Found(t, k) => next \in Requests /\ LocalsSound(next)
  PROVE  Fits(c)
<1>1. UNCHANGED <<db, issued>>
  BY DEF Read
<1>2. CASE Found(t, k) /\ Continue(c, next)
  BY <1>1, <1>2, WaitingFits
<1>3. CASE Answer(c, "not_found")
  BY <1>1, <1>3, RefusalFits, StatusesGiven
<1>4. QED BY <1>2, <1>3 DEF Read

\* An INSERT, accepted or not.
LEMMA InsertFits ==
  ASSUME NEW c, NEW t \in IamTables, NEW k \in IdsOf(t), NEW row \in RowsOf(t),
         Sound(t, k, row), CreateSimple(IamKeys, c, t, k, row)
  PROVE  Fits(c)
<1>1. issued' = issued \cup {k} /\ InsertJSON(IamKeys, c, t, k, row)
  BY DEF CreateSimple
<1>2. CASE UNCHANGED db /\ \E status \in Statuses : Answer(c, status)
  BY <1>1, <1>2, RefusalFits
<1>3. CASE /\ ~Found(t, k) /\ RowOK(IamKeys, db, t, row)
           /\ db' = InsertRow(db, t, k, row)
           /\ Answer(c, "ok")
  <2>1. Inserted(issued', db, db')
    BY <1>1, <1>3 DEF Inserted, Found
  <2>2. QED BY <1>1, <1>3, <2>1, AnswersFit, StatusesGiven DEF Fits, Step
<1>4. QED BY <1>1, <1>2, <1>3, StatusesGiven DEF InsertJSON

\* A DELETE, accepted or not.
LEMMA DeleteFits ==
  ASSUME NEW c, NEW t \in IamTables, NEW k, DeleteBy(IamKeys, c, t, k)
  PROVE  Fits(c)
<1>1. issued' = issued
  BY DEF DeleteBy
<1>2. CASE UNCHANGED db /\ \E status \in Statuses : Answer(c, status)
  BY <1>1, <1>2, RefusalFits
<1>3. CASE /\ Found(t, k) /\ ~Blocked(IamKeys, db, t, k)
           /\ db' = DeleteRow(IamKeys, db, t, k)
           /\ Answer(c, "ok")
  <2>1. Deleted(db, db')
    BY <1>3 DEF Deleted, Found
  <2>2. QED BY <1>1, <1>3, <2>1, AnswersFit, StatusesGiven DEF Fits, Step
<1>4. QED BY <1>2, <1>3, StatusesGiven DEF DeleteBy

\* What an INSERT of a row writes, also over one that is there.
LEMMA WritingIsStep ==
  ASSUME Ready, NEW t \in IamTables, NEW k \in IdsOf(t), NEW row \in RowsOf(t),
         Sound(t, k, row), RowOK(IamKeys, db, t, row), t = "iam_rules" => k \in issued',
         db' = InsertRow(db, t, k, row)
  PROVE  Step(issued', db, db')
<1>1. CASE k \notin DOMAIN db[t]
  BY <1>1 DEF Step, Inserted
<1>2. CASE k \in DOMAIN db[t]
  <2>1. t \in DOMAIN db /\ db[t] = [x \in DOMAIN db[t] |-> db[t][x]]
    BY DEF Ready, Good, Typed
  <2>2. db' = UpdateRow(db, t, k, row)
    BY <1>2, <2>1, InsertOverRow
  <2>3. QED BY <1>2, <2>2 DEF Step, Updated
<1>3. QED BY <1>1, <1>2

\* What is in the tables is of the right kind.
LEMMA FoundRow ==
  ASSUME Ready, NEW t \in IamTables, NEW k, Found(t, k)
  PROVE  k \in IdsOf(t) /\ db[t][k] \in RowsOf(t) /\ Sound(t, k, db[t][k])
BY DEF Ready, Good, Typed, Found

-----------------------------------------------------------------------------
(***************************************************************************)
(* Applications, users, groups, SSH keys.                                  *)
(***************************************************************************)

\* A row that refers to nothing is always accepted.
LEMMA PlainRowsFit ==
  ASSUME NEW t \in PlainTables, NEW k
  PROVE  t \in IamTables /\ PlainRow \in RowsOf(t) /\ Sound(t, k, PlainRow)
         /\ RowOK(IamKeys, db, t, PlainRow)
<1>1. t \notin DocumentTables \cup {"iam_rules", "iam_group_members"}
  BY IamSchema
<1>2. Sound(t, k, PlainRow) /\ RowOK(IamKeys, db, t, PlainRow)
  BY <1>1, IamKeysEnd DEF Sound, DocumentTables, RowOK
<1>3. QED BY <1>2, IamSchema

\* The INSERTs of rows that refer to nothing.
LEMMA PlainCreationsFit ==
  ASSUME NEW c \in Clients,
         CreateApplication(c) \/ CreateUser(c) \/ CreateGroup(c) \/ CreateSSHKey(c)
  PROVE  Fits(c)
<1>1. PICK t \in PlainTables : \E k \in IdsOf(t) : CreateSimple(IamKeys, c, t, k, PlainRow)
  BY IamSchema
     DEF CreateApplication, CreateUser, CreateGroup, CreateSSHKey, PlainTables
<1>2. PICK k \in IdsOf(t) : CreateSimple(IamKeys, c, t, k, PlainRow)
  BY <1>1
<1>3. QED BY <1>2, PlainRowsFit, InsertFits

\* Their look-ups before an update.
LEMMA PlainUpdatesFit ==
  ASSUME NEW c \in Clients,
         UpdateApplication(c) \/ UpdateUser(c) \/ UpdateGroup(c) \/ UpdateSSHKey(c)
  PROVE  Fits(c)
<1>1. PICK t \in PlainTables : \E k \in IdsOf(t) : Read(c, t, k, Rewrite(t, k))
  BY IamSchema
     DEF UpdateApplication, UpdateUser, UpdateGroup, UpdateSSHKey, PlainTables
<1>2. PICK k \in IdsOf(t) : Read(c, t, k, Rewrite(t, k))
  BY <1>1
<1>3. Rewrite(t, k) \in [at : {"WriteDoc"}, table : {t}, key : IdsOf(t)]
  BY DEF Rewrite
<1>4. Rewrite(t, k) \in Requests /\ LocalsSound(Rewrite(t, k))
  BY <1>3 DEF Requests, LocalsSound, Rewrite
<1>5. QED BY <1>2, <1>4, ReadFits

\* The answer with the members of a group is still to come.
LEMMA MembersLocals ==
  ASSUME NEW g \in Groups PROVE WithMembers(g) \in Requests /\ LocalsSound(WithMembers(g))
<1>1. WithMembers(g) \in [at : {"ReadGroup"}, group : Groups]
  BY DEF WithMembers
<1>2. WithMembers(g) \in Requests
  BY <1>1 DEF Requests
<1>3. LocalsSound(WithMembers(g))
  BY DEF WithMembers, LocalsSound
<1>4. QED BY <1>2, <1>3

\* Their UPDATEs.
LEMMA WriteDocFits ==
  ASSUME Ready, NEW c \in Clients, WriteDoc(c)
  PROVE  Fits(c)
<1> DEFINE r == req[c]
<1>1. r.table \in PlainTables /\ r.key \in IdsOf(r.table)
  BY LocalsTyped DEF WriteDoc, Ready
<1>2. issued' = issued /\ db' = UpdateRow(db, r.table, r.key, PlainRow)
  BY DEF WriteDoc
<1>3. Step(issued', db, db')
  <2>1. CASE Found(r.table, r.key)
    BY <1>1, <1>2, <2>1, PlainRowsFit DEF Step, Updated, Found
  <2>2. CASE ~Found(r.table, r.key)
    BY <1>2, <2>2 DEF UpdateRow, Found, Step
  <2>3. QED BY <2>1, <2>2
<1>4. Handled(c)
  <2>1. CASE \E status \in Statuses : Answer(c, status)
    BY <2>1, AnswersFit
  <2>2. CASE r.table = "iam_groups" /\ Continue(c, WithMembers(r.key))
    <3>1. WithMembers(r.key) \in Requests /\ LocalsSound(WithMembers(r.key))
      BY <1>1, <2>2, IamSchema, MembersLocals
    <3>2. QED BY <2>2, <3>1 DEF Handled, Continue
  <2>3. QED BY <2>1, <2>2, StatusesGiven DEF WriteDoc
<1>5. QED BY <1>2, <1>3, <1>4 DEF Fits

\* The row that answers a request about members.
LEMMA ReadGroupFits ==
  ASSUME NEW c \in Clients, ReadGroup(c)
  PROVE  Fits(c)
BY RefusalFits, StatusesGiven DEF ReadGroup

\* The DELETEs.
LEMMA DeletionsFit ==
  ASSUME NEW c \in Clients,
         \/ DeleteApplication(c) \/ DeleteUser(c) \/ DeleteGroup(c) \/ DeleteSSHKey(c)
         \/ DeleteKey(c) \/ DeletePolicy(c)
  PROVE  Fits(c)
BY DeleteFits
   DEF DeleteApplication, DeleteUser, DeleteGroup, DeleteSSHKey, DeleteKey, DeletePolicy,
       IamTables

-----------------------------------------------------------------------------
(***************************************************************************)
(* API keys and policies.                                                  *)
(***************************************************************************)

\* A key of an application or a user that exist, of both or of none.
LEMMA KeyRowsSound ==
  ASSUME NEW a \in Applications \cup {Null}, NEW u \in Users \cup {Null}, NEW k
  PROVE  KeyRow(a, u) \in RowsOf("iam_api_keys") /\ Sound("iam_api_keys", k, KeyRow(a, u))
<1>1. KeyRow(a, u) \in KeyRows
  BY DEF KeyRow, KeyRows
<1>2. Sound("iam_api_keys", k, KeyRow(a, u))
  BY DEF KeyRow, Sound
<1>3. QED BY <1>1, <1>2, IamSchema

\* The document of a new key says what its column says.
LEMMA KeyCreationFits ==
  ASSUME Ready, NEW c \in Clients, CreateKey(c) \/ InsertKey(c)
  PROVE  Fits(c)
<1>1. ASSUME NEW a \in Applications \cup {Null}, NEW u \in Users \cup {Null},
             NEW k \in ApiKeys,
             CreateSimple(IamKeys, c, "iam_api_keys", k, KeyRow(a, u))
      PROVE  Fits(c)
  <2>1. "iam_api_keys" \in IamTables /\ k \in IdsOf("iam_api_keys")
    BY IamSchema DEF IamTables
  <2>2. QED BY <1>1, <2>1, KeyRowsSound, InsertFits
<1>2. CASE InsertKey(c)
  <2>1. req[c].user \in Users
    BY <1>2, LocalsTyped DEF InsertKey, Ready
  <2>2. QED BY <1>1, <1>2, <2>1 DEF InsertKey
<1>3. CASE CreateKey(c)
  <2>1. CASE RejectKey(c)
    BY <2>1, RefusalFits, StatusesGiven DEF RejectKey
  <2>2. CASE \E a \in Applications : \E k \in ApiKeys :
               CreateSimple(IamKeys, c, "iam_api_keys", k, KeyRow(a, Null))
    BY <1>1, <2>2
  <2>3. CASE \E u \in Users : Read(c, "iam_users", u, [at |-> "InsertKey", user |-> u])
    <3>1. \A u \in Users : [at |-> "InsertKey", user |-> u] \in Requests
      BY DEF Requests
    <3>2. \A u : LocalsSound([at |-> "InsertKey", user |-> u])
      BY DEF LocalsSound
    <3>3. QED BY <2>3, <3>1, <3>2, ReadFits
  <2>4. QED BY <1>3, <2>1, <2>2, <2>3 DEF CreateKey
<1>4. QED BY <1>2, <1>3

\* Locals of handlers that will write a key or a policy back.
LEMMA WriteRowLocals ==
  ASSUME NEW t \in DocumentTables, NEW k \in IdsOf(t), NEW row \in RowsOf(t), Sound(t, k, row)
  PROVE  LET r == [at |-> "WriteRow", table |-> t, key |-> k, row |-> row]
         IN  r \in Requests /\ LocalsSound(r)
<1> DEFINE r == [at |-> "WriteRow", table |-> t, key |-> k, row |-> row]
<1>1. r \in [at : {"WriteRow"}, table : {t}, key : IdsOf(t), row : RowsOf(t)]
  OBVIOUS
<1>2. r \in Requests
  BY <1>1 DEF Requests, DocumentTables
<1>3. LocalsSound(r)
  BY DEF LocalsSound
<1>4. QED BY <1>2, <1>3

\* The handler that will write a key back holds a sound row.
LEMMA KeyReadsFit ==
  ASSUME Ready, NEW c \in Clients, ReadKey(c)
  PROVE  Fits(c)
<1>1. PICK k \in ApiKeys, a \in Applications \cup {Null}, u \in Users \cup {Null} :
        Read(c, "iam_api_keys", k, [at |-> "WriteRow", table |-> "iam_api_keys", key |-> k,
                                    row |-> KeyRow(a, u)])
  BY DEF ReadKey
<1>2. "iam_api_keys" \in DocumentTables /\ k \in IdsOf("iam_api_keys")
  BY IamSchema DEF DocumentTables
<1>3. QED BY <1>1, <1>2, KeyRowsSound, WriteRowLocals, ReadFits

\* A policy of an application that exists, or of none.
LEMMA PolicyRowsSound ==
  ASSUME NEW a \in Applications \cup {Null}, NEW k
  PROVE  PolicyRow(a) \in RowsOf("iam_policies") /\ Sound("iam_policies", k, PolicyRow(a))
<1>1. PolicyRow(a) \in PolicyRows
  BY DEF PolicyRow, PolicyRows
<1>2. Sound("iam_policies", k, PolicyRow(a))
  BY DEF PolicyRow, Sound
<1>3. QED BY <1>1, <1>2, IamSchema

\* So does the one that will write a policy back, with its application changed or not.
LEMMA PolicyReadsFit ==
  ASSUME Ready, NEW c \in Clients, ReadPolicy(c)
  PROVE  Fits(c)
<1>1. PICK p \in Policies, a \in Applications \cup {Null} :
        Read(c, "iam_policies", p, [at |-> "WriteRow", table |-> "iam_policies", key |-> p,
                                    row |-> PolicyRow(a)])
  BY DEF ReadPolicy
<1>2. "iam_policies" \in DocumentTables /\ p \in IdsOf("iam_policies")
  BY IamSchema DEF DocumentTables
<1>3. QED BY <1>1, <1>2, PolicyRowsSound, WriteRowLocals, ReadFits

\* The UPDATE of a key or a policy, column and document alike.
LEMMA WriteRowFits ==
  ASSUME Ready, NEW c \in Clients, WriteRow(c)
  PROVE  Fits(c)
<1> DEFINE r == req[c]
<1>1. /\ r.table \in DocumentTables /\ r.key \in IdsOf(r.table) /\ r.row \in RowsOf(r.table)
      /\ r.table \in IamTables
  BY LocalsTyped DEF WriteRow, Ready, DocumentTables, IamTables
<1>2. Sound(r.table, r.key, r.row)
  BY DEF WriteRow, Ready, LocalsSound
<1>3. issued' = issued
  BY DEF WriteRow
<1>4. CASE UNCHANGED db /\ Answer(c, "not_found")
  BY <1>3, <1>4, RefusalFits, StatusesGiven
<1>5. CASE WriteRowOK(r) /\ db' = UpdateRow(db, r.table, r.key, r.row) /\ Answer(c, "ok")
  <2>1. CASE Found(r.table, r.key)
    <3>1. RowOK(IamKeys, db, r.table, r.row) /\ r.key \in DOMAIN db[r.table]
      BY <1>5, <2>1 DEF WriteRowOK, Found
    <3>2. Updated(db, db')
      BY <1>1, <1>2, <1>5, <3>1 DEF Updated
    <3>3. QED BY <1>3, <1>5, <3>2, AnswersFit, StatusesGiven DEF Fits, Step
  <2>2. CASE ~Found(r.table, r.key)
    <3>1. UNCHANGED db
      BY <1>5, <2>2 DEF UpdateRow, Found
    <3>2. QED BY <1>3, <1>5, <3>1, RefusalFits, StatusesGiven
  <2>3. QED BY <2>1, <2>2
<1>6. QED BY <1>4, <1>5 DEF WriteRow

-----------------------------------------------------------------------------
(***************************************************************************)
(* Rules.                                                                  *)
(***************************************************************************)

\* The loop over the rules of a policy goes on, or is at its end.
LEMMA LoopLocals ==
  ASSUME NEW p \in Policies, NEW n \in 0..MaxListed
  PROVE  RuleLoop(p, n) \in Requests /\ LocalsSound(RuleLoop(p, n))
<1>1. CASE n = 0
  BY <1>1, StatusesGiven DEF RuleLoop, Answered, Requests, LocalsSound
<1>2. CASE n # 0
  <2>1. n \in 1..MaxListed
    BY <1>2, MaxListedIsNat
  <2>2. RuleLoop(p, n) = [at |-> "InsertRule", policy |-> p, todo |-> n]
    BY <1>2 DEF RuleLoop
  <2>3. RuleLoop(p, n) \in [at : {"InsertRule"}, policy : Policies, todo : 1..MaxListed]
    BY <2>1, <2>2
  <2>4. RuleLoop(p, n) \in Requests
    BY <2>3 DEF Requests
  <2>5. LocalsSound(RuleLoop(p, n))
    BY <2>2 DEF LocalsSound
  <2>6. QED BY <2>4, <2>5
<1>3. QED BY <1>1, <1>2

\* Every row of a rule is sound.
LEMMA RuleRowsSound ==
  ASSUME NEW p \in Policies, NEW k
  PROVE  RuleRow(p) \in RowsOf("iam_rules") /\ Sound("iam_rules", k, RuleRow(p))
BY IamSchema DEF RuleRow, Sound, DocumentTables

\* The INSERT of a policy, and on to its rules.
LEMMA CreatePolicyFits ==
  ASSUME Ready, NEW c \in Clients, CreatePolicy(c)
  PROVE  Fits(c)
<1>1. PICK p \in Policies : \E a \in Applications \cup {Null}, n \in 0..MaxListed :
        /\ issued' = issued \cup {p}
        /\ \/ /\ RowOK(IamKeys, db, "iam_policies", PolicyRow(a))
              /\ db' = InsertRow(db, "iam_policies", p, PolicyRow(a))
              /\ Continue(c, RuleLoop(p, n))
           \/ Answer(c, "not_found") /\ UNCHANGED db
  BY DEF CreatePolicy
<1>2. issued \subseteq issued'
  BY <1>1
<1>3. CASE UNCHANGED db /\ Answer(c, "not_found")
  BY <1>2, <1>3, RefusalFits, StatusesGiven
<1>4. CASE \E a \in Applications \cup {Null}, n \in 0..MaxListed :
             /\ RowOK(IamKeys, db, "iam_policies", PolicyRow(a))
             /\ db' = InsertRow(db, "iam_policies", p, PolicyRow(a))
             /\ Continue(c, RuleLoop(p, n))
  <2>1. "iam_policies" \in IamTables /\ p \in IdsOf("iam_policies")
    BY IamSchema DEF IamTables
  <2>2. Step(issued', db, db')
    BY <1>4, <2>1, PolicyRowsSound, WritingIsStep
  <2>3. Handled(c)
    BY <1>4, LoopLocals DEF Handled, Continue
  <2>4. QED BY <1>2, <2>2, <2>3 DEF Fits
<1>5. QED BY <1>1, <1>3, <1>4

\* The next rule of the list, or an answer if its policy has gone.
LEMMA InsertRuleFits ==
  ASSUME Ready, NEW c \in Clients, InsertRule(c)
  PROVE  Fits(c)
<1> DEFINE r == req[c]
<1>1. r.policy \in Policies /\ r.todo \in 1..MaxListed
  BY LocalsTyped DEF InsertRule, Ready
<1>2. PICK k \in Rules \ issued :
        /\ issued' = issued \cup {k}
        /\ \/ /\ RowOK(IamKeys, db, "iam_rules", RuleRow(r.policy))
              /\ db' = InsertRow(db, "iam_rules", k, RuleRow(r.policy))
              /\ Continue(c, RuleLoop(r.policy, r.todo - 1))
           \/ Answer(c, "not_found") /\ UNCHANGED db
  BY DEF InsertRule
<1>3. issued \subseteq issued' /\ k \in issued'
  BY <1>2
<1>4. CASE UNCHANGED db /\ Answer(c, "not_found")
  BY <1>3, <1>4, RefusalFits, StatusesGiven
<1>5. CASE /\ RowOK(IamKeys, db, "iam_rules", RuleRow(r.policy))
           /\ db' = InsertRow(db, "iam_rules", k, RuleRow(r.policy))
           /\ Continue(c, RuleLoop(r.policy, r.todo - 1))
  <2>1. "iam_rules" \in IamTables /\ k \in IdsOf("iam_rules")
    BY IamSchema DEF IamTables
  <2>2. Step(issued', db, db')
    BY <1>1, <1>3, <1>5, <2>1, RuleRowsSound, WritingIsStep
  <2>3. r.todo - 1 \in 0..MaxListed
    BY <1>1, MaxListedIsNat
  <2>4. Handled(c)
    BY <1>1, <1>5, <2>3, LoopLocals DEF Handled, Continue
  <2>5. QED BY <1>3, <2>2, <2>4 DEF Fits
<1>6. QED BY <1>2, <1>4, <1>5

\* A rule on its own.
LEMMA CreateRuleFits ==
  ASSUME NEW c \in Clients, CreateRule(c)
  PROVE  Fits(c)
<1>1. "iam_rules" \in IamTables /\ IdsOf("iam_rules") = Rules
  BY IamSchema DEF IamTables
<1>2. QED BY <1>1, RuleRowsSound, InsertFits DEF CreateRule

\* The look-up before rules are replaced.
LEMMA BeginSetRulesFits ==
  ASSUME NEW c \in Clients, BeginSetRules(c)
  PROVE  Fits(c)
<1>1. PICK p \in Policies : \E n \in 0..MaxListed :
        Read(c, "iam_policies", p, [at |-> "SetRules", policy |-> p, todo |-> n])
  BY DEF BeginSetRules
<1>2. PICK n \in 0..MaxListed :
        Read(c, "iam_policies", p, [at |-> "SetRules", policy |-> p, todo |-> n])
  BY <1>1
<1> DEFINE r == [at |-> "SetRules", policy |-> p, todo |-> n]
<1>3. r \in [at : {"SetRules"}, policy : Policies, todo : 0..MaxListed]
  OBVIOUS
<1>4. r \in Requests /\ LocalsSound(r)
  BY <1>3 DEF Requests, LocalsSound
<1>5. QED BY <1>2, <1>4, ReadFits

\* Nothing belongs to what is not there, and nothing takes the place of nothing.
LEMMA NothingIsReplaced ==
  ASSUME Ready, NEW ref \in ReplacedLists, NEW owner, owner \notin DOMAIN db[ref.parent],
         owner # Null, NEW new, DOMAIN new = {}
  PROVE  Exchanged(db, ref, owner, new) = db
<1>1. ref \in IamKeys /\ ref.child \in IamTables
  BY IamKeysEnd DEF ReplacedLists, IamTables, DocumentTables
<1>2. DOMAIN db = IamTables /\ db[ref.child] = [x \in DOMAIN db[ref.child] |-> db[ref.child][x]]
      /\ db = [t \in DOMAIN db |-> db[t]]
  BY <1>1 DEF Ready, Good, Typed
<1>3. Belonging(db, ref, owner) = {}
  BY <1>1 DEF Belonging, Ready, Good, RefIntegrity
<1>4. Replaced(db[ref.child], Belonging(db, ref, owner), new) = db[ref.child]
  BY <1>2, <1>3 DEF Replaced
<1>5. QED BY <1>2, <1>4 DEF Exchanged

\* The rules of one policy are replaced in one transaction.
LEMMA SetRulesFits ==
  ASSUME Ready, NEW c \in Clients, SetRules(c)
  PROVE  Fits(c)
<1> DEFINE r == req[c]
           p == r.policy
<1>1. p \in Policies /\ r.todo \in 0..MaxListed
  BY LocalsTyped DEF SetRules, Ready
<1>2. CASE UNCHANGED <<db, issued>> /\ Answer(c, "error")
  BY <1>2, RefusalFits, StatusesGiven
<1>3. CASE /\ r.todo > 0 => Found("iam_policies", p)
           /\ \E ids \in SUBSET (Rules \ issued) :
                /\ IsFiniteSet(ids) /\ Cardinality(ids) = r.todo
                /\ issued' = issued \cup ids
                /\ db' = [db EXCEPT !["iam_rules"] =
                            Replaced(@, RulesOf(p), [k \in ids |-> RuleRow(p)])]
           /\ Answer(c, "ok")
  <2>1. PICK ids \in SUBSET (Rules \ issued) :
                /\ IsFiniteSet(ids) /\ Cardinality(ids) = r.todo
                /\ issued' = issued \cup ids
                /\ db' = [db EXCEPT !["iam_rules"] =
                            Replaced(@, RulesOf(p), [k \in ids |-> RuleRow(p)])]
    BY <1>3
  <2>2. PICK ref \in IamKeys : ref.child = "iam_rules" /\ ref.col = "policy_id"
                               /\ ref.parent = "iam_policies"
    BY IamKeysGiven
  <2> DEFINE new == [k \in ids |-> RuleRow(p)]
  <2>3. ref \in ReplacedLists
    BY <2>2 DEF ReplacedLists
  <2>4. RulesOf(p) = Belonging(db, ref, p) /\ DOMAIN new = ids
        /\ \A x \in ids : new[x] = RuleRow(p)
    BY <2>2 DEF RulesOf, Belonging
  <2>5. db' = Exchanged(db, ref, p, new)
    BY <2>1, <2>2, <2>4 DEF Exchanged
  <2> HIDE DEF new
  <2>6. CASE Found("iam_policies", p)
    <3>1. ids \cap DOMAIN db["iam_rules"] = {} /\ ids \subseteq issued'
      BY <2>1 DEF Ready, Drawn
    <3>2. RowOK(IamKeys, db, "iam_rules", RuleRow(p)) /\ RuleRow(p).policy_id = p
      BY <2>6, IamKeysEnd DEF RowOK, RuleRow, Found
    <3>3. \A x \in ids : x \in IdsOf("iam_rules")
      BY IamSchema
    <3>4. Fitting(issued', db, ref, p, new)
      BY <1>1, <2>2, <2>4, <3>1, <3>2, <3>3, RuleRowsSound DEF Fitting
    <3>5. p \in DOMAIN db[ref.parent]
      BY <2>2, <2>6 DEF Found
    <3>6. ListReplaced(issued', db, db')
      BY <2>3, <2>5, <3>4, <3>5 DEF ListReplaced
    <3>7. issued \subseteq issued'
      BY <2>1
    <3>8. QED BY <1>3, <3>6, <3>7, AnswersFit, StatusesGiven DEF Fits, Step
  <2>7. CASE ~Found("iam_policies", p)
    <3>1. r.todo = 0
      BY <1>1, <1>3, <2>7, MaxListedIsNat
    <3>2. ids = {}
      BY <2>1, <3>1, FS_EmptySet
    <3>3. UNCHANGED <<db, issued>>
      <4>1. p # Null /\ p \notin DOMAIN db[ref.parent]
        BY <1>1, <2>2, <2>7, IamIdsAreNotNull DEF Found
      <4>2. QED BY <2>1, <2>3, <2>4, <2>5, <3>2, <4>1, NothingIsReplaced
    <3>4. QED BY <1>3, <3>3, RefusalFits, StatusesGiven
  <2>8. QED BY <2>6, <2>7
<1>4. QED BY <1>2, <1>3 DEF SetRules

-----------------------------------------------------------------------------
(***************************************************************************)
(* Members of groups.                                                      *)
(***************************************************************************)
\* Every row of a membership says what its key says.
LEMMA MemberRowsSound ==
  ASSUME NEW g \in Groups, NEW u \in Users
  PROVE  /\ "iam_group_members" \in IamTables /\ <<g, u>> \in IdsOf("iam_group_members")
         /\ MemberRow(g, u) \in RowsOf("iam_group_members")
         /\ Sound("iam_group_members", <<g, u>>, MemberRow(g, u))
<1>1. MemberRow(g, u) \in [group_id : Groups, user_id : Users]
  BY DEF MemberRow
<1>2. Sound("iam_group_members", <<g, u>>, MemberRow(g, u))
  BY DEF Sound, DocumentTables
<1>3. QED BY <1>1, <1>2, IamSchema DEF IamTables

\* A member is added, unless it is one.
LEMMA AddMemberFits ==
  ASSUME Ready, NEW c \in Clients, AddMember(c)
  PROVE  Fits(c)
<1>1. PICK g \in Groups : \E u \in Users :
        \/ /\ RowOK(IamKeys, db, "iam_group_members", MemberRow(g, u))
           /\ db' = InsertRow(db, "iam_group_members", <<g, u>>, MemberRow(g, u))
           /\ Continue(c, WithMembers(g))
        \/ Answer(c, "not_found") /\ UNCHANGED db
  BY DEF AddMember
<1>2. PICK u \in Users :
        \/ /\ RowOK(IamKeys, db, "iam_group_members", MemberRow(g, u))
           /\ db' = InsertRow(db, "iam_group_members", <<g, u>>, MemberRow(g, u))
           /\ Continue(c, WithMembers(g))
        \/ Answer(c, "not_found") /\ UNCHANGED db
  BY <1>1
<1>3. issued' = issued
  BY DEF AddMember
<1>4. CASE UNCHANGED db /\ Answer(c, "not_found")
  BY <1>3, <1>4, RefusalFits, StatusesGiven
<1>5. CASE /\ RowOK(IamKeys, db, "iam_group_members", MemberRow(g, u))
           /\ db' = InsertRow(db, "iam_group_members", <<g, u>>, MemberRow(g, u))
           /\ Continue(c, WithMembers(g))
  <2>1. Step(issued', db, db')
    BY <1>5, MemberRowsSound, WritingIsStep
  <2>2. Handled(c)
    BY <1>5, MembersLocals DEF Handled, Continue
  <2>3. QED BY <1>3, <2>1, <2>2 DEF Fits
<1>6. QED BY <1>2, <1>4, <1>5

\* A membership that is not there takes nothing with it.
LEMMA NothingRemoved ==
  ASSUME Ready, NEW k, k \notin DOMAIN db["iam_group_members"]
  PROVE  DeleteRow(IamKeys, db, "iam_group_members", k) = db
<1> DEFINE e == DeleteRow(IamKeys, db, "iam_group_members", k)
<1>1. \A fk \in IamKeys : fk.parent # "iam_group_members"
  BY IamKeysEnd
<1>2. \A t \in IamTables : Doomed(IamKeys, db, "iam_group_members", k, t) = {}
  BY <1>1 DEF Doomed
<1>3. DOMAIN e = DOMAIN db /\ e = [t \in DOMAIN e |-> e[t]]
      /\ \A t \in DOMAIN e : e[t] = [x \in DOMAIN e[t] |-> e[t][x]]
  BY DEF DeleteRow
<1>4. Good(db) /\ DOMAIN db = IamTables /\ db = [t \in DOMAIN db |-> db[t]]
      /\ \A t \in DOMAIN db : db[t] = [x \in DOMAIN db[t] |-> db[t][x]]
  BY DEF Ready, Good, Typed
<1>5. \A t \in IamTables : DOMAIN e[t] = DOMAIN db[t]
                          /\ \A x \in DOMAIN db[t] : e[t][x] = db[t][x]
  <2>1. ASSUME NEW t \in IamTables
        PROVE  DOMAIN e[t] = DOMAIN db[t] /\ \A x \in DOMAIN db[t] : e[t][x] = db[t][x]
    <3>1. /\ DOMAIN e[t] = DOMAIN db[t] \ Doomed(IamKeys, db, "iam_group_members", k, t)
          /\ \A x \in DOMAIN e[t] : e[t][x] = db[t][x]
      BY <1>4, DeleteTakesAway
    <3> HIDE DEF e
    <3>2. QED BY <1>2, <3>1
  <2>2. QED BY <2>1
<1> HIDE DEF e
<1>6. \A t \in IamTables : e[t] = db[t]
  BY <1>3, <1>4, <1>5
<1>7. e = db
  BY <1>3, <1>4, <1>6
<1>8. QED BY <1>7 DEF e

\* A member is removed, or was none.
LEMMA RemoveMemberFits ==
  ASSUME Ready, NEW c \in Clients, RemoveMember(c)
  PROVE  Fits(c)
<1>1. PICK g \in Groups : \E u \in Users :
        /\ db' = DeleteRow(IamKeys, db, "iam_group_members", <<g, u>>)
        /\ Continue(c, WithMembers(g))
  BY DEF RemoveMember
<1>2. PICK u \in Users :
        /\ db' = DeleteRow(IamKeys, db, "iam_group_members", <<g, u>>)
        /\ Continue(c, WithMembers(g))
  BY <1>1
<1> DEFINE k == <<g, u>>
<1>3. \A fk \in IamKeys : fk.parent # "iam_group_members"
  BY IamKeysEnd
<1>4. Step(issued', db, db')
  <2>1. CASE k \in DOMAIN db["iam_group_members"]
    <3>1. ~Blocked(IamKeys, db, "iam_group_members", k)
      BY <1>3 DEF Blocked
    <3>2. Deleted(db, db')
      BY <1>2, <2>1, <3>1, MemberRowsSound DEF Deleted
    <3>3. QED BY <3>2 DEF Step
  <2>2. CASE k \notin DOMAIN db["iam_group_members"]
    <3>1. db' = db
      BY <1>2, <2>2, NothingRemoved
    <3>2. QED BY <3>1 DEF Step
  <2>3. QED BY <2>1, <2>2
<1>5. Handled(c)
  BY <1>2, MembersLocals DEF Handled, Continue
<1>6. QED BY <1>4, <1>5 DEF Fits, RemoveMember

\* Of a list that is accepted, every member is.
LEMMA ListedRows ==
  ASSUME NEW g \in Groups, NEW list \in Lists(Users),
         {x \in DOMAIN list : InsertFails(g, list, x)} = {}
  PROVE  /\ \A k \in DOMAIN MemberRows(g, list) : \E u \in Users :
              /\ k = <<g, u>> /\ MemberRows(g, list)[k] = MemberRow(g, u)
              /\ RowOK(IamKeys, db, "iam_group_members", MemberRow(g, u))
         /\ DOMAIN MemberRows(g, list) # {} => g \in DOMAIN db["iam_groups"]
<1>1. PICK n \in 0..MaxListed : list \in [1..n -> Users]
  BY DEF Lists
<1>2. \A x \in DOMAIN list : /\ list[x] \in Users
                             /\ RowOK(IamKeys, db, "iam_group_members", MemberRow(g, list[x]))
  BY <1>1 DEF InsertFails
<1>3. /\ DOMAIN MemberRows(g, list) = {<<g, list[x]>> : x \in DOMAIN list}
      /\ \A k \in DOMAIN MemberRows(g, list) : MemberRows(g, list)[k] = MemberRow(g, k[2])
  BY DEF MemberRows
<1>4. ASSUME NEW k \in DOMAIN MemberRows(g, list)
      PROVE  /\ g \in DOMAIN db["iam_groups"]
             /\ \E u \in Users :
                  /\ k = <<g, u>> /\ MemberRows(g, list)[k] = MemberRow(g, u)
                  /\ RowOK(IamKeys, db, "iam_group_members", MemberRow(g, u))
  <2>1. PICK x \in DOMAIN list : k = <<g, list[x]>>
    BY <1>3
  <2>2. list[x] \in Users /\ RowOK(IamKeys, db, "iam_group_members", MemberRow(g, list[x]))
    BY <1>2
  <2>3. MemberRows(g, list)[k] = MemberRow(g, list[x])
    BY <1>3, <2>1
  <2>4. MemberRow(g, list[x]).group_id = g /\ g # Null
    BY IamIdsAreNotNull DEF MemberRow
  <2>5. g \in DOMAIN db["iam_groups"]
    BY <2>2, <2>4, IamKeysGiven DEF RowOK
  <2>6. QED BY <2>1, <2>2, <2>3, <2>5
<1>5. QED BY <1>4

\* The memberships of a group are those whose column says so.
LEMMA MembersListed ==
  ASSUME Ready, NEW g
  PROVE  \E ref \in ReplacedLists :
           /\ ref.child = "iam_group_members" /\ ref.col = "group_id"
           /\ ref.parent = "iam_groups"
           /\ MembersOf(g) = Belonging(db, ref, g)
<1>1. PICK ref \in IamKeys : ref.child = "iam_group_members" /\ ref.col = "group_id"
                             /\ ref.parent = "iam_groups"
  BY IamKeysGiven
<1>2. \A k \in DOMAIN db["iam_group_members"] :
        db["iam_group_members"][k] = MemberRow(k[1], k[2])
  BY DEF Ready, Good, Typed, Sound, IamTables
<1>3. ASSUME NEW k \in DOMAIN db["iam_group_members"]
      PROVE  db[ref.child][k][ref.col] = k[1]
  <2>1. db["iam_group_members"][k] = [group_id |-> k[1], user_id |-> k[2]]
    BY <1>2 DEF MemberRow
  <2>2. db["iam_group_members"][k]["group_id"] = k[1]
    BY <2>1
  <2>3. QED BY <1>1, <2>2
<1>4. DOMAIN db[ref.child] = DOMAIN db["iam_group_members"]
  BY <1>1
<1>5. MembersOf(g) = Belonging(db, ref, g)
  BY <1>3, <1>4 DEF MembersOf, Belonging
<1>6. QED BY <1>1, <1>5 DEF ReplacedLists

\* A list that is accepted for a group that is not there is empty, and replaces nothing.
LEMMA AbsentGroupsHaveNoMembers ==
  ASSUME Ready, NEW g \in Groups, g \notin DOMAIN db["iam_groups"],
         NEW list \in Lists(Users), {x \in DOMAIN list : InsertFails(g, list, x)} = {}
  PROVE  [db EXCEPT !["iam_group_members"] =
            Replaced(@, MembersOf(g), MemberRows(g, list))] = db
<1> DEFINE new == MemberRows(g, list)
<1>1. PICK ref \in ReplacedLists :
        /\ ref.child = "iam_group_members" /\ ref.parent = "iam_groups"
        /\ MembersOf(g) = Belonging(db, ref, g)
  BY MembersListed
<1>2. DOMAIN new = {} /\ g # Null
  BY ListedRows, IamIdsAreNotNull
<1> HIDE DEF new
<1>3. Exchanged(db, ref, g, new) = db
  BY <1>1, <1>2, NothingIsReplaced
<1>4. QED BY <1>1, <1>3 DEF Exchanged, new

\* The members of one group are replaced in one transaction.
LEMMA SetMembersFits ==
  ASSUME Ready, NEW c \in Clients, SetMembers(c)
  PROVE  Fits(c)
<1>1. issued' = issued
  BY DEF SetMembers
<1>2. CASE UNCHANGED db /\ \E status \in Statuses : Answer(c, status)
  BY <1>1, <1>2, RefusalFits
<1>3. ASSUME NEW g \in Groups, NEW list \in Lists(Users),
             {x \in DOMAIN list : InsertFails(g, list, x)} = {},
             db' = [db EXCEPT !["iam_group_members"] =
                      Replaced(@, MembersOf(g), MemberRows(g, list))],
             Continue(c, WithMembers(g))
      PROVE  Fits(c)
  <2>1. PICK ref \in ReplacedLists :
          /\ ref.child = "iam_group_members" /\ ref.col = "group_id"
          /\ ref.parent = "iam_groups"
          /\ MembersOf(g) = Belonging(db, ref, g)
    BY MembersListed
  <2> DEFINE new == MemberRows(g, list)
  <2>5. db' = Exchanged(db, ref, g, new)
    BY <1>3, <2>1 DEF Exchanged
  <2>6. /\ \A k \in DOMAIN new : \E u \in Users :
              /\ k = <<g, u>> /\ new[k] = MemberRow(g, u)
              /\ RowOK(IamKeys, db, "iam_group_members", MemberRow(g, u))
        /\ DOMAIN new # {} => g \in DOMAIN db["iam_groups"]
    BY <1>3, ListedRows
  <2> HIDE DEF new
  <2>7. Step(issued', db, db')
    <3>1. CASE g \in DOMAIN db["iam_groups"]
      <4>1. ASSUME NEW k \in DOMAIN new
            PROVE  /\ k \in IdsOf("iam_group_members")
                   /\ new[k] \in RowsOf("iam_group_members")
                   /\ Sound("iam_group_members", k, new[k])
                   /\ RowOK(IamKeys, db, "iam_group_members", new[k])
                   /\ new[k].group_id = g
                   /\ k[1] = g
        <5>1. PICK u \in Users :
                /\ k = <<g, u>> /\ new[k] = MemberRow(g, u)
                /\ RowOK(IamKeys, db, "iam_group_members", MemberRow(g, u))
          BY <2>6
        <5>2. QED BY <5>1, MemberRowsSound DEF MemberRow
      <4>2. \A k \in DOMAIN db["iam_group_members"] : k[1] = g => k \in Belonging(db, ref, g)
        BY <2>1 DEF MembersOf
      <4>3. DOMAIN new \cap (DOMAIN db[ref.child] \ Belonging(db, ref, g)) = {}
        BY <2>1, <4>1, <4>2
      <4>4. Fitting(issued', db, ref, g, new)
        BY <2>1, <4>1, <4>3 DEF Fitting
      <4>5. ListReplaced(issued', db, db')
        BY <2>1, <2>5, <3>1, <4>4 DEF ListReplaced
      <4>6. QED BY <4>5 DEF Step
    <3>2. CASE g \notin DOMAIN db["iam_groups"]
      <4>1. db' = db
        BY <1>3, <3>2, AbsentGroupsHaveNoMembers
      <4>2. QED BY <4>1 DEF Step
    <3>3. QED BY <3>1, <3>2
  <2>8. Handled(c)
    BY <1>3, MembersLocals DEF Handled, Continue
  <2>9. QED BY <1>1, <2>7, <2>8 DEF Fits
<1>4. PICK g \in Groups : \E list \in Lists(Users) :
        LET failing == {x \in DOMAIN list : InsertFails(g, list, x)} IN
        \/ /\ failing = {}
           /\ db' = [db EXCEPT !["iam_group_members"] =
                       Replaced(@, MembersOf(g), MemberRows(g, list))]
           /\ Continue(c, WithMembers(g))
        \/ UNCHANGED db /\ \E status \in Statuses : Answer(c, status)
  BY StatusesGiven DEF SetMembers
<1>5. QED BY <1>2, <1>3, <1>4

-----------------------------------------------------------------------------
(***************************************************************************)
(* The invariant and what follows from it.                                 *)
(***************************************************************************)

\* Every action, of a handler that begins or goes on.
LEMMA ActionsFit ==
  ASSUME Ready, NEW c \in Clients, Arrive(c) \/ Proceed(c)
  PROVE  Fits(c)
<1>1. CASE Arrive(c)
  BY <1>1, PlainCreationsFit, PlainUpdatesFit, DeletionsFit, KeyCreationFits, KeyReadsFit,
     CreatePolicyFits, PolicyReadsFit, CreateRuleFits, BeginSetRulesFits, AddMemberFits,
     RemoveMemberFits, SetMembersFits DEF Arrive
<1>2. CASE Proceed(c)
  BY <1>2, WriteDocFits, ReadGroupFits, KeyCreationFits, WriteRowFits, InsertRuleFits,
     SetRulesFits DEF Proceed
<1>3. QED BY <1>1, <1>2

\* No row, no request in progress.
LEMMA InitFits == Init => IInv
<1>1. SUFFICES ASSUME Init PROVE IInv
  OBVIOUS
<1>2. /\ DOMAIN db = IamTables /\ \A t \in IamTables : db[t] = EmptyTable
      /\ db = [t \in DOMAIN db |-> db[t]]
  BY <1>1 DEF Init
<1>3. \A t \in IamTables : DOMAIN db[t] = {} /\ db[t] = [k \in DOMAIN db[t] |-> db[t][k]]
  BY <1>2 DEF EmptyTable
<1>4. Typed(db)
  BY <1>2, <1>3 DEF Typed
<1>5. RefIntegrity(IamKeys, db)
  BY <1>3, IamLayout, <1>4 DEF RefIntegrity, LaidOutFor, Typed
<1>6. Drawn(issued, db)
  BY <1>3 DEF Drawn, IamTables
<1>7. Answered("ok") \in Requests /\ LocalsSound(Answered("ok"))
  BY StatusesGiven DEF Answered, Requests, LocalsSound
<1>8. req \in [Clients -> Requests] /\ \A c \in Clients : LocalsSound(req[c])
  BY <1>1, <1>7 DEF Init
<1>9. QED BY <1>4, <1>5, <1>6, <1>8 DEF IInv, Good

\* Every step keeps it.
LEMMA StepKeepsInvariant == IInv /\ [Next]_vars => IInv'
<1>1. SUFFICES ASSUME IInv, [Next]_vars PROVE IInv'
  OBVIOUS
<1>2. CASE UNCHANGED vars
  BY <1>1, <1>2 DEF vars, IInv, Good, Typed, RefIntegrity, Drawn
<1>3. CASE Next
  <2>1. PICK c \in Clients : Arrive(c) \/ Proceed(c)
    BY <1>3 DEF Next
  <2>2. QED BY <1>1, <2>1, ActionsFit, FittingKeepsInvariant DEF IInv, Ready
<1>4. QED BY <1>1, <1>2, <1>3

\* Rows are sound and refer to what is there, and so do the rows that handlers hold.
THEOREM IamInvariant == Spec => []IInv
BY InitFits, StepKeepsInvariant, PTL DEF Spec

\* Every table holds well-formed rows under keys of its own kind, a membership is stored
\* under its group and user, and every handler is at a statement it can be at.
THEOREM IamTypeCorrect == Spec => []IamTypeOK
<1>1. IInv => IamTypeOK
  BY DEF IInv, Good, Typed, Sound, IamTypeOK, IamTables
<1>2. QED BY <1>1, IamInvariant, PTL

\* The application that the document of a key or a policy names exists.
THEOREM IamDocumentsStayLive == Spec => []IamDocumentsAreLive
<1>1. ASSUME IInv, NEW t \in DocumentTables, NEW k \in DOMAIN db[t]
      PROVE  db[t][k].application \in DOMAIN db["iam_applications"] \cup {Null}
  <2>1. db[t][k].application = db[t][k].application_id
    BY <1>1 DEF IInv, Good, Typed, Sound, IamTables, DocumentTables
  <2>2. \E fk \in IamKeys : fk.child = t /\ fk.col = "application_id"
                            /\ fk.parent = "iam_applications"
    BY IamKeysGiven DEF DocumentTables
  <2>3. db[t][k].application_id \in DOMAIN db["iam_applications"] \cup {Null}
    BY <1>1, <2>2 DEF IInv, Good, RefIntegrity
  <2>4. QED BY <2>1, <2>3
<1>2. IInv => IamDocumentsAreLive
  BY <1>1 DEF IamDocumentsAreLive, DocumentTables
<1>3. QED BY <1>2, IamInvariant, PTL

-----------------------------------------------------------------------------
(***************************************************************************)
(* Policies that are created with rules.                                   *)
(***************************************************************************)

\* A handler that is in the loop over the rules goes on with it, and one that is to answer
\* with a group reads it, whatever else there is to do for a request.
LEMMA OnlyTheNextStatement ==
  ASSUME NEW c \in Clients, Arrive(c) \/ Proceed(c)
  PROVE  /\ req[c].at = "InsertRule" => InsertRule(c)
         /\ req[c].at = "ReadGroup" => ReadGroup(c)
<1> SUFFICES ASSUME req[c].at \in {"InsertRule", "ReadGroup"}
             PROVE  IF req[c].at = "InsertRule" THEN InsertRule(c) ELSE ReadGroup(c)
  OBVIOUS
<1>1. ~Idle(c)
  BY DEF Idle
<1>2. ~(\/ CreateApplication(c) \/ UpdateApplication(c) \/ DeleteApplication(c)
        \/ CreateUser(c) \/ UpdateUser(c) \/ DeleteUser(c)
        \/ CreateGroup(c) \/ UpdateGroup(c) \/ DeleteGroup(c)
        \/ CreateSSHKey(c) \/ UpdateSSHKey(c) \/ DeleteSSHKey(c))
  BY <1>1 DEF CreateApplication, UpdateApplication, DeleteApplication, CreateUser, UpdateUser,
     DeleteUser, CreateGroup, UpdateGroup, DeleteGroup, CreateSSHKey, UpdateSSHKey, DeleteSSHKey
<1>3. ~(\/ CreateKey(c) \/ ReadKey(c) \/ DeleteKey(c)
        \/ CreatePolicy(c) \/ ReadPolicy(c) \/ DeletePolicy(c)
        \/ CreateRule(c) \/ BeginSetRules(c)
        \/ AddMember(c) \/ RemoveMember(c) \/ SetMembers(c))
  BY <1>1 DEF CreateKey, ReadKey, DeleteKey, CreatePolicy, ReadPolicy, DeletePolicy, CreateRule,
     BeginSetRules, AddMember, RemoveMember, SetMembers
<1>4. /\ ~(WriteDoc(c) \/ InsertKey(c) \/ WriteRow(c) \/ SetRules(c))
      /\ ReadGroup(c) => req[c].at = "ReadGroup"
      /\ InsertRule(c) => req[c].at = "InsertRule"
  BY DEF WriteDoc, ReadGroup, InsertKey, WriteRow, SetRules, InsertRule
<1>5. QED BY <1>2, <1>3, <1>4 DEF Arrive, Proceed

\* An INSERT into iam_rules fails only for want of the policy.
LEMMA RefusedRulesMissTheirPolicy ==
  ASSUME NEW p, ~RowOK(IamKeys, db, "iam_rules", RuleRow(p))
  PROVE  p \notin DOMAIN db["iam_policies"]
<1>1. PICK fk \in IamKeys :
        fk.child = "iam_rules" /\ RuleRow(p)[fk.col] \notin DOMAIN db[fk.parent] \cup {Null}
  BY DEF RowOK
<1>2. fk.col = "policy_id" /\ fk.parent = "iam_policies"
  BY <1>1, IamKeysEnd
<1>3. RuleRow(p)["policy_id"] = p
  BY DEF RuleRow
<1>4. QED BY <1>1, <1>2, <1>3

\* A policy whose creation is answered with an error is not there: the loop over its
\* rules fails only if somebody has deleted the policy in the meantime.
THEOREM FailedPoliciesAreGone == Spec => NoHalfCreatedPolicies
<1>1. ASSUME IInv, [Next]_vars, NEW c \in Clients, req[c].at = "InsertRule",
             req'[c].at = "answered", req'[c].status # "ok"
      PROVE  req[c].policy \notin DOMAIN db'["iam_policies"]
  <2>1. req'[c] # req[c]
    BY <1>1
  <2>2. PICK e \in Clients : Arrive(e) \/ Proceed(e)
    BY <1>1, <2>1 DEF vars, Next
  <2>3. PICK r \in Requests : req' = [req EXCEPT ![e] = r]
    BY <1>1, <2>2, ActionsFit DEF IInv, Ready, Fits, Handled
  <2>4. e = c
    BY <1>1, <2>1, <2>3 DEF IInv
  <2>5. InsertRule(c)
    BY <1>1, <2>2, <2>4, OnlyTheNextStatement
  <2>6. CASE Continue(c, RuleLoop(req[c].policy, req[c].todo - 1))
    <3>1. req'[c] = RuleLoop(req[c].policy, req[c].todo - 1)
      BY <1>1, <2>6 DEF Continue, IInv
    <3>2. QED BY <1>1, <3>1 DEF RuleLoop, Answered
  <2>7. CASE UNCHANGED db /\ ~RowOK(IamKeys, db, "iam_rules", RuleRow(req[c].policy))
    BY <2>7, RefusedRulesMissTheirPolicy
  <2>8. QED BY <2>5, <2>6, <2>7 DEF InsertRule
<1>2. IInv /\ [Next]_vars =>
        [\A c \in Clients :
           (req[c].at = "InsertRule" /\ req'[c].at = "answered" /\ req'[c].status # "ok")
             => req[c].policy \notin DOMAIN db'["iam_policies"]]_vars
  BY <1>1
<1>3. QED BY <1>2, IamInvariant, PTL DEF Spec, NoHalfCreatedPolicies

-----------------------------------------------------------------------------
(***************************************************************************)
(* The behaviours that TLC runs, without its bounds.                       *)
(***************************************************************************)
SomeInit == Init /\ active \in (SUBSET Clients) \ {{}} /\ found = db

SomeNext ==
  /\ \E c \in active :
       /\ Arrive(c) \/ Proceed(c)
       /\ found' = CASE ~Serial -> found
                     [] Serial /\ req'[c] = Answered("ok") -> db'
                     [] Serial /\ req'[c] # Answered("ok") -> IF Idle(c) THEN db ELSE found
  /\ active' = active

SomeSpec == SomeInit /\ [][SomeNext]_<<vars, active, found>>

\* What TLC explores is among them.
LEMMA BoundedRunsAreRuns == MCSpec => SomeSpec
<1>1. MCInit => SomeInit
  BY DEF MCInit, SomeInit
<1>2. [MCNext]_<<vars, active, scope, found>> => [SomeNext]_<<vars, active, found>>
  BY DEF MCNext, SomeNext
<1>3. QED BY <1>1, <1>2, PTL DEF MCSpec, SomeSpec

\* A handler that has changed something will not fail any more: it answers with a group
\* that is there, or has more rules to insert for a policy that is there.
Sure(d, r) ==
  \/ r = Answered("ok")
  \/ r.at = "ReadGroup" /\ r.group \in DOMAIN d["iam_groups"]
  \/ r.at = "InsertRule" /\ r.policy \in DOMAIN d["iam_policies"]

\* A step of c's handler that changes something makes it sure of its success.
Clean(c) == UNCHANGED db \/ Sure(db', req'[c])

\* The handler's next statement.
LEMMA GoesOn ==
  ASSUME Ready, NEW c \in Clients, NEW r, Continue(c, r)
  PROVE  req'[c] = r
BY DEF Continue, Ready

\* An INSERT, an UPDATE or a DELETE that is answered 2xx, and any other answer without a
\* change.
LEMMA AnswersAreClean ==
  ASSUME Ready, NEW c \in Clients, UNCHANGED db \/ Answer(c, "ok")
  PROVE  Clean(c)
BY GoesOn DEF Clean, Sure, Answer

\* The statements that most requests consist of.
LEMMA StatementsAreClean ==
  ASSUME Ready, NEW c \in Clients, NEW t, NEW k, NEW row,
         \/ CreateSimple(IamKeys, c, t, k, row) \/ Read(c, t, k, row)
         \/ DeleteBy(IamKeys, c, t, k)
  PROVE  Clean(c)
BY AnswersAreClean DEF CreateSimple, InsertJSON, Read, DeleteBy

\* Requests of one statement, and the first statement of those that begin with a look-up.
LEMMA FirstStatementsAreClean ==
  ASSUME Ready, NEW c \in Clients,
         \/ CreateApplication(c) \/ UpdateApplication(c) \/ DeleteApplication(c)
         \/ CreateUser(c) \/ UpdateUser(c) \/ DeleteUser(c)
         \/ CreateGroup(c) \/ UpdateGroup(c) \/ DeleteGroup(c)
         \/ CreateSSHKey(c) \/ UpdateSSHKey(c) \/ DeleteSSHKey(c)
         \/ CreateKey(c) \/ ReadKey(c) \/ DeleteKey(c)
         \/ ReadPolicy(c) \/ DeletePolicy(c) \/ CreateRule(c) \/ BeginSetRules(c)
  PROVE  Clean(c)
<1>1. CASE \/ CreateApplication(c) \/ CreateUser(c) \/ CreateGroup(c) \/ CreateSSHKey(c)
           \/ CreateRule(c)
  BY <1>1, StatementsAreClean
     DEF CreateApplication, CreateUser, CreateGroup, CreateSSHKey, CreateRule
<1>2. CASE \/ UpdateApplication(c) \/ UpdateUser(c) \/ UpdateGroup(c) \/ UpdateSSHKey(c)
           \/ ReadKey(c) \/ ReadPolicy(c) \/ BeginSetRules(c)
  BY <1>2, StatementsAreClean
     DEF UpdateApplication, UpdateUser, UpdateGroup, UpdateSSHKey, ReadKey, ReadPolicy,
         BeginSetRules
<1>3. CASE \/ DeleteApplication(c) \/ DeleteUser(c) \/ DeleteGroup(c) \/ DeleteSSHKey(c)
           \/ DeleteKey(c) \/ DeletePolicy(c)
  BY <1>3, StatementsAreClean
     DEF DeleteApplication, DeleteUser, DeleteGroup, DeleteSSHKey, DeleteKey, DeletePolicy
<1>4. CASE CreateKey(c)
  BY <1>4, StatementsAreClean, AnswersAreClean DEF CreateKey, RejectKey
<1>5. QED BY <1>1, <1>2, <1>3, <1>4

\* The UPDATEs, and the statements that answer in any case.
LEMMA LastStatementsAreClean ==
  ASSUME Ready, NEW c \in Clients,
         WriteDoc(c) \/ ReadGroup(c) \/ InsertKey(c) \/ WriteRow(c) \/ SetRules(c)
  PROVE  Clean(c)
<1>1. CASE WriteDoc(c)
  <2> DEFINE r == req[c]
  <2>1. CASE ~Found(r.table, r.key)
    <3>1. UNCHANGED db
      BY <1>1, <2>1 DEF WriteDoc, UpdateRow, Found
    <3>2. QED BY <3>1, AnswersAreClean
  <2>2. CASE r.table # "iam_groups" /\ Found(r.table, r.key)
    BY <1>1, <2>2, AnswersAreClean DEF WriteDoc
  <2>3. CASE r.table = "iam_groups" /\ Found(r.table, r.key)
    <3>1. /\ db' = UpdateRow(db, "iam_groups", r.key, PlainRow)
          /\ r.key \in DOMAIN db["iam_groups"]
          /\ Continue(c, WithMembers(r.key))
      BY <1>1, <2>3 DEF WriteDoc, Found
    <3>2. "iam_groups" \in DOMAIN db
      BY DEF Ready, Good, Typed, IamTables
    <3>3. DOMAIN db'["iam_groups"] = DOMAIN db["iam_groups"]
      BY <3>1, <3>2 DEF UpdateRow
    <3>4. req'[c] = WithMembers(r.key)
      BY <3>1, GoesOn
    <3>5. QED BY <3>1, <3>3, <3>4 DEF Clean, Sure, WithMembers
  <2>4. QED BY <2>1, <2>2, <2>3
<1>2. CASE ReadGroup(c) \/ WriteRow(c) \/ SetRules(c)
  BY <1>2, AnswersAreClean DEF ReadGroup, WriteRow, SetRules
<1>3. CASE InsertKey(c)
  BY <1>3, StatementsAreClean DEF InsertKey
<1>4. QED BY <1>1, <1>2, <1>3

\* What an INSERT does to the rows of t, and that it leaves the other tables alone.
LEMMA InsertedRows ==
  ASSUME Ready, NEW t \in IamTables, NEW k, NEW row, db' = InsertRow(db, t, k, row)
  PROVE  k \in DOMAIN db'[t] /\ \A u \in IamTables \ {t} : db'[u] = db[u]
BY DEF Ready, Good, Typed, InsertRow

\* A policy that is created is there for its rules.
LEMMA CreatePolicyIsClean ==
  ASSUME Ready, NEW c \in Clients, CreatePolicy(c)
  PROVE  Clean(c)
<1>1. CASE UNCHANGED db
  BY <1>1, AnswersAreClean
<1>2. CASE \E p, n : /\ \E a : db' = InsertRow(db, "iam_policies", p, PolicyRow(a))
                     /\ Continue(c, RuleLoop(p, n))
  <2>1. PICK p, n : /\ \E a : db' = InsertRow(db, "iam_policies", p, PolicyRow(a))
                    /\ Continue(c, RuleLoop(p, n))
    BY <1>2
  <2>2. p \in DOMAIN db'["iam_policies"]
    BY <2>1, InsertedRows DEF IamTables
  <2>3. req'[c] = RuleLoop(p, n)
    BY <2>1, GoesOn
  <2>4. QED BY <2>2, <2>3 DEF RuleLoop, Clean, Sure
<1>3. QED BY <1>1, <1>2 DEF CreatePolicy

\* So it is when the next of them is inserted.
LEMMA InsertRuleIsClean ==
  ASSUME Ready, NEW c \in Clients, InsertRule(c)
  PROVE  Clean(c)
<1> DEFINE p == req[c].policy
<1>1. CASE UNCHANGED db
  BY <1>1, AnswersAreClean
<1>2. CASE \E k : /\ RowOK(IamKeys, db, "iam_rules", RuleRow(p))
                  /\ db' = InsertRow(db, "iam_rules", k, RuleRow(p))
                  /\ Continue(c, RuleLoop(p, req[c].todo - 1))
  <2>1. p \in Policies /\ p # Null
    BY LocalsTyped, IamIdsAreNotNull DEF InsertRule, Ready
  <2>2. p \in DOMAIN db["iam_policies"]
    <3>1. RuleRow(p)["policy_id"] = p
      BY DEF RuleRow
    <3>2. QED BY <1>2, <2>1, <3>1, IamKeysGiven DEF RowOK
  <2>3. p \in DOMAIN db'["iam_policies"]
    BY <1>2, <2>2, InsertedRows DEF IamTables
  <2>4. req'[c] = RuleLoop(p, req[c].todo - 1)
    BY <1>2, GoesOn
  <2>5. QED BY <2>3, <2>4 DEF RuleLoop, Clean, Sure
<1>3. QED BY <1>1, <1>2 DEF InsertRule

\* A membership is added to, removed from or set for a group that is there.
LEMMA MembersAreClean ==
  ASSUME Ready, NEW c \in Clients, AddMember(c) \/ RemoveMember(c) \/ SetMembers(c)
  PROVE  Clean(c)
<1>1. ASSUME NEW g \in DOMAIN db["iam_groups"], db'["iam_groups"] = db["iam_groups"],
             Continue(c, WithMembers(g))
      PROVE  Clean(c)
  BY <1>1, GoesOn DEF WithMembers, Clean, Sure
<1>2. "iam_groups" \in IamTables \ {"iam_group_members"} /\ DOMAIN db = IamTables
      /\ "iam_group_members" \in IamTables
  BY DEF IamTables, Ready, Good, Typed
<1>3. CASE AddMember(c)
  <2>1. CASE UNCHANGED db
    BY <2>1, AnswersAreClean
  <2>2. CASE \E g \in Groups, u \in Users :
               /\ RowOK(IamKeys, db, "iam_group_members", MemberRow(g, u))
               /\ db' = InsertRow(db, "iam_group_members", <<g, u>>, MemberRow(g, u))
               /\ Continue(c, WithMembers(g))
    <3>1. PICK g \in Groups, u \in Users :
               /\ RowOK(IamKeys, db, "iam_group_members", MemberRow(g, u))
               /\ db' = InsertRow(db, "iam_group_members", <<g, u>>, MemberRow(g, u))
               /\ Continue(c, WithMembers(g))
      BY <2>2
    <3>2. MemberRow(g, u)["group_id"] = g /\ g # Null
      BY IamIdsAreNotNull DEF MemberRow
    <3>3. g \in DOMAIN db["iam_groups"]
      BY <3>1, <3>2, IamKeysGiven DEF RowOK
    <3>4. db'["iam_groups"] = db["iam_groups"]
      BY <1>2, <3>1, InsertedRows
    <3>5. QED BY <1>1, <3>1, <3>3, <3>4
  <2>3. QED BY <1>3, <2>1, <2>2 DEF AddMember
<1>4. CASE RemoveMember(c)
  <2>1. PICK g \in Groups, u \in Users :
          /\ db' = DeleteRow(IamKeys, db, "iam_group_members", <<g, u>>)
          /\ Continue(c, WithMembers(g))
    BY <1>4 DEF RemoveMember
  <2>2. CASE <<g, u>> \notin DOMAIN db["iam_group_members"]
    BY <2>1, <2>2, NothingRemoved, AnswersAreClean
  <2>3. CASE <<g, u>> \in DOMAIN db["iam_group_members"]
    <3>1. db["iam_group_members"][<<g, u>>] = MemberRow(g, u)
      BY <1>2, <2>3 DEF Ready, Good, Typed, Sound
    <3>2. db["iam_group_members"][<<g, u>>]["group_id"] = g /\ g # Null
      BY <3>1, IamIdsAreNotNull DEF MemberRow
    <3>3. g \in DOMAIN db["iam_groups"]
      BY <2>3, <3>2, IamKeysGiven DEF Ready, Good, RefIntegrity
    <3>4. Doomed(IamKeys, db, "iam_group_members", <<g, u>>, "iam_groups") = {}
      BY IamKeysEnd DEF Doomed
    <3>5. Good(db)
      BY DEF Ready
    <3>6. g \in DOMAIN db'["iam_groups"]
      BY <1>2, <2>1, <3>3, <3>4, <3>5, DeleteTakesAway
    <3>7. QED BY <2>1, <3>6, GoesOn DEF WithMembers, Clean, Sure
  <2>4. QED BY <2>2, <2>3
<1>5. CASE SetMembers(c)
  <2>1. CASE UNCHANGED db
    BY <2>1, AnswersAreClean
  <2>2. CASE \E g \in Groups, list \in Lists(Users) :
               /\ {x \in DOMAIN list : InsertFails(g, list, x)} = {}
               /\ db' = [db EXCEPT !["iam_group_members"] =
                           Replaced(@, MembersOf(g), MemberRows(g, list))]
               /\ Continue(c, WithMembers(g))
    <3>1. PICK g \in Groups, list \in Lists(Users) :
               /\ {x \in DOMAIN list : InsertFails(g, list, x)} = {}
               /\ db' = [db EXCEPT !["iam_group_members"] =
                           Replaced(@, MembersOf(g), MemberRows(g, list))]
               /\ Continue(c, WithMembers(g))
      BY <2>2
    <3>2. CASE g \notin DOMAIN db["iam_groups"]
      BY <3>1, <3>2, AbsentGroupsHaveNoMembers, AnswersAreClean
    <3>3. CASE g \in DOMAIN db["iam_groups"]
      <4>1. db'["iam_groups"] = db["iam_groups"]
        BY <1>2, <3>1
      <4>2. QED BY <1>1, <3>1, <3>3, <4>1
    <3>4. QED BY <3>2, <3>3
  <2>3. QED BY <1>5, <2>1, <2>2 DEF SetMembers
<1>6. QED BY <1>3, <1>4, <1>5

\* Every step either changes nothing or makes the handler sure of its success.
LEMMA StepsAreClean ==
  ASSUME Ready, NEW c \in Clients, Arrive(c) \/ Proceed(c)
  PROVE  Clean(c)
<1>1. CASE Arrive(c)
  BY <1>1, FirstStatementsAreClean, CreatePolicyIsClean, MembersAreClean DEF Arrive
<1>2. CASE Proceed(c)
  BY <1>2, LastStatementsAreClean, InsertRuleIsClean DEF Proceed
<1>3. QED BY <1>1, <1>2

\* A handler that is sure of its success stays so, if nobody else changes anything.
LEMMA SureStaysSure ==
  ASSUME Ready, NEW c \in Clients, Arrive(c) \/ Proceed(c), ~Idle(c), Sure(db, req[c])
  PROVE  Sure(db', req'[c])
<1>1. CASE req[c].at = "ReadGroup" /\ req[c].group \in DOMAIN db["iam_groups"]
  <2>1. ReadGroup(c)
    BY <1>1, OnlyTheNextStatement
  <2>2. QED BY <1>1, <2>1, GoesOn DEF ReadGroup, Found, Answer, Sure
<1>2. CASE req[c].at = "InsertRule" /\ req[c].policy \in DOMAIN db["iam_policies"]
  <2>1. InsertRule(c)
    BY <1>2, OnlyTheNextStatement
  <2>2. RowOK(IamKeys, db, "iam_rules", RuleRow(req[c].policy))
    BY <1>2, RefusedRulesMissTheirPolicy
  <2>3. PICK k : /\ db' = InsertRow(db, "iam_rules", k, RuleRow(req[c].policy))
                 /\ Continue(c, RuleLoop(req[c].policy, req[c].todo - 1))
    BY <2>1, <2>2 DEF InsertRule
  <2>4. req[c].policy \in DOMAIN db'["iam_policies"]
    BY <1>2, <2>3, InsertedRows DEF IamTables
  <2>5. req'[c] = RuleLoop(req[c].policy, req[c].todo - 1)
    BY <2>3, GoesOn
  <2>6. QED BY <2>4, <2>5 DEF RuleLoop, Sure
<1>3. CASE req[c] = Answered("ok")
  BY <1>3 DEF Answered, Idle
<1>4. QED BY <1>1, <1>2, <1>3 DEF Sure

\* One request at a time: either nothing has changed since the request began, or its
\* handler is sure of its success.
SerialInv ==
  /\ IInv
  /\ active \subseteq Clients
  /\ Serial => \A c \in active : db = found \/ Sure(db, req[c])

\* Every step keeps it.
LEMMA SerialInvKept ==
  ASSUME SerialInv, [SomeNext]_<<vars, active, found>>
  PROVE  SerialInv'
<1>1. CASE UNCHANGED <<vars, active, found>>
  <2>1. IInv'
    BY <1>1, StepKeepsInvariant DEF SerialInv
  <2>2. QED BY <1>1, <2>1 DEF SerialInv, Serial, Sure, vars
<1>2. CASE SomeNext
  <2>1. PICK c \in active :
          /\ Arrive(c) \/ Proceed(c)
          /\ found' = CASE ~Serial -> found
                        [] Serial /\ req'[c] = Answered("ok") -> db'
                        [] Serial /\ req'[c] # Answered("ok") -> IF Idle(c) THEN db ELSE found
    BY <1>2 DEF SomeNext
  <2>2. active' = active /\ c \in Clients /\ active \subseteq Clients
    BY <1>2 DEF SomeNext, SerialInv
  <2>3. Ready /\ IInv
    BY DEF SerialInv, IInv, Ready
  <2>4. IInv'
    BY <2>1, <2>2, <2>3, StepKeepsInvariant DEF Next
  <2>5. Clean(c)
    BY <2>1, <2>2, <2>3, StepsAreClean
  <2>6. ASSUME Serial PROVE db' = found' \/ Sure(db', req'[c])
    <3>1. CASE req'[c] = Answered("ok")
      BY <3>1 DEF Sure
    <3>2. CASE req'[c] # Answered("ok") /\ Idle(c)
      BY <2>1, <2>5, <2>6, <3>2 DEF Clean
    <3>3. CASE req'[c] # Answered("ok") /\ ~Idle(c)
      <4>1. found' = found
        BY <2>1, <2>6, <3>3
      <4>2. CASE db = found
        BY <2>5, <4>1, <4>2 DEF Clean
      <4>3. CASE Sure(db, req[c])
        BY <2>1, <2>2, <2>3, <3>3, <4>3, SureStaysSure
      <4>4. QED BY <2>6, <4>2, <4>3 DEF SerialInv
    <3>4. QED BY <3>1, <3>2, <3>3
  <2>7. Serial' => \A d \in active' : db' = found' \/ Sure(db', req'[d])
    BY <2>1, <2>2, <2>6 DEF Serial
  <2>8. QED BY <2>2, <2>4, <2>7 DEF SerialInv
<1>3. QED BY <1>1, <1>2

\* One request at a time, a request that is answered with an error has left no trace:
\* adding a member answers 404 "rather than creating an empty or partially-populated
\* group", a list of members or rules is replaced as a whole or not at all, and a policy
\* is not left with half of its rules.
THEOREM SerialErrorsAreClean == SomeSpec => []SerialErrorsLeaveNoTrace
<1>1. SomeInit => SerialInv
  <2> SUFFICES ASSUME SomeInit PROVE SerialInv
    OBVIOUS
  <2>1. QED BY InitFits DEF SomeInit, SerialInv
<1>2. SerialInv /\ [SomeNext]_<<vars, active, found>> => SerialInv'
  BY SerialInvKept
<1>3. SerialInv => SerialErrorsLeaveNoTrace
  <2> SUFFICES ASSUME SerialInv, Serial, NEW c \in active, Idle(c), req[c].status # "ok"
               PROVE  db = found
    BY DEF SerialErrorsLeaveNoTrace
  <2>1. ~Sure(db, req[c])
    BY DEF Sure, Idle, Answered
  <2>2. QED BY <2>1 DEF SerialInv
<1>4. QED BY <1>1, <1>2, <1>3, PTL DEF SomeSpec

-----------------------------------------------------------------------------
(***************************************************************************)
(* Every Step is a step of the store, or none.                             *)
(***************************************************************************)

\* The references of the store are the keys of the schema.
LEMMA StoreReferences ==
  /\ Store!References = IamKeys
  /\ \A fk \in IamKeys : fk.child \in IamTables /\ fk.parent \in IamTables
  /\ With(IamKeys, SetNull) = {}
<1>1. \A fk \in IamKeys : /\ fk.child \in IamTables /\ fk.parent \in IamTables
                          /\ fk.action \in {NoAction, Cascade} /\ fk.action # SetNull
  BY IamKeysEnd DEF IamTables, DocumentTables
<1>2. QED BY <1>1 DEF Store!References, With

\* A row that the foreign keys accept is settled.
LEMMA AcceptedRowsAreSettled ==
  ASSUME Good(db), Good(db'), NEW t \in IamTables, NEW k \in DOMAIN db'[t],
         RowOK(IamKeys, db, t, db'[t][k])
  PROVE  Store!Settled(t, ReferencesIn(IamKeys, db')[t][k])
<1>1. \A fk \in IamKeys : fk.parent \in DOMAIN db
  BY StoreReferences DEF Good, Typed
<1>2. t \in DOMAIN db'
  BY DEF Good, Typed
<1>3. QED BY <1>1, <1>2, AcceptedRowSeen, StoreReferences DEF Store!Settled, Store!Live

\* An INSERT is a resource that appears.
LEMMA InsertIsAppear ==
  ASSUME Good(db), Good(db'), Inserted(issued', db, db')
  PROVE  Store!Next
<1> DEFINE old == ReferencesIn(IamKeys, db)
           new == ReferencesIn(IamKeys, db')
<1>1. PICK t \in IamTables : \E k, row :
        /\ k \notin DOMAIN db[t] /\ RowOK(IamKeys, db, t, row)
        /\ db' = InsertRow(db, t, k, row)
  BY DEF Inserted
<1>2. PICK k, row : /\ k \notin DOMAIN db[t] /\ RowOK(IamKeys, db, t, row)
                    /\ db' = InsertRow(db, t, k, row)
  BY <1>1
<1>3. /\ DOMAIN db = IamTables /\ DOMAIN db' = IamTables
      /\ \A u \in IamTables \ {t} : db'[u] = db[u]
      /\ DOMAIN db'[t] = DOMAIN db[t] \cup {k}
      /\ db'[t][k] = row
      /\ \A x \in DOMAIN db[t] : db'[t][x] = db[t][x]
  BY <1>2, InsertAddsOneRow DEF Good, Typed
<1>4. /\ DOMAIN new[t] = DOMAIN old[t] \cup {k}
      /\ k \notin DOMAIN old[t]
      /\ \A x \in DOMAIN old[t] : new[t][x] = old[t][x]
  <2>1. DOMAIN new[t] = DOMAIN db'[t] /\ DOMAIN old[t] = DOMAIN db[t]
    BY <1>3, ReferencesSeen
  <2>2. \A x \in DOMAIN db[t] : new[t][x] = old[t][x]
    BY <1>3, SameRowSeen
  <2>3. QED BY <1>2, <1>3, <2>1, <2>2
<1>5. \A u \in IamTables \ {t} : new[u] = old[u]
  BY <1>3, SameRowsSeen
<1>6. Store!Settled(t, new[t][k])
  BY <1>2, <1>3, AcceptedRowsAreSettled
<1>7. Store!Appear(t, k)
  BY <1>4, <1>5, <1>6 DEF Store!Appear, Store!Live, Store!Unchanged
<1>8. QED BY <1>4, <1>7 DEF Store!Next, Store!Live

\* An UPDATE is a resource that refers to others from now on, if it changes references.
LEMMA UpdateIsRelink ==
  ASSUME Good(db), Good(db'), Updated(db, db')
  PROVE  [Store!Next]_(ReferencesIn(IamKeys, db))
<1> DEFINE old == ReferencesIn(IamKeys, db)
           new == ReferencesIn(IamKeys, db')
<1>1. PICK t \in IamTables : \E k \in DOMAIN db[t] : \E row :
        RowOK(IamKeys, db, t, row) /\ db' = UpdateRow(db, t, k, row)
  BY DEF Updated
<1>2. PICK k \in DOMAIN db[t] : \E row :
        RowOK(IamKeys, db, t, row) /\ db' = UpdateRow(db, t, k, row)
  BY <1>1
<1>3. PICK row : RowOK(IamKeys, db, t, row) /\ db' = UpdateRow(db, t, k, row)
  BY <1>2
<1>4. /\ DOMAIN db = IamTables /\ DOMAIN db' = IamTables
      /\ \A u \in IamTables \ {t} : db'[u] = db[u]
      /\ DOMAIN db'[t] = DOMAIN db[t]
      /\ db'[t][k] = row
      /\ \A x \in DOMAIN db[t] \ {k} : db'[t][x] = db[t][x]
  BY <1>3, UpdateChangesOneRow DEF Good, Typed
<1>5. /\ DOMAIN new[t] = DOMAIN old[t]
      /\ k \in DOMAIN old[t]
      /\ \A x \in DOMAIN old[t] \ {k} : new[t][x] = old[t][x]
  <2>1. DOMAIN new[t] = DOMAIN db'[t] /\ DOMAIN old[t] = DOMAIN db[t]
    BY <1>4, ReferencesSeen
  <2>2. \A x \in DOMAIN db[t] \ {k} : new[t][x] = old[t][x]
    BY <1>4, SameRowSeen
  <2>3. QED BY <1>4, <2>1, <2>2
<1>6. \A u \in IamTables \ {t} : new[u] = old[u]
  BY <1>4, SameRowsSeen
<1>7. Store!Settled(t, new[t][k])
  BY <1>3, <1>4, AcceptedRowsAreSettled
<1>8. Store!Relink(t, k)
  BY <1>5, <1>6, <1>7 DEF Store!Relink, Store!Live, Store!Unchanged
<1>9. CASE new[t] # old[t]
  BY <1>5, <1>8, <1>9 DEF Store!Next, Store!Live
<1>10. CASE new[t] = old[t]
  BY <1>4, <1>6, <1>10, SameTablesSeen
<1>11. QED BY <1>9, <1>10

\* A DELETE is a resource that disappears, with the rules or memberships it owns.
LEMMA DeleteIsDisappear ==
  ASSUME Good(db), Good(db'), Deleted(db, db')
  PROVE  Store!Next
<1> DEFINE old == ReferencesIn(IamKeys, db)
           new == ReferencesIn(IamKeys, db')
<1>1. PICK t \in IamTables : \E k \in DOMAIN db[t] :
        ~Blocked(IamKeys, db, t, k) /\ db' = DeleteRow(IamKeys, db, t, k)
  BY DEF Deleted
<1>2. PICK k \in DOMAIN db[t] :
        ~Blocked(IamKeys, db, t, k) /\ db' = DeleteRow(IamKeys, db, t, k)
  BY <1>1
<1>3. DOMAIN db = IamTables /\ DOMAIN db' = IamTables
  BY DEF Good, Typed
<1>4. /\ \A u \in IamTables : DOMAIN old[u] = DOMAIN db[u] /\ DOMAIN new[u] = DOMAIN db'[u]
      /\ \A fk \in IamKeys : \A x \in DOMAIN db[fk.child] :
           old[fk.child][x][fk.col] = db[fk.child][x][fk.col]
  BY <1>3, ReferencesSeen, StoreReferences
<1>5. ASSUME NEW u \in IamTables
      PROVE  /\ DOMAIN db'[u] = DOMAIN db[u] \ Doomed(IamKeys, db, t, k, u)
             /\ \A x \in DOMAIN db'[u] : db'[u][x] = db[u][x]
  BY <1>2, DeleteTakesAway
<1>6. ASSUME NEW u \in IamTables
      PROVE  Store!Goes(t, k, u) = Doomed(IamKeys, db, t, k, u)
  <2>1. ASSUME NEW fk \in IamKeys, fk.child = u, NEW x \in DOMAIN db[u]
        PROVE  old[u][x][fk.col] = db[u][x][fk.col]
    BY <1>4, <2>1
  <2>2. Store!Goes(t, k, u) = {x \in DOMAIN old[u] :
           \/ u = t /\ x = k
           \/ \E fk \in With(IamKeys, Cascade) :
                fk.child = u /\ fk.parent = t /\ old[u][x][fk.col] = k}
    BY DEF Store!Goes, Store!Live
  <2>3. DOMAIN old[u] = DOMAIN db[u]
    BY <1>4
  <2> HIDE DEF old
  <2>4. QED BY <2>1, <2>2, <2>3 DEF Doomed, With
<1>7. ASSUME NEW u \in IamTables, NEW x \in DOMAIN db[u]
      PROVE  Store!Detached(t, k, u, old[u][x]) = old[u][x]
  <2>1. old[u][x] = [col \in Columns(IamKeys, u) |-> db[u][x][col]]
    BY <1>3, ReferencesSeen
  <2>2. Store!Detached(t, k, u, old[u][x]) = [col \in DOMAIN old[u][x] |-> old[u][x][col]]
    BY StoreReferences DEF Store!Detached
  <2>3. QED BY <2>1, <2>2
<1>8. \A fk \in With(IamKeys, NoAction) : fk.parent = t =>
        \A x \in DOMAIN old[fk.child] : old[fk.child][x][fk.col] # k
  BY <1>2, <1>4, StoreReferences DEF With, Blocked, Referencing
<1>9. ASSUME NEW u \in IamTables
      PROVE  /\ DOMAIN new[u] = DOMAIN old[u] \ Store!Goes(t, k, u)
             /\ \A x \in DOMAIN old[u] \ Store!Goes(t, k, u) :
                  new[u][x] = Store!Detached(t, k, u, old[u][x])
  <2>1. DOMAIN new[u] = DOMAIN old[u] \ Store!Goes(t, k, u)
    BY <1>4, <1>5, <1>6
  <2>2. ASSUME NEW x \in DOMAIN old[u] \ Store!Goes(t, k, u)
        PROVE  new[u][x] = Store!Detached(t, k, u, old[u][x])
    <3>1. x \in DOMAIN db[u] /\ x \in DOMAIN db'[u] /\ db'[u][x] = db[u][x]
      BY <1>4, <1>5, <1>6, <2>2
    <3>2. new[u][x] = old[u][x]
      BY <1>3, <3>1, SameRowSeen
    <3>3. QED BY <1>7, <3>1, <3>2
  <2>3. QED BY <2>1, <2>2
<1>10. Store!Disappear(t, k)
  BY <1>2, <1>4, <1>8, <1>9 DEF Store!Disappear, Store!Live
<1>11. k \in DOMAIN old[t] /\ k \notin DOMAIN new[t]
  BY <1>2, <1>4, <1>5 DEF Doomed
<1>12. new[t] # old[t]
  BY <1>11
<1>13. QED BY <1>10, <1>11, <1>12 DEF Store!Next, Store!Live

\* A list that is replaced: no rule or membership of another policy or group changes.
LEMMA ReplacementIsReplace ==
  ASSUME Good(db), Good(db'), ListReplaced(issued', db, db')
  PROVE  [Store!Next]_(ReferencesIn(IamKeys, db))
<1> DEFINE before == ReferencesIn(IamKeys, db)
           after == ReferencesIn(IamKeys, db')
<1>1. PICK ref \in ReplacedLists : \E owner \in DOMAIN db[ref.parent] : \E rows :
        Fitting(issued', db, ref, owner, rows) /\ db' = Exchanged(db, ref, owner, rows)
  BY DEF ListReplaced
<1>2. PICK owner \in DOMAIN db[ref.parent] : \E rows :
        Fitting(issued', db, ref, owner, rows) /\ db' = Exchanged(db, ref, owner, rows)
  BY <1>1
<1>3. PICK rows :
        Fitting(issued', db, ref, owner, rows) /\ db' = Exchanged(db, ref, owner, rows)
  BY <1>2
<1>4. OneListDiffers(db, ref, owner, rows, db')
  BY <1>3, ReplacedRows
<1> DEFINE t == ref.child
           others == DOMAIN db[t] \ Belonging(db, ref, owner)
<1>5. /\ t \in IamTables /\ DOMAIN db = IamTables /\ DOMAIN db' = IamTables
      /\ \A u \in IamTables \ {t} : db'[u] = db[u]
      /\ DOMAIN db'[t] = others \cup DOMAIN rows
      /\ \A x \in DOMAIN rows : db'[t][x] = rows[x]
      /\ \A x \in others : db'[t][x] = db[t][x]
  BY <1>4 DEF OneListDiffers, Good, Typed
<1>6. \A x \in DOMAIN rows : /\ RowOK(IamKeys, db, t, rows[x])
                             /\ rows[x][ref.col] = owner
                             /\ x \notin others
  BY <1>3 DEF Fitting
<1>7. ref \in IamKeys /\ ref.parent \in IamTables
  BY StoreReferences DEF ReplacedLists
<1>8. /\ DOMAIN before[t] = DOMAIN db[t] /\ DOMAIN after[t] = DOMAIN db'[t]
      /\ DOMAIN before[ref.parent] = DOMAIN db[ref.parent]
      /\ \A x \in DOMAIN db[t] : before[t][x][ref.col] = db[t][x][ref.col]
      /\ \A x \in DOMAIN db'[t] : after[t][x][ref.col] = db'[t][x][ref.col]
  BY <1>5, <1>7, ReferencesSeen
<1>9. {x \in DOMAIN before[t] : before[t][x][ref.col] # owner} = others
  BY <1>8 DEF Belonging
<1> HIDE DEF others
<1>10. \A x \in others : x \in DOMAIN db[t] /\ x \in DOMAIN db'[t]
  BY <1>5 DEF others
<1>11. ASSUME NEW x \in DOMAIN after[t]
       PROVE  IF x \in others
              THEN after[t][x] = before[t][x]
              ELSE after[t][x][ref.col] = owner /\ Store!Settled(t, after[t][x])
  <2>1. CASE x \in others
    BY <1>5, <1>10, <2>1, SameRowSeen
  <2>2. CASE x \notin others
    <3>1. x \in DOMAIN rows /\ x \in DOMAIN db'[t]
      BY <1>5, <1>8, <1>11, <2>2
    <3>2. Store!Settled(t, after[t][x])
      BY <1>5, <1>6, <3>1, AcceptedRowsAreSettled
    <3>3. after[t][x][ref.col] = owner
      BY <1>5, <1>6, <1>8, <3>1
    <3>4. QED BY <2>2, <3>2, <3>3
  <2>3. QED BY <2>1, <2>2
<1>12. \A u \in IamTables \ {t} : after[u] = before[u]
  BY <1>5, SameRowsSeen
<1>13. Store!Replace(ref, owner)
  BY <1>5, <1>8, <1>9, <1>11, <1>12 DEF Store!Replace, Store!Live, Store!Unchanged
<1>14. CASE after[t] # before[t]
  BY <1>2, <1>5, <1>8, <1>13, <1>14 DEF Store!Next, Store!Live
<1>15. CASE after[t] = before[t]
  BY <1>5, <1>12, <1>15, SameTablesSeen
<1>16. QED BY <1>14, <1>15

\* Every Step is one step of the store, or none.
LEMMA StepIsStoreStep ==
  ASSUME Good(db), Drawn(issued', db), Step(issued', db, db')
  PROVE  [Store!Next]_(ReferencesIn(IamKeys, db))
<1>1. Good(db')
  BY StepKeepsGood
<1>2. CASE db = db'
  BY <1>2
<1>3. CASE Inserted(issued', db, db')
  BY <1>1, <1>3, InsertIsAppear
<1>4. CASE Updated(db, db')
  BY <1>1, <1>4, UpdateIsRelink
<1>5. CASE Deleted(db, db')
  BY <1>1, <1>5, DeleteIsDisappear
<1>6. CASE ListReplaced(issued', db, db')
  BY <1>1, <1>6, ReplacementIsReplace
<1>7. QED BY <1>2, <1>3, <1>4, <1>5, <1>6 DEF Step

\* The service implements the store: whatever runs at the same time, each request makes
\* one resource appear, changes what one refers to, makes one go with all it owns, or
\* replaces the rules of one policy or the members of one group.
THEOREM IamImplementsStore == Spec => IamKeepsReferences
<1>1. Init => Store!Init
  BY DEF Init, Store!Init, ReferencesIn, EmptyTable
<1>2. IInv /\ [Next]_vars => [Store!Next]_(ReferencesIn(IamKeys, db))
  <2>1. SUFFICES ASSUME IInv, [Next]_vars PROVE [Store!Next]_(ReferencesIn(IamKeys, db))
    OBVIOUS
  <2>2. CASE UNCHANGED vars
    BY <2>2 DEF vars
  <2>3. CASE Next
    <3>1. PICK c \in Clients : Arrive(c) \/ Proceed(c)
      BY <2>3 DEF Next
    <3>2. issued \subseteq issued' /\ Step(issued', db, db')
      BY <2>1, <3>1, ActionsFit DEF IInv, Ready, Fits
    <3>3. Drawn(issued', db)
      BY <2>1, <3>2 DEF IInv, Drawn
    <3>4. QED BY <2>1, <3>2, <3>3, StepIsStoreStep DEF IInv
  <2>4. QED BY <2>1, <2>2, <2>3
<1>3. QED BY <1>1, <1>2, IamInvariant, PTL DEF Spec, IamKeepsReferences, Store!Spec

=============================================================================
