---------------------------- MODULE ServiceProofs ----------------------------
(***************************************************************************)
(* The plain services implement ReferentialStore, and what their documents *)
(* say is as live as what their columns say, for any number of clients and *)
(* every set of uuids.                                                     *)
(*                                                                         *)
(* The inductive invariant says that every row is a document together with *)
(* the columns taken from it, that the columns refer to rows that exist,   *)
(* and that what a handler is about to write has the same form.  It says   *)
(* nothing of how old the document in a handler is: an UPDATE is checked   *)
(* against the tables as they are when it is made.                         *)
(*                                                                         *)
(* All that the statements of a handler do to the tables is one of four    *)
(* things, Step; the proof looks at the actions once, to see that each is  *)
(* a Step, and reasons about Steps only.                                   *)
(*                                                                         *)
(* The second part types the tables and the handlers over the uuids handed *)
(* out.  With that it follows the patch of the records of a zone, and the  *)
(* behaviours with one request at a time, in which records have zones and  *)
(* lists stay as they were.                                                *)
(***************************************************************************)
EXTENDS MCServices, ForeignKeysProofs, SequenceTheorems

DocFits(t, doc) == "doc" \notin DOMAIN doc /\ Columns(Keys, t) \subseteq DOMAIN doc

RowFits(t, row) == row = Row(row.doc) /\ DocFits(t, row.doc)

TableFits(t, table) ==
  /\ table = [k \in DOMAIN table |-> table[k]]
  /\ \A k \in DOMAIN table : RowFits(t, table[k])

Good(d) ==
  /\ DOMAIN d = Tables
  /\ \A t \in ResourceTables : TableFits(t, d[t])
  /\ RefIntegrity(Keys, d)

\* What the statements that follow need of a handler's locals.
LocalsFit(r) ==
  /\ "at" \in DOMAIN r
  /\ r.at = "WriteRow" => r.table \in ResourceTables /\ DocFits(r.table, r.doc)
  /\ r.at = "DeleteRead" => r.table \in Tables
  /\ r.at = "WriteLists" => r.table \in RedisTables \cup GroupTables

RequestsFit == DOMAIN req = Clients /\ \A c \in Clients : LocalsFit(req[c])

IInv == Good(db) /\ RequestsFit

-----------------------------------------------------------------------------
(***************************************************************************)
(* Steps of the database.                                                  *)
(***************************************************************************)
Elsewhere(d, e) == DOMAIN e = DOMAIN d /\ \A t \in ResourceTables : e[t] = d[t]

Inserted(d, e) ==
  \E t \in ResourceTables : \E k, doc :
    /\ k \notin DOMAIN d[t] /\ DocFits(t, doc) /\ RowOK(Keys, d, t, Row(doc))
    /\ e = InsertRow(d, t, k, Row(doc))

Updated(d, e) ==
  \E t \in ResourceTables : \E k \in DOMAIN d[t] : \E doc :
    /\ DocFits(t, doc) /\ RowOK(Keys, d, t, Row(doc))
    /\ e = UpdateRow(d, t, k, Row(doc))

Deleted(d, e) ==
  \E t \in ResourceTables : \E k \in DOMAIN d[t] :
    ~Blocked(Keys, d, t, k) /\ e = DeleteRow(Keys, d, t, k)

Step(d, e) == Elsewhere(d, e) \/ Inserted(d, e) \/ Updated(d, e) \/ Deleted(d, e)

\* The keys of the composition relate resource tables, and none of them is SET NULL.
LEMMA ServiceKeys ==
  /\ \A fk \in Keys : /\ fk.child \in ResourceTables /\ fk.parent \in ResourceTables
                      /\ fk.action \in {NoAction, Cascade}
  /\ CascadesEndAtOnce(Keys)
<1>1. \A fk \in Keys : /\ fk.child \in ResourceTables /\ fk.parent \in ResourceTables
                       /\ fk.action \in {NoAction, Cascade}
                       /\ fk.action = Cascade => fk.child = "k8s_pools"
                       /\ fk.parent # "k8s_pools"
  BY DEF Keys, VpcKeys, VpcGatewayKeys, K8sKeys, BlockKeys, ForeignKey, ResourceTables,
         PlainTables, NoAction, Cascade
<1>2. QED BY <1>1 DEF CascadesEndAtOnce

\* A row made from a document that fits has the document and, in the columns, what it says.
LEMMA RowOfDocument ==
  ASSUME NEW t, NEW doc, DocFits(t, doc)
  PROVE  /\ Row(doc).doc = doc
         /\ \A col \in Columns(Keys, t) : col \in DOMAIN Row(doc) /\ Row(doc)[col] = doc[col]
BY DEF Row, DocFits

\* The tables and columns the keys speak of are there.
LEMMA GoodLayout ==
  ASSUME NEW d, Good(d) PROVE LaidOutFor(Keys, d)
<1>1. ASSUME NEW fk \in Keys, NEW k \in DOMAIN d[fk.child]
      PROVE  fk.col \in DOMAIN d[fk.child][k]
  <2>1. fk.col \in Columns(Keys, fk.child)
    BY DEF Columns
  <2>2. d[fk.child][k] = Row(d[fk.child][k].doc) /\ DocFits(fk.child, d[fk.child][k].doc)
    BY ServiceKeys DEF Good, TableFits, RowFits
  <2>3. fk.col \in DOMAIN Row(d[fk.child][k].doc)
    BY <2>1, <2>2, RowOfDocument
  <2>4. QED BY <2>2, <2>3
<1>2. QED BY <1>1, ServiceKeys DEF LaidOutFor, Good, Tables

\* An INSERT of a row made from a document.
LEMMA InsertKeepsGood ==
  ASSUME NEW d, Good(d), NEW t \in ResourceTables, NEW k, NEW doc, DocFits(t, doc),
         RowOK(Keys, d, t, Row(doc))
  PROVE  Good(InsertRow(d, t, k, Row(doc)))
<1> DEFINE e == InsertRow(d, t, k, Row(doc))
<1>1. DOMAIN e = Tables /\ t \in DOMAIN d
  BY DEF Good, InsertRow, Tables
<1>2. ASSUME NEW u \in ResourceTables PROVE TableFits(u, e[u])
  <2>1. CASE u = t
    <3>1. e[t] = [x \in DOMAIN d[t] \cup {k} |-> IF x = k THEN Row(doc) ELSE d[t][x]]
      BY <1>1 DEF InsertRow
    <3>2. RowFits(t, Row(doc))
      BY RowOfDocument DEF RowFits
    <3>3. \A x \in DOMAIN d[t] : RowFits(t, d[t][x])
      BY DEF Good, TableFits
    <3>4. e[t] = [x \in DOMAIN e[t] |-> e[t][x]]
      BY <3>1
    <3>5. \A x \in DOMAIN e[t] : RowFits(t, e[t][x])
      BY <3>1, <3>2, <3>3
    <3>6. QED BY <2>1, <3>4, <3>5 DEF TableFits
  <2>2. CASE u # t
    BY <2>2, <1>1 DEF Good, InsertRow, Tables
  <2>3. QED BY <2>1, <2>2
<1>3. RefIntegrity(Keys, e)
  BY <1>1, GoodLayout, InsertKeepsIntegrity DEF Good
<1>4. QED BY <1>1, <1>2, <1>3 DEF Good

\* An UPDATE that writes a document and the columns taken from it.
LEMMA UpdateKeepsGood ==
  ASSUME NEW d, Good(d), NEW t \in ResourceTables, NEW k \in DOMAIN d[t], NEW doc,
         DocFits(t, doc), RowOK(Keys, d, t, Row(doc))
  PROVE  Good(UpdateRow(d, t, k, Row(doc)))
<1> DEFINE e == UpdateRow(d, t, k, Row(doc))
<1>1. DOMAIN e = Tables /\ t \in DOMAIN d
  BY DEF Good, UpdateRow, Tables
<1>2. ASSUME NEW u \in ResourceTables PROVE TableFits(u, e[u])
  <2>1. CASE u = t
    <3>1. e[t] = [x \in DOMAIN d[t] |-> IF x = k THEN Row(doc) ELSE d[t][x]]
      BY <1>1 DEF UpdateRow, Good, TableFits
    <3>2. RowFits(t, Row(doc))
      BY RowOfDocument DEF RowFits
    <3>3. \A x \in DOMAIN d[t] : RowFits(t, d[t][x])
      BY DEF Good, TableFits
    <3>4. e[t] = [x \in DOMAIN e[t] |-> e[t][x]]
      BY <3>1
    <3>5. \A x \in DOMAIN e[t] : RowFits(t, e[t][x])
      BY <3>1, <3>2, <3>3
    <3>6. QED BY <2>1, <3>4, <3>5 DEF TableFits
  <2>2. CASE u # t
    BY <2>2, <1>1 DEF Good, UpdateRow, Tables
  <2>3. QED BY <2>1, <2>2
<1>3. RefIntegrity(Keys, e)
  BY <1>1, GoodLayout, UpdateKeepsIntegrity DEF Good
<1>4. QED BY <1>1, <1>2, <1>3 DEF Good

\* No column is ever cleared: there are no SET NULL keys.
LEMMA NothingIsCleared ==
  ASSUME NEW t, NEW k, NEW u, NEW doc
  PROVE  ClearedRow(Keys, t, k, u, Row(doc)) = Row(doc)
<1>1. \A fk \in Keys : fk.action # SetNull
  BY ServiceKeys DEF NoAction, Cascade, SetNull
<1>2. ClearedRow(Keys, t, k, u, Row(doc)) = [col \in DOMAIN Row(doc) |-> Row(doc)[col]]
  BY <1>1 DEF ClearedRow
<1>3. QED BY <1>2 DEF Row

\* What a DELETE leaves is unchanged.
LEMMA DeleteLeavesRows ==
  ASSUME NEW d, Good(d), NEW t, NEW k, NEW u \in ResourceTables
  PROVE  /\ DOMAIN DeleteRow(Keys, d, t, k)[u] = DOMAIN d[u] \ Doomed(Keys, d, t, k, u)
         /\ \A x \in DOMAIN DeleteRow(Keys, d, t, k)[u] :
              DeleteRow(Keys, d, t, k)[u][x] = d[u][x]
         /\ TableFits(u, DeleteRow(Keys, d, t, k)[u])
<1> DEFINE new == DeleteRow(Keys, d, t, k)[u]
<1>1. u \in DOMAIN d
  BY DEF Good, Tables
<1>2. \A x \in DOMAIN d[u] : RowFits(u, d[u][x])
  BY DEF Good, TableFits
<1>3. ASSUME NEW x \in DOMAIN d[u] PROVE ClearedRow(Keys, t, k, u, d[u][x]) = d[u][x]
  <2>1. ClearedRow(Keys, t, k, u, Row(d[u][x].doc)) = Row(d[u][x].doc)
    BY NothingIsCleared
  <2>2. d[u][x] = Row(d[u][x].doc)
    BY <1>2 DEF RowFits
  <2>3. QED BY <2>1, <2>2
<1>4. new = [x \in DOMAIN d[u] \ Doomed(Keys, d, t, k, u) |-> ClearedRow(Keys, t, k, u, d[u][x])]
  BY <1>1 DEF DeleteRow
<1>5. /\ DOMAIN new = DOMAIN d[u] \ Doomed(Keys, d, t, k, u)
      /\ new = [x \in DOMAIN new |-> new[x]]
  BY <1>4
<1>6. \A x \in DOMAIN new : new[x] = d[u][x]
  BY <1>3, <1>4
<1>7. QED BY <1>2, <1>5, <1>6 DEF TableFits

\* A DELETE with its cascades.
LEMMA DeleteKeepsGood ==
  ASSUME NEW d, Good(d), NEW t \in ResourceTables, NEW k, ~Blocked(Keys, d, t, k)
  PROVE  Good(DeleteRow(Keys, d, t, k))
<1> DEFINE e == DeleteRow(Keys, d, t, k)
<1>1. DOMAIN e = Tables /\ t \in DOMAIN d
  BY DEF Good, DeleteRow, Tables
<1>2. ASSUME NEW u \in ResourceTables PROVE TableFits(u, e[u])
  BY DeleteLeavesRows
<1>3. RefIntegrity(Keys, e)
  BY <1>1, GoodLayout, ServiceKeys, DeleteKeepsIntegrity DEF Good
<1>4. QED BY <1>1, <1>2, <1>3 DEF Good

\* Nothing that happens elsewhere disturbs the resources.
LEMMA ElsewhereKeepsGood ==
  ASSUME NEW d, Good(d), NEW e, Elsewhere(d, e)
  PROVE  Good(e)
BY ServiceKeys DEF Good, Elsewhere, RefIntegrity

\* Whatever a handler does to the tables leaves them good.
LEMMA StepKeepsGood ==
  ASSUME NEW d, Good(d), NEW e, Step(d, e)
  PROVE  Good(e)
BY InsertKeepsGood, UpdateKeepsGood, DeleteKeepsGood, ElsewhereKeepsGood
   DEF Step, Inserted, Updated, Deleted

\* A DELETE in another table, or of a row that is gone from a table nothing refers to,
\* leaves the resources as they are, with or without the keys.
LEMMA DeleteElsewhere ==
  ASSUME NEW d, Good(d), NEW t, NEW k, NEW K \in {Keys, {}},
         \A fk \in Keys : fk.parent # t,
         t \in ResourceTables => k \notin DOMAIN d[t]
  PROVE  Elsewhere(d, DeleteRow(K, d, t, k))
<1> DEFINE e == DeleteRow(K, d, t, k)
<1>1. DOMAIN e = DOMAIN d
  BY DEF DeleteRow
<1>2. ASSUME NEW u \in ResourceTables PROVE e[u] = d[u]
  <2>1. \A fk \in K : fk.parent # t /\ fk.action # SetNull
    BY ServiceKeys DEF NoAction, Cascade, SetNull
  <2>2. Doomed(K, d, t, k, u) = {}
    BY <2>1 DEF Doomed
  <2>3. ASSUME NEW x \in DOMAIN d[u] PROVE ClearedRow(K, t, k, u, d[u][x]) = d[u][x]
    <3>1. d[u][x] = Row(d[u][x].doc)
      BY DEF Good, TableFits, RowFits
    <3>2. Row(d[u][x].doc)
            = [col \in DOMAIN Row(d[u][x].doc) |-> Row(d[u][x].doc)[col]]
      BY DEF Row
    <3>3. ClearedRow(K, t, k, u, d[u][x]) = [col \in DOMAIN d[u][x] |-> d[u][x][col]]
      BY <2>1 DEF ClearedRow
    <3>4. QED BY <3>1, <3>2, <3>3
  <2>4. e[u] = [x \in DOMAIN d[u] |-> ClearedRow(K, t, k, u, d[u][x])]
    BY <2>2 DEF DeleteRow, Good, Tables
  <2>5. d[u] = [x \in DOMAIN d[u] |-> d[u][x]]
    BY DEF Good, TableFits
  <2>6. QED BY <2>3, <2>4, <2>5
<1>3. QED BY <1>1, <1>2 DEF Elsewhere

-----------------------------------------------------------------------------
(***************************************************************************)
(* Every Step is a step of the store.                                      *)
(***************************************************************************)

\* The references of the store are the keys of the schema, with what becomes of the child.
LEMMA StoreReferences ==
  /\ Store!References = Keys
  /\ With(Keys, Cascade) = {fk \in Keys : fk.action = Cascade}
  /\ With(Keys, NoAction) = {fk \in Keys : fk.action = NoAction}
  /\ With(Keys, SetNull) = {}
<1>1. \A fk \in Keys : fk.action \in {NoAction, Cascade}
  BY ServiceKeys
<1>2. QED BY <1>1 DEF Store!References, With, NoAction, Cascade, SetNull

\* A row of a good database that passes the check of the foreign keys is settled.
LEMMA AcceptedRowsAreSettled ==
  ASSUME NEW t \in ResourceTables, NEW doc, DocFits(t, doc), RowOK(Keys, db, t, Row(doc))
  PROVE  Store!Settled(t, Row(doc))
<1>1. SUFFICES ASSUME NEW fk \in Keys, fk.child = t
               PROVE  /\ fk.col \in DOMAIN Row(doc)
                      /\ Row(doc)[fk.col] \in DOMAIN db[fk.parent] \cup {Null}
  BY StoreReferences, ServiceKeys DEF Store!Settled, Store!Live
<1>2. fk.col \in Columns(Keys, t)
  BY <1>1 DEF Columns
<1>3. QED BY <1>1, <1>2, RowOfDocument DEF RowOK

\* An INSERT is a resource that appears.
LEMMA InsertIsAppear ==
  ASSUME Good(db), Inserted(db, db')
  PROVE  Store!Next
<1>1. PICK t, k, doc :
        /\ t \in ResourceTables /\ k \notin DOMAIN db[t]
        /\ DocFits(t, doc) /\ RowOK(Keys, db, t, Row(doc))
        /\ db' = InsertRow(db, t, k, Row(doc))
  BY DEF Inserted
<1>2. t \in DOMAIN db
  BY <1>1 DEF Good, Tables
<1>3. /\ db'[t] = [x \in DOMAIN db[t] \cup {k} |-> IF x = k THEN Row(doc) ELSE db[t][x]]
      /\ \A u \in ResourceTables \ {t} : db'[u] = db[u]
  BY <1>1, <1>2 DEF InsertRow, Good, Tables
<1>4. /\ DOMAIN db'[t] = DOMAIN db[t] \cup {k}
      /\ db'[t][k] = Row(doc)
      /\ \A x \in DOMAIN db[t] : db'[t][x] = db[t][x]
  BY <1>1, <1>3
<1>5. Store!Settled(t, db'[t][k])
  BY <1>1, <1>4, AcceptedRowsAreSettled
<1>6. Store!Appear(t, k)
  BY <1>1, <1>3, <1>4, <1>5 DEF Store!Appear, Store!Live, Store!Unchanged
<1>7. QED BY <1>1, <1>4, <1>6 DEF Store!Next, Store!Live

\* An UPDATE that changes anything is a resource that refers to others from now on.
LEMMA UpdateIsRelink ==
  ASSUME Good(db), Updated(db, db'), ~Elsewhere(db, db')
  PROVE  Store!Next
<1>1. PICK t, k, doc :
        /\ t \in ResourceTables /\ k \in DOMAIN db[t]
        /\ DocFits(t, doc) /\ RowOK(Keys, db, t, Row(doc))
        /\ db' = UpdateRow(db, t, k, Row(doc))
  BY DEF Updated
<1>2. t \in DOMAIN db
  BY <1>1 DEF Good, Tables
<1>3. /\ DOMAIN db' = DOMAIN db
      /\ db'[t] = [x \in DOMAIN db[t] |-> IF x = k THEN Row(doc) ELSE db[t][x]]
      /\ \A u \in ResourceTables \ {t} : db'[u] = db[u]
  BY <1>1, <1>2 DEF UpdateRow, Good, Tables
<1>4. /\ DOMAIN db'[t] = DOMAIN db[t]
      /\ db'[t][k] = Row(doc)
      /\ \A x \in DOMAIN db[t] \ {k} : db'[t][x] = db[t][x]
  BY <1>1, <1>3
<1>5. Store!Settled(t, db'[t][k])
  BY <1>1, <1>4, AcceptedRowsAreSettled
<1>6. Store!Relink(t, k)
  BY <1>1, <1>3, <1>4, <1>5 DEF Store!Relink, Store!Live, Store!Unchanged
<1>7. db'[t] # db[t]
  BY <1>3 DEF Elsewhere
<1>8. QED BY <1>1, <1>4, <1>6, <1>7 DEF Store!Next, Store!Live

\* A DELETE is a resource that goes with what it owns.
LEMMA DeleteIsDisappear ==
  ASSUME Good(db), Deleted(db, db')
  PROVE  Store!Next
<1>1. PICK t, k :
        /\ t \in ResourceTables /\ k \in DOMAIN db[t]
        /\ ~Blocked(Keys, db, t, k)
        /\ db' = DeleteRow(Keys, db, t, k)
  BY DEF Deleted
<1>2. ASSUME NEW u \in ResourceTables
      PROVE  Store!Goes(t, k, u) = Doomed(Keys, db, t, k, u)
  BY <1>2, StoreReferences DEF Store!Goes, Store!Live, Doomed
<1>3. ASSUME NEW u \in ResourceTables, NEW x \in DOMAIN db[u]
      PROVE  Store!Detached(t, k, u, db[u][x]) = db[u][x]
  <2>1. Store!Detached(t, k, u, db[u][x]) = [col \in DOMAIN db[u][x] |-> db[u][x][col]]
    BY StoreReferences DEF Store!Detached
  <2>2. db[u][x] = Row(db[u][x].doc)
    BY DEF Good, TableFits, RowFits
  <2>3. Row(db[u][x].doc) = [col \in DOMAIN Row(db[u][x].doc) |-> Row(db[u][x].doc)[col]]
    BY DEF Row
  <2>4. QED BY <2>1, <2>2, <2>3
<1>4. \A fk \in Keys : fk.action = NoAction /\ fk.parent = t =>
        \A x \in DOMAIN db[fk.child] : db[fk.child][x][fk.col] # k
  BY <1>1 DEF Blocked, Referencing
<1>5. ASSUME NEW u \in ResourceTables
      PROVE  /\ DOMAIN db'[u] = DOMAIN db[u] \ Doomed(Keys, db, t, k, u)
             /\ \A x \in DOMAIN db'[u] : db'[u][x] = db[u][x]
  BY <1>1, DeleteLeavesRows
<1>6. Store!Disappear(t, k)
  <2> DEFINE rows == [u \in ResourceTables |-> db[u]]
  <2>1. \A ref \in With(Keys, NoAction) : ref.parent = t =>
          \A x \in Store!Live(ref.child) : rows[ref.child][x][ref.col] # k
    BY <1>4, StoreReferences, ServiceKeys DEF Store!Live
  <2>2. ASSUME NEW u \in ResourceTables
        PROVE  /\ DOMAIN db'[u] = Store!Live(u) \ Store!Goes(t, k, u)
               /\ \A x \in Store!Live(u) \ Store!Goes(t, k, u) :
                    db'[u][x] = Store!Detached(t, k, u, db[u][x])
    BY <1>2, <1>3, <1>5 DEF Store!Live
  <2>3. QED BY <1>1, <2>1, <2>2 DEF Store!Disappear, Store!Live
<1>7. k \notin DOMAIN db'[t]
  BY <1>1, <1>5 DEF Doomed
<1>8. QED BY <1>1, <1>6, <1>7 DEF Store!Next, Store!Live

\* Every Step is one step of the store, or none.
LEMMA StepIsStoreStep ==
  ASSUME Good(db), Step(db, db')
  PROVE  [Store!Next]_([t \in ResourceTables |-> db[t]])
<1>1. CASE Elsewhere(db, db')
  BY <1>1 DEF Elsewhere
<1>2. CASE ~Elsewhere(db, db')
  BY <1>2, InsertIsAppear, UpdateIsRelink, DeleteIsDisappear DEF Step
<1>3. QED BY <1>1, <1>2

-----------------------------------------------------------------------------
(***************************************************************************)
(* Every action is a Step and leaves locals that fit.                      *)
(***************************************************************************)

\* Client c goes on, or is answered, with locals that fit.
Handled(c) == \E r : LocalsFit(r) /\ req' = [req EXCEPT ![c] = r]

Fits(c) == Step(db, db') /\ Handled(c)

\* A handler that goes on does not touch the locals of others.
LEMMA HandlingFits ==
  ASSUME RequestsFit, NEW c \in Clients, Handled(c)
  PROVE  RequestsFit'
BY DEF RequestsFit, Handled

\* An answered request has no statement to come.
LEMMA AnswersFit ==
  ASSUME NEW c, NEW status, Answer(c, status)
  PROVE  Handled(c)
BY DEF Answer, Answered, Continue, Handled, LocalsFit

\* A statement that changes no table is a Step.
LEMMA StayingFits ==
  ASSUME UNCHANGED db
  PROVE  Step(db, db')
BY DEF Step, Elsewhere

\* A look-up changes no table; the locals it leads to have to fit.
LEMMA ReadFits ==
  ASSUME NEW c, NEW t, NEW k, NEW next, Read(c, t, k, next), Found(t, k) => LocalsFit(next)
  PROVE  Fits(c)
BY AnswersFit, StayingFits DEF Read, Continue, Handled, Fits

\* An INSERT of a row made from a document.
LEMMA InsertFits ==
  ASSUME NEW c, NEW t \in ResourceTables, NEW k, NEW doc, DocFits(t, doc),
         InsertJSON(Keys, c, t, k, Row(doc))
  PROVE  Fits(c)
<1>1. CASE UNCHANGED db /\ \E status : Answer(c, status)
  BY <1>1, AnswersFit, StayingFits DEF Fits
<1>2. CASE /\ ~Found(t, k) /\ RowOK(Keys, db, t, Row(doc))
           /\ db' = InsertRow(db, t, k, Row(doc))
           /\ Answer(c, "ok")
  BY <1>2, AnswersFit DEF Fits, Step, Inserted, Found
<1>3. QED BY <1>1, <1>2 DEF InsertJSON

\* An INSERT in a table that holds no resources.
LEMMA InsertElsewhereFits ==
  ASSUME Good(db), NEW c, NEW t \in Tables \ ResourceTables, NEW k, NEW row,
         InsertJSON({}, c, t, k, row)
  PROVE  Fits(c)
<1>1. CASE UNCHANGED db /\ \E status : Answer(c, status)
  BY <1>1, AnswersFit, StayingFits DEF Fits
<1>2. CASE db' = InsertRow(db, t, k, row) /\ Answer(c, "ok")
  <2>1. Elsewhere(db, db')
    BY <1>2 DEF Elsewhere, InsertRow, Good
  <2>2. QED BY <1>2, <2>1, AnswersFit DEF Fits, Step
<1>3. QED BY <1>1, <1>2 DEF InsertJSON

\* A DELETE takes away a resource, or a row that is none of the resources'.
LEMMA DeleteFits ==
  ASSUME Good(db), NEW c, NEW t \in Tables, NEW k, DeleteBy(Keys, c, t, k)
  PROVE  Fits(c)
<1>1. CASE UNCHANGED db /\ \E status : Answer(c, status)
  BY <1>1, AnswersFit, StayingFits DEF Fits
<1>2. CASE /\ Found(t, k) /\ ~Blocked(Keys, db, t, k)
           /\ db' = DeleteRow(Keys, db, t, k)
           /\ Answer(c, "ok")
  <2>1. CASE t \in ResourceTables
    BY <1>2, <2>1, AnswersFit DEF Fits, Step, Deleted, Found
  <2>2. CASE t \notin ResourceTables
    BY <1>2, <2>2, ServiceKeys, DeleteElsewhere, AnswersFit DEF Fits, Step
  <2>3. QED BY <2>1, <2>2
<1>3. QED BY <1>1, <1>2 DEF DeleteBy

\* A DELETE in a table that no key speaks of.
LEMMA DeleteUnkeyedFits ==
  ASSUME Good(db), NEW c, NEW t \in Tables \ ResourceTables, NEW k, DeleteBy({}, c, t, k)
  PROVE  Fits(c)
<1>1. CASE UNCHANGED db /\ \E status : Answer(c, status)
  BY <1>1, AnswersFit, StayingFits DEF Fits
<1>2. CASE db' = DeleteRow({}, db, t, k) /\ Answer(c, "ok")
  BY <1>2, ServiceKeys, DeleteElsewhere, AnswersFit DEF Fits, Step
<1>3. QED BY <1>1, <1>2 DEF DeleteBy

-----------------------------------------------------------------------------
(***************************************************************************)
(* The shapes of the operations.                                           *)
(***************************************************************************)

\* Creating a resource whose document has the columns of its table.
LEMMA CreateFits ==
  ASSUME NEW c, NEW t \in ResourceTables, NEW docs, \A d \in docs : DocFits(t, d),
         Create(c, t, docs)
  PROVE  Fits(c)
BY InsertFits DEF Create, CreateSimple

\* Merging a patch keeps the fields a document has.
LEMMA PatchFits ==
  ASSUME Good(db), NEW c, NEW t \in ResourceTables, NEW docs, Patch(c, t, docs)
  PROVE  Fits(c)
<1>1. PICK k, p : Read(c, t, k, [at |-> "WriteRow", table |-> t, key |-> k,
                                 doc |-> PatchMerge(db[t][k].doc, p)])
  BY DEF Patch
<1> DEFINE next == [at |-> "WriteRow", table |-> t, key |-> k,
                    doc |-> PatchMerge(db[t][k].doc, p)]
<1>2. ASSUME Found(t, k) PROVE LocalsFit(next)
  <2>1. DocFits(t, db[t][k].doc)
    BY <1>2 DEF Found, Good, TableFits, RowFits
  <2>2. DocFits(t, PatchMerge(db[t][k].doc, p))
    BY <2>1 DEF DocFits, PatchMerge
  <2>3. QED BY <2>2 DEF LocalsFit
<1>3. QED BY <1>1, <1>2, ReadFits

\* The write of an update, however stale its document is.
LEMMA WriteRowFits ==
  ASSUME RequestsFit, NEW c \in Clients, WriteRow(c)
  PROVE  Fits(c)
<1> DEFINE r == req[c]
<1>1. r.table \in ResourceTables /\ DocFits(r.table, r.doc)
  BY DEF WriteRow, RequestsFit, LocalsFit
<1>2. CASE UNCHANGED db /\ \E status : Answer(c, status)
  BY <1>2, AnswersFit, StayingFits DEF Fits
<1>3. CASE /\ ~(Found(r.table, r.key) /\ ~RowOK(Keys, db, r.table, Row(r.doc)))
           /\ db' = UpdateRow(db, r.table, r.key, Row(r.doc))
           /\ Answer(c, "ok")
  <2>1. CASE Found(r.table, r.key)
    BY <1>1, <1>3, <2>1, AnswersFit DEF Fits, Step, Updated, Found
  <2>2. CASE ~Found(r.table, r.key)
    BY <1>3, <2>2, AnswersFit, StayingFits DEF Fits, UpdateRow, Found
  <2>3. QED BY <2>1, <2>2
<1>4. QED BY <1>2, <1>3 DEF WriteRow

\* The two forms of a deletion.
LEMMA DeletesFit ==
  ASSUME Good(db), RequestsFit, NEW c \in Clients
  PROVE  /\ \A t \in ResourceTables : Delete(c, t) => Fits(c)
         /\ \A t \in Tables : ReadAndDelete(c, t) => Fits(c)
         /\ DeleteRead(c) => Fits(c)
<1>1. ASSUME NEW t \in ResourceTables, Delete(c, t) PROVE Fits(c)
  BY <1>1, DeleteFits DEF Delete, Tables
<1>2. ASSUME NEW t \in Tables, ReadAndDelete(c, t) PROVE Fits(c)
  <2>1. PICK k : Read(c, t, k, [at |-> "DeleteRead", table |-> t, key |-> k])
    BY <1>2 DEF ReadAndDelete
  <2>2. LocalsFit([at |-> "DeleteRead", table |-> t, key |-> k])
    BY DEF LocalsFit
  <2>3. QED BY <2>1, <2>2, ReadFits
<1>3. ASSUME DeleteRead(c) PROVE Fits(c)
  BY <1>3, DeleteFits DEF DeleteRead, RequestsFit, LocalsFit
<1>4. QED BY <1>1, <1>2, <1>3

\* A handler that only looks whether a resource is there.
LEMMA LookFits ==
  ASSUME NEW c, NEW t, Look(c, t)
  PROVE  Fits(c)
<1>1. LocalsFit(Answered("ok"))
  BY DEF LocalsFit, Answered
<1>2. QED BY <1>1, ReadFits DEF Look

\* The documents that requests create have the columns of their tables.
LEMMA GivenDocumentsFit ==
  /\ \A t \in PlainTables \cup {"vpcs", "vpc_public_gateways", "block_volumes"} :
       \A d \in NoRefs : DocFits(t, d)
  /\ \A t \in {"private_networks", "vpc_routes"} : \A d \in InVpc : DocFits(t, d)
  /\ \A d \in OfGateway : DocFits("vpc_gateway_networks", d)
  /\ \A d \in OnNetwork : DocFits("k8s_clusters", d)
  /\ \A d \in OfCluster : DocFits("k8s_pools", d)
  /\ \A d \in OfVolume : DocFits("block_snapshots", d)
<1>1. \A fk \in Keys :
        \/ fk.child \in {"private_networks", "vpc_routes"} /\ fk.col = "vpc_id"
        \/ fk.child = "vpc_gateway_networks" /\ fk.col \in {"gateway_id", "private_network_id"}
        \/ fk.child = "k8s_clusters" /\ fk.col = "private_network_id"
        \/ fk.child = "k8s_pools" /\ fk.col = "cluster_id"
        \/ fk.child = "block_snapshots" /\ fk.col = "volume_id"
  BY DEF Keys, VpcKeys, VpcGatewayKeys, K8sKeys, BlockKeys, ForeignKey
<1>2. \A t \in PlainTables \cup {"vpcs", "vpc_public_gateways", "block_volumes"} :
        Columns(Keys, t) = {}
  BY <1>1 DEF Columns, PlainTables
<1>3. /\ \A t \in {"private_networks", "vpc_routes"} : Columns(Keys, t) \subseteq {"vpc_id"}
      /\ Columns(Keys, "vpc_gateway_networks") \subseteq {"gateway_id", "private_network_id"}
      /\ Columns(Keys, "k8s_clusters") \subseteq {"private_network_id"}
      /\ Columns(Keys, "k8s_pools") \subseteq {"cluster_id"}
      /\ Columns(Keys, "block_snapshots") \subseteq {"volume_id"}
  BY <1>1 DEF Columns
<1>4. /\ \A d \in NoRefs : DOMAIN d = {}
      /\ \A d \in InVpc : DOMAIN d = {"vpc_id"}
      /\ \A d \in OfGateway : DOMAIN d = {"gateway_id", "private_network_id"}
      /\ \A d \in OnNetwork : DOMAIN d = {"private_network_id"}
      /\ \A d \in OfCluster : DOMAIN d = {"cluster_id"}
      /\ \A d \in OfVolume : DOMAIN d = {"volume_id"}
  BY DEF NoRefs, InVpc, OfGateway, OnNetwork, OfCluster, OfVolume
<1>5. QED BY <1>2, <1>3, <1>4 DEF DocFits

\* Every request for a plain resource.
LEMMA ArrivingFits ==
  ASSUME Good(db), RequestsFit, NEW c \in Clients, Arriving(c)
  PROVE  Fits(c)
<1>1. PlainTables \subseteq ResourceTables /\ ResourceTables \subseteq Tables
  BY DEF ResourceTables, Tables
<1>2. {"vpcs", "private_networks", "vpc_routes", "vpc_public_gateways",
       "vpc_gateway_networks", "k8s_clusters", "k8s_pools", "block_volumes",
       "block_snapshots", "ipam_ips", "registry_namespaces", "instance_volumes"}
        = ResourceTables
  BY DEF ResourceTables, PlainTables
<1>3. CASE Vpc(c) \/ Routes(c)
  BY <1>2, <1>3, GivenDocumentsFit, CreateFits, PatchFits, DeletesFit
     DEF Vpc, Routes, CreateVPC, UpdateVPC, DeleteVPC, CreatePrivateNetwork,
         UpdatePrivateNetwork, DeletePrivateNetwork, CreateVPCRoute, UpdateVPCRoute,
         DeleteVPCRoute
<1>4. CASE Gateways(c)
  BY <1>2, <1>4, GivenDocumentsFit, CreateFits, PatchFits, DeletesFit
     DEF Gateways, CreateVPCPublicGateway, UpdateVPCPublicGateway, DeleteVPCPublicGateway,
         CreateVPCGatewayNetwork, UpdateVPCGatewayNetwork, DeleteVPCGatewayNetwork
<1>5. CASE Kubernetes(c)
  BY <1>1, <1>2, <1>5, GivenDocumentsFit, CreateFits, PatchFits, DeletesFit
     DEF Kubernetes, CreateCluster, UpdateCluster, UpgradeCluster, SetClusterType,
         DeleteCluster, CreatePool, UpdatePool, UpgradePool, DeletePool
<1>6. CASE Block(c)
  <2>1. CASE DeleteBlockVolumeHandler(c)
    <3>1. ASSUME NEW k, Continue(c, [at |-> "DeleteStandalone", key |-> k]), UNCHANGED db
          PROVE  Fits(c)
      BY <3>1, StayingFits DEF Continue, Handled, LocalsFit, Fits
    <3>2. QED BY <1>1, <1>2, <2>1, <3>1, DeleteFits DEF DeleteBlockVolumeHandler
  <2>2. CASE DeleteVolume(c)
    <3>1. PICK k : db' = DeleteRow(Keys, db, "instance_volumes", k) /\ Answer(c, "ok")
      BY <2>2 DEF DeleteVolume
    <3>2. \A fk \in Keys : fk.parent # "instance_volumes"
      BY DEF Keys, VpcKeys, VpcGatewayKeys, K8sKeys, BlockKeys, ForeignKey
    <3>3. ~Blocked(Keys, db, "instance_volumes", k)
      BY <3>2 DEF Blocked
    <3>4. CASE k \in DOMAIN db["instance_volumes"]
      BY <1>2, <3>1, <3>3, <3>4, AnswersFit DEF Fits, Step, Deleted
    <3>5. CASE k \notin DOMAIN db["instance_volumes"]
      BY <3>1, <3>2, <3>5, DeleteElsewhere, AnswersFit DEF Fits, Step
    <3>6. QED BY <3>4, <3>5
  <2>3. CASE \/ CreateBlockVolume(c) \/ UpdateBlockVolume(c) \/ CreateBlockSnapshot(c)
             \/ UpdateBlockSnapshot(c) \/ DeleteBlockSnapshot(c)
             \/ CreateInstanceVolume(c) \/ UpdateInstanceVolume(c)
    BY <1>2, <2>3, GivenDocumentsFit, CreateFits, PatchFits, DeletesFit
       DEF CreateBlockVolume, UpdateBlockVolume, CreateBlockSnapshot, UpdateBlockSnapshot,
           DeleteBlockSnapshot, CreateInstanceVolume, UpdateInstanceVolume, PlainTables
  <2>4. QED BY <1>6, <2>1, <2>2, <2>3 DEF Block
<1>7. CASE Ipam(c) \/ Registry(c)
  BY <1>1, <1>2, <1>7, GivenDocumentsFit, CreateFits, PatchFits, DeletesFit, LookFits
     DEF Ipam, Registry, CreateIPAMIP, UpdateIPAMIP, DeleteIPAMIP, DetachIPAMIP, MoveIPAMIP,
         CreateRegistryNamespace, UpdateRegistryNamespace, DeleteRegistryNamespace, PlainTables
<1>8. QED BY <1>3, <1>4, <1>5, <1>6, <1>7 DEF Arriving

\* Every later statement of such a request.
LEMMA ProceedingFits ==
  ASSUME Good(db), RequestsFit, NEW c \in Clients, Proceeding(c)
  PROVE  Fits(c)
<1>1. CASE DeleteStandaloneVolume(c)
  <2>1. CASE DeleteBy(Keys, c, "instance_volumes", req[c].key)
    BY <2>1, DeleteFits DEF Tables, ResourceTables, PlainTables
  <2>2. CASE Continue(c, [at |-> "DeleteEmbedded"]) /\ UNCHANGED db
    BY <2>2, StayingFits DEF Continue, Handled, LocalsFit, Fits
  <2>3. QED BY <1>1, <2>1, <2>2 DEF DeleteStandaloneVolume
<1>2. CASE DeleteEmbeddedVolume(c)
  BY <1>2, AnswersFit, StayingFits DEF DeleteEmbeddedVolume, Fits
<1>3. QED BY <1>1, <1>2, WriteRowFits, DeletesFit DEF Proceeding

-----------------------------------------------------------------------------
(***************************************************************************)
(* The other tables: clusters and groups with lists, zones and records.    *)
(***************************************************************************)

\* These tables hold no resources.
LEMMA OtherTables ==
  /\ RedisTables \cup GroupTables \cup DnsTables \subseteq Tables \ ResourceTables
  /\ \A t \in RedisTables \cup GroupTables \cup DnsTables : \A fk \in Keys : fk.parent # t
<1>1. RedisTables \cup GroupTables \cup DnsTables \subseteq Tables \ ResourceTables
  BY DEF RedisTables, GroupTables, DnsTables, Tables, ResourceTables, PlainTables
<1>2. QED BY <1>1, ServiceKeys

\* The look-up that begins a change of lists.
LEMMA RewriteFits ==
  ASSUME NEW c, NEW t \in RedisTables \cup GroupTables, NEW k, NEW patch, NEW checked,
         \/ Read(c, t, k, Rewrite(t, k, patch, checked))
         \/ Continue(c, Rewrite(t, k, patch, checked)) /\ UNCHANGED db
  PROVE  Fits(c)
<1>1. LocalsFit(Rewrite(t, k, patch, checked))
  BY DEF LocalsFit, Rewrite
<1>2. QED BY <1>1, ReadFits, StayingFits DEF Continue, Handled, Fits

\* A statement on one of these tables leaves the resources as they are.
LEMMA ElsewhereIsStep ==
  ASSUME Good(db), NEW t \in RedisTables \cup GroupTables \cup DnsTables, NEW table,
         db' = [db EXCEPT ![t] = table]
  PROVE  Step(db, db')
<1>1. t \notin ResourceTables
  BY OtherTables
<1>2. Elsewhere(db, db')
  BY <1>1 DEF Elsewhere, Good, Tables
<1>3. QED BY <1>2 DEF Step

\* The write of a document with lists.
LEMMA WriteListsFits ==
  ASSUME Good(db), RequestsFit, NEW c \in Clients, WriteLists(c)
  PROVE  Fits(c)
<1> DEFINE r == req[c]
<1>1. r.table \in RedisTables \cup GroupTables
  BY DEF WriteLists, RequestsFit, LocalsFit
<1>2. Handled(c)
  BY AnswersFit DEF WriteLists
<1>3. CASE db' = db
  BY <1>2, <1>3, StayingFits DEF Fits
<1>4. CASE db' # db
  <2>1. db' = [db EXCEPT ![r.table] = [db[r.table] EXCEPT ![r.key] = [doc |-> r.doc]]]
    BY <1>4 DEF WriteLists, UpdateRow
  <2>2. QED BY <1>1, <1>2, <2>1, ElsewhereIsStep DEF Fits
<1>5. QED BY <1>3, <1>4

\* Every request for a Redis cluster or a security group.
LEMMA ListsFit ==
  ASSUME Good(db), RequestsFit, NEW c \in Clients, Redis(c) \/ SecurityGroup(c)
  PROVE  Fits(c)
<1>1. "redis_clusters" \in RedisTables /\ "instance_security_groups" \in GroupTables
  BY DEF RedisTables, GroupTables
<1>2. CASE CreateRedisCluster(c)
  <2>1. PICK k, row : db' = InsertRow(db, "redis_clusters", k, row)
    BY <1>2 DEF CreateRedisCluster
  <2>2. Step(db, db')
    BY <1>1, <2>1, ElsewhereIsStep DEF InsertRow
  <2>3. Handled(c)
    BY <1>2, AnswersFit DEF CreateRedisCluster
  <2>4. QED BY <2>2, <2>3 DEF Fits
<1>3. CASE \/ UpdateRedisCluster(c) \/ MigrateRedisCluster(c) \/ SetRedisACLRules(c)
           \/ SetRedisEndpoints(c) \/ SetRedisClusterSettings(c)
           \/ UpdateSecurityGroup(c) \/ SetSecurityGroupRules(c)
  BY <1>1, <1>3, RewriteFits
     DEF UpdateRedisCluster, MigrateRedisCluster, SetRedisACLRules, SetRedisEndpoints,
         SetRedisClusterSettings, UpdateSecurityGroup, SetSecurityGroupRules, SetList
<1>4. CASE DeleteRedisEndpoint(c)
  <2>1. \/ \E k, e : Continue(c, Rewrite("redis_clusters", k, e, TRUE)) /\ UNCHANGED db
        \/ Answer(c, "not_found") /\ UNCHANGED db
    BY <1>4 DEF DeleteRedisEndpoint
  <2>2. QED BY <1>1, <2>1, RewriteFits, AnswersFit, StayingFits DEF Fits
<1>5. CASE DeleteRedisCluster(c) \/ DeleteSecurityGroup(c)
  BY <1>1, <1>5, OtherTables, DeletesFit, DeleteFits
     DEF DeleteRedisCluster, DeleteSecurityGroup, Delete
<1>6. CASE CreateSecurityGroup(c)
  BY <1>1, <1>6, OtherTables, InsertElsewhereFits DEF CreateSecurityGroup, CreateSimple
<1>7. QED BY <1>2, <1>3, <1>4, <1>5, <1>6 DEF Redis, SecurityGroup

\* Every request for a zone or its records.
LEMMA DnsFits ==
  ASSUME Good(db), NEW c \in Clients, Dns(c)
  PROVE  Fits(c)
<1>1. {"dns_zones", "domain_records"} \subseteq DnsTables
  BY DEF DnsTables
<1>2. CASE CreateDNSZone(c)
  BY <1>1, <1>2, OtherTables, InsertElsewhereFits DEF CreateDNSZone
<1>3. CASE UpdateDNSZone(c)
  <2>1. PICK z : Read(c, "dns_zones", z, [at |-> "WriteZone", zone |-> z])
    BY <1>3 DEF UpdateDNSZone
  <2>2. LocalsFit([at |-> "WriteZone", zone |-> z])
    BY DEF LocalsFit
  <2>3. QED BY <2>1, <2>2, ReadFits
<1>4. CASE BeginDeleteDNSZone(c)
  <2>1. PICK z : /\ db' = [db EXCEPT !["domain_records"]
                              = [k \in DOMAIN @ \ RecordsOf(z) |-> @[k]]]
                 /\ Continue(c, [at |-> "DeleteZone", zone |-> z])
    BY <1>4 DEF BeginDeleteDNSZone
  <2>2. LocalsFit([at |-> "DeleteZone", zone |-> z])
    BY DEF LocalsFit
  <2>3. Step(db, db')
    BY <1>1, <2>1, ElsewhereIsStep
  <2>4. QED BY <2>1, <2>2, <2>3 DEF Continue, Handled, Fits
<1>5. CASE BeginPatchRecords(c)
  <2>1. PICK z, todo :
          Read(c, "dns_zones", z,
               [at |-> "PatchRecords", zone |-> z, todo |-> todo, matched |-> {}])
    BY <1>5 DEF BeginPatchRecords
  <2>2. LocalsFit([at |-> "PatchRecords", zone |-> z, todo |-> todo, matched |-> {}])
    BY DEF LocalsFit
  <2>3. QED BY <2>1, <2>2, ReadFits
<1>6. QED BY <1>2, <1>3, <1>4, <1>5 DEF Dns

\* Every later statement of such a request.
LEMMA DnsProceedingFits ==
  ASSUME Good(db), RequestsFit, NEW c \in Clients, DnsProceeding(c)
  PROVE  Fits(c)
<1>1. {"dns_zones", "domain_records"} \subseteq DnsTables
  BY DEF DnsTables
<1>2. "at" \in DOMAIN req[c]
  BY DEF RequestsFit, LocalsFit
<1>3. req[c].at = "PatchRecords" => LocalsFit(Done(c))
  BY <1>2 DEF LocalsFit, Done
<1>4. \A k : db' = Without(k) => Step(db, db')
  BY <1>1, ElsewhereIsStep DEF Without
<1>5. CASE WriteZone(c)
  BY <1>5, AnswersFit, StayingFits DEF WriteZone, Fits
<1>6. CASE DeleteDNSZone(c)
  BY <1>1, <1>6, OtherTables, DeleteUnkeyedFits DEF DeleteDNSZone
<1>7. CASE AddRecord(c)
  <2>1. PICK k, row : db' = InsertRow(db, "domain_records", k, row)
    BY <1>7 DEF AddRecord
  <2>2. Step(db, db')
    BY <1>1, <2>1, ElsewhereIsStep DEF InsertRow
  <2>3. QED BY <1>3, <1>7, <2>2 DEF AddRecord, NextIs, Continue, Handled, Fits
<1>8. CASE DeleteRecord(c)
  <2>1. Step(db, db')
    BY <1>4, <1>8, StayingFits DEF DeleteRecord
  <2>2. QED BY <1>3, <1>8, <2>1 DEF DeleteRecord, NextIs, Continue, Handled, Fits
<1>9. CASE MatchRecords(c)
  <2>1. LocalsFit([req[c] EXCEPT !.at = "ListRecords"])
    BY <1>2 DEF LocalsFit
  <2>2. QED BY <1>3, <1>9, <2>1, StayingFits
            DEF MatchRecords, NextIs, Continue, Handled, Fits
<1>10. CASE ListRecords(c)
  <2>1. PICK matched :
          Continue(c, [req[c] EXCEPT !.at = "PatchRecords", !.todo = Tail(@), !.matched = matched])
    BY <1>10 DEF ListRecords
  <2>2. LocalsFit([req[c] EXCEPT !.at = "PatchRecords", !.todo = Tail(@), !.matched = matched])
    BY <1>2 DEF LocalsFit
  <2>3. UNCHANGED db
    BY <1>10 DEF ListRecords
  <2>4. QED BY <2>1, <2>2, <2>3, StayingFits DEF Continue, Handled, Fits
<1>11. CASE DeleteMatched(c)
  <2>1. PICK k : /\ db' = Without(k)
                 /\ Continue(c, [req[c] EXCEPT !.matched = @ \ {k}])
    BY <1>11 DEF DeleteMatched
  <2>2. req[c].at = "PatchRecords"
    BY <1>11 DEF DeleteMatched
  <2>3. LocalsFit([req[c] EXCEPT !.matched = @ \ {k}])
    BY <1>2, <2>2 DEF LocalsFit
  <2>4. QED BY <1>4, <2>1, <2>3 DEF Continue, Handled, Fits
<1>12. CASE EndPatchRecords(c)
  <2>1. LocalsFit(Answered("ok"))
    BY DEF LocalsFit, Answered
  <2>2. QED BY <1>12, <2>1, ReadFits DEF EndPatchRecords
<1>13. QED BY <1>5, <1>6, <1>7, <1>8, <1>9, <1>10, <1>11, <1>12 DEF DnsProceeding

-----------------------------------------------------------------------------
(***************************************************************************)
(* The theorems.                                                           *)
(***************************************************************************)

\* Every step of the specification is a Step of the database and leaves locals that fit.
LEMMA NextFits ==
  ASSUME IInv, [Next]_vars
  PROVE  Step(db, db') /\ RequestsFit'
<1>1. CASE UNCHANGED vars
  BY <1>1, StayingFits DEF vars, IInv, RequestsFit
<1>2. ASSUME NEW c \in Clients, Arrive(c) \/ Proceed(c)
      PROVE  Step(db, db') /\ RequestsFit'
  <2>1. Fits(c)
    BY <1>2, ArrivingFits, ProceedingFits, WriteListsFits, ListsFit, DnsFits,
       DnsProceedingFits
       DEF IInv, Arrive, Proceed
  <2>2. QED BY <2>1, HandlingFits DEF Fits, IInv
<1>3. QED BY <1>1, <1>2 DEF Next

\* An empty database and no request satisfy the invariant.
LEMMA InitFits == Init => IInv
<1> SUFFICES ASSUME Init PROVE IInv
  OBVIOUS
<1>1. RefIntegrity(Keys, db)
  BY ServiceKeys DEF Init, RefIntegrity, EmptyTable, Tables
<1>2. \A t \in ResourceTables : TableFits(t, db[t])
  BY DEF Init, TableFits, EmptyTable, Tables
<1>3. RequestsFit
  BY DEF Init, RequestsFit, LocalsFit, Answered
<1>4. QED BY <1>1, <1>2, <1>3 DEF IInv, Good, Init

\* The invariant of the plain services: every row is a document with the columns taken
\* from it, referring to rows that exist, and every write to come has this form.
THEOREM ServicesInvariant == Spec => []IInv
<1>1. IInv /\ [Next]_vars => IInv'
  <2> SUFFICES ASSUME IInv, [Next]_vars PROVE IInv'
    OBVIOUS
  <2>1. Step(db, db') /\ RequestsFit'
    BY NextFits
  <2>2. Good(db')
    BY <2>1, StepKeepsGood DEF IInv
  <2>3. QED BY <2>1, <2>2 DEF IInv, Good
<1>2. QED BY <1>1, InitFits, PTL DEF Spec

\* The services implement the abstract store: whatever handlers had read before, resources
\* appear, move and disappear one by one, always referring to resources that are there.
THEOREM ServicesImplementStore == Spec => ServicesKeepReferences
<1>1. Init => Store!Init
  BY DEF Init, Store!Init, EmptyTable, Tables
<1>2. IInv /\ [Next]_vars => [Store!Next]_([t \in ResourceTables |-> db[t]])
  BY NextFits, StepIsStoreStep DEF IInv
<1>3. QED BY <1>1, <1>2, ServicesInvariant, PTL DEF Spec, ServicesKeepReferences, Store!Spec

\* Documents say what columns say, and columns refer to rows that exist.
LEMMA InvariantNamesLiveRows == IInv => DocumentsNameLiveRows
<1> SUFFICES ASSUME IInv, NEW fk \in Keys, NEW k \in DOMAIN db[fk.child]
             PROVE  db[fk.child][k].doc[fk.col] \in DOMAIN db[fk.parent] \cup {Null}
  BY DEF DocumentsNameLiveRows
<1>1. fk.child \in ResourceTables /\ fk.col \in Columns(Keys, fk.child)
  BY ServiceKeys DEF Columns
<1>2. RowFits(fk.child, db[fk.child][k])
  BY <1>1 DEF IInv, Good, TableFits
<1>3. db[fk.child][k][fk.col] = db[fk.child][k].doc[fk.col]
  BY <1>1, <1>2, RowOfDocument DEF RowFits
<1>4. QED BY <1>3 DEF IInv, Good, RefIntegrity

\* What documents say of other resources is live, also after a patch that moved the
\* resource and was computed from a stale document.
THEOREM DocumentsStayLive == Spec => []DocumentsNameLiveRows
BY InvariantNamesLiveRows, ServicesInvariant, PTL

-----------------------------------------------------------------------------
(***************************************************************************)
(* Types.  The tables and the handlers are typed over the uuids handed     *)
(* out, iss, as they only get more.                                        *)
(***************************************************************************)
IsRecord(row) == row = [x \in DOMAIN row |-> row[x]]

RowTyped(t, row) ==
  /\ row.doc \in DocsOf(t) /\ IsRecord(row)
  /\ \A col \in Columns(Keys, t) : row[col] \in UUIDs \cup {Null}

TablesTyped(iss, d) ==
  /\ DOMAIN d = Tables
  /\ \A t \in Tables : \A k \in DOMAIN d[t] : k \in IdsOf(iss, t) /\ RowTyped(t, d[t][k])

\* What a patch of DNS records matched is gone, or in the zone of the patch: a uuid does
\* not come back in another zone.  Whoever lists records has a change to make.
PatchingFits(iss, d, r) ==
  /\ r.at = "ListRecords" => r.todo # <<>>
  /\ r.at = "PatchRecords" => \A k \in r.matched :
       /\ k \in iss
       /\ k \in DOMAIN d["domain_records"] => d["domain_records"][k].dns_zone = r.zone

TInv ==
  /\ issued \subseteq UUIDs
  /\ TablesTyped(issued, db)
  /\ \A c \in Clients : RequestOK(issued, req[c]) /\ PatchingFits(issued, db, req[c])

\* What a statement may do to the tables, row by row: a row stays as it is, or is a new
\* one, or, if it is no DNS record, another typed one.
Moved(iss, new, d, e) ==
  /\ DOMAIN e = Tables
  /\ \A t \in Tables : \A k \in DOMAIN e[t] :
       \/ k \in DOMAIN d[t] /\ e[t][k] = d[t][k]
       \/ k \in DOMAIN d[t] /\ t # "domain_records" /\ RowTyped(t, e[t][k])
       \/ /\ k \notin DOMAIN d[t] /\ RowTyped(t, e[t][k])
          /\ k \in IF t = "dns_zones" THEN Zones ELSE new \ iss

\* Tables t keep their rows.
Keeps(tables, d, e) ==
  \A t \in tables : DOMAIN e[t] = DOMAIN d[t] /\ \A k \in DOMAIN d[t] : e[t][k] = d[t][k]

\* What DocsOf gives each table, table by table.
LEMMA DocumentsByTable ==
  /\ \A t \in {"private_networks", "vpc_routes"} : DocsOf(t) = InVpc
  /\ DocsOf("vpc_gateway_networks") = OfGateway
  /\ DocsOf("k8s_clusters") = OnNetwork
  /\ DocsOf("k8s_pools") = OfCluster
  /\ DocsOf("block_snapshots") = OfVolumeOrNone
  /\ DocsOf("redis_clusters") = Lists
  /\ DocsOf("instance_security_groups") = GroupDocs
  /\ DocsOf("dns_zones") = {Null}
  /\ DocsOf("domain_records") = Fields
  /\ \A t \in PlainTables \cup {"vpcs", "vpc_public_gateways", "block_volumes"} :
       DocsOf(t) = NoRefs
BY DEF DocsOf, PlainTables

\* The reference columns of each table, as schema() declares them.
LEMMA ColumnsByTable ==
  /\ \A t \in {"private_networks", "vpc_routes"} : Columns(Keys, t) \subseteq {"vpc_id"}
  /\ Columns(Keys, "vpc_gateway_networks") \subseteq {"gateway_id", "private_network_id"}
  /\ Columns(Keys, "k8s_clusters") \subseteq {"private_network_id"}
  /\ Columns(Keys, "k8s_pools") \subseteq {"cluster_id"}
  /\ Columns(Keys, "block_snapshots") \subseteq {"volume_id"}
  /\ \A t \in PlainTables \cup {"vpcs", "vpc_public_gateways", "block_volumes"} :
       Columns(Keys, t) = {}
  /\ \A t \in RedisTables \cup GroupTables \cup DnsTables : Columns(Keys, t) = {}
<1>1. \A fk \in Keys :
        \/ fk.child \in {"private_networks", "vpc_routes"} /\ fk.col = "vpc_id"
        \/ fk.child = "vpc_gateway_networks" /\ fk.col \in {"gateway_id", "private_network_id"}
        \/ fk.child = "k8s_clusters" /\ fk.col = "private_network_id"
        \/ fk.child = "k8s_pools" /\ fk.col = "cluster_id"
        \/ fk.child = "block_snapshots" /\ fk.col = "volume_id"
  BY DEF Keys, VpcKeys, VpcGatewayKeys, K8sKeys, BlockKeys, ForeignKey
<1>2. QED BY <1>1 DEF Columns, PlainTables, RedisTables, GroupTables, DnsTables

\* InsertJSON stores a typed document with the columns taken from it: the row is typed.
LEMMA TypedRow ==
  ASSUME NEW t \in ResourceTables, NEW doc \in DocsOf(t)
  PROVE  RowTyped(t, Row(doc)) /\ DocFits(t, doc)
<1> DEFINE OK == /\ "doc" \notin DOMAIN doc
                 /\ \A col \in Columns(Keys, t) :
                      col \in DOMAIN doc /\ doc[col] \in UUIDs \cup {Null}
<1>1. ASSUME t \in {"private_networks", "vpc_routes"} PROVE OK
  <2>1. doc \in InVpc /\ Columns(Keys, t) \subseteq {"vpc_id"}
    BY <1>1, DocumentsByTable, ColumnsByTable
  <2>2. QED BY <2>1 DEF InVpc
<1>2. ASSUME t = "vpc_gateway_networks" PROVE OK
  <2>1. doc \in OfGateway /\ Columns(Keys, t) \subseteq {"gateway_id", "private_network_id"}
    BY <1>2, DocumentsByTable, ColumnsByTable
  <2>2. QED BY <2>1 DEF OfGateway
<1>3. ASSUME t = "k8s_clusters" PROVE OK
  <2>1. doc \in OnNetwork /\ Columns(Keys, t) \subseteq {"private_network_id"}
    BY <1>3, DocumentsByTable, ColumnsByTable
  <2>2. QED BY <2>1 DEF OnNetwork
<1>4. ASSUME t = "k8s_pools" PROVE OK
  <2>1. doc \in OfCluster /\ Columns(Keys, t) \subseteq {"cluster_id"}
    BY <1>4, DocumentsByTable, ColumnsByTable
  <2>2. QED BY <2>1 DEF OfCluster
<1>5. ASSUME t = "block_snapshots" PROVE OK
  <2>1. doc \in OfVolumeOrNone /\ Columns(Keys, t) \subseteq {"volume_id"}
    BY <1>5, DocumentsByTable, ColumnsByTable
  <2>2. QED BY <2>1 DEF OfVolumeOrNone
<1>6. ASSUME t \in PlainTables \cup {"vpcs", "vpc_public_gateways", "block_volumes"} PROVE OK
  <2>1. doc \in NoRefs /\ Columns(Keys, t) = {}
    BY <1>6, DocumentsByTable, ColumnsByTable
  <2>2. DOMAIN doc = {}
    BY <2>1 DEF NoRefs
  <2>3. QED BY <2>1, <2>2
<1>7. OK
  BY <1>1, <1>2, <1>3, <1>4, <1>5, <1>6 DEF ResourceTables
<1>8. DocFits(t, doc)
  BY <1>7 DEF DocFits
<1>9. IsRecord(Row(doc))
  BY DEF IsRecord, Row
<1>10. QED BY <1>7, <1>8, <1>9, RowOfDocument DEF RowTyped

\* A table without reference columns stores the document alone: its rows are typed.
LEMMA TypedDocument ==
  ASSUME NEW t \in RedisTables \cup GroupTables, NEW doc \in DocsOf(t)
  PROVE  RowTyped(t, [doc |-> doc])
<1>1. Columns(Keys, t) = {}
  BY ColumnsByTable
<1>2. QED BY <1>1 DEF RowTyped, IsRecord

\* The rows that CreateDNSZone and PatchDomainRecords insert are typed.
LEMMA TypedDnsRow ==
  /\ RowTyped("dns_zones", ZoneRow)
  /\ \A z \in Zones, f \in Fields : RowTyped("domain_records", RecordRow(z, f))
<1>1. Columns(Keys, "dns_zones") = {} /\ Columns(Keys, "domain_records") = {}
  BY ColumnsByTable DEF DnsTables
<1>2. QED BY <1>1, DocumentsByTable DEF RowTyped, IsRecord, ZoneRow, RecordRow

\* patchMerge of a typed patch into a typed document yields a typed document.
LEMMA TypedMerge ==
  /\ \A cur \in InVpc : \A p \in PatchesOf(InVpc) : PatchMerge(cur, p) \in InVpc
  /\ \A cur \in InVpc : \A p \in PatchesOf(InVpcOrNone) : PatchMerge(cur, p) \in InVpcOrNone
  /\ \A cur \in OfGateway : \A p \in PatchesOf(OfGateway) : PatchMerge(cur, p) \in OfGateway
  /\ \A cur \in OnNetwork : \A p \in PatchesOf(OnNetwork) \cup PatchesOf(NoRefs) :
       PatchMerge(cur, p) \in OnNetwork
  /\ \A cur \in OfCluster : \A p \in PatchesOf(OfCluster) \cup PatchesOf(NoRefs) :
       PatchMerge(cur, p) \in OfCluster
  /\ \A cur \in OfVolumeOrNone : \A p \in PatchesOf(OfVolumeOrNone) :
       PatchMerge(cur, p) \in OfVolumeOrNone
  /\ \A cur \in NoRefs : \A p \in PatchesOf(NoRefs) : PatchMerge(cur, p) \in NoRefs
<1>1. \A cur \in InVpc : \A p \in PatchesOf(InVpc) : PatchMerge(cur, p) \in InVpc
  BY DEF PatchesOf, PatchMerge, InVpc
<1>2. \A cur \in InVpc : \A p \in PatchesOf(InVpcOrNone) : PatchMerge(cur, p) \in InVpcOrNone
  BY DEF PatchesOf, PatchMerge, InVpc, InVpcOrNone
<1>3. \A cur \in OfGateway : \A p \in PatchesOf(OfGateway) : PatchMerge(cur, p) \in OfGateway
  BY DEF PatchesOf, PatchMerge, OfGateway
<1>4. \A cur \in OnNetwork : \A p \in PatchesOf(OnNetwork) \cup PatchesOf(NoRefs) :
        PatchMerge(cur, p) \in OnNetwork
  BY DEF PatchesOf, PatchMerge, OnNetwork, NoRefs
<1>5. \A cur \in OfCluster : \A p \in PatchesOf(OfCluster) \cup PatchesOf(NoRefs) :
        PatchMerge(cur, p) \in OfCluster
  BY DEF PatchesOf, PatchMerge, OfCluster, NoRefs
<1>6. \A cur \in OfVolumeOrNone : \A p \in PatchesOf(OfVolumeOrNone) :
        PatchMerge(cur, p) \in OfVolumeOrNone
  BY DEF PatchesOf, PatchMerge, OfVolumeOrNone
<1>7. \A cur \in NoRefs : \A p \in PatchesOf(NoRefs) : PatchMerge(cur, p) \in NoRefs
  BY DEF PatchesOf, PatchMerge, NoRefs
<1>8. QED BY <1>1, <1>2, <1>3, <1>4, <1>5, <1>6, <1>7

-----------------------------------------------------------------------------
(***************************************************************************)
(* What the statements do to types.                                        *)
(***************************************************************************)
DnsAts == {"WriteZone", "DeleteZone", "PatchRecords", "ListRecords"}

\* A statement after which the handler is at one of ats and zones and records are as before.
Quiet(c, ats) ==
  /\ issued \subseteq issued' /\ issued' \subseteq UUIDs
  /\ Moved(issued, issued', db, db') /\ Keeps(DnsTables, db, db')
  /\ \E r : Continue(c, r) /\ RequestOK(issued', r) /\ r.at \in ats \ DnsAts

\* Any statement.
Moves(c) ==
  /\ issued \subseteq issued' /\ issued' \subseteq UUIDs
  /\ Moved(issued, issued', db, db')
  /\ \E r : Continue(c, r) /\ RequestOK(issued', r) /\ PatchingFits(issued', db', r)

\* A statement that leaves zones and records alone is one of those any handler may make.
LEMMA QuietMoves ==
  ASSUME NEW c, NEW ats, Quiet(c, ats) PROVE Moves(c)
BY DEF Quiet, Moves, PatchingFits, DnsAts

\* Which tables there are: the DNS tables, and the ones that hold resources.
LEMMA ServiceTables ==
  /\ ResourceTables \cup RedisTables \cup GroupTables = Tables \ DnsTables
  /\ DnsTables \subseteq Tables
  /\ "redis_clusters" \in RedisTables /\ "instance_security_groups" \in GroupTables
  /\ \A t \in Tables \ DnsTables : t # "dns_zones" /\ t # "domain_records"
  /\ "dns_zones" \in Tables /\ "domain_records" \in Tables
BY DEF ResourceTables, PlainTables, RedisTables, GroupTables, DnsTables, Tables

\* A handler stays well typed when others are handed more uuids.
LEMMA RequestsStayOK ==
  ASSUME NEW iss, NEW new, iss \subseteq new, NEW r, RequestOK(iss, r)
  PROVE  RequestOK(new, r)
<1>1. CASE r \in [at : {"DeleteRead"}, table : Tables \ DnsTables, key : iss]
  <2>1. r \in [at : {"DeleteRead"}, table : Tables \ DnsTables, key : new]
    BY <1>1
  <2>2. QED BY <2>1 DEF RequestOK
<1>2. CASE r \in [at : {"answered"}, status : Statuses]
  BY <1>2 DEF RequestOK
<1>3. CASE r \in [at : {"DeleteStandalone"}, key : UUIDs] \/ r = [at |-> "DeleteEmbedded"]
  BY <1>3 DEF RequestOK
<1>4. CASE r \in [at : {"WriteZone", "DeleteZone"}, zone : Zones] \/ r \in Patching
  BY <1>4 DEF RequestOK
<1>5. CASE /\ r.at = "WriteRow"
           /\ r.table \in ResourceTables /\ r.key \in iss
           /\ r.doc \in DocsOf(r.table) \/ (r.table = "private_networks" /\ r.doc \in InVpcOrNone)
  BY <1>5 DEF RequestOK
<1>6. CASE /\ r.at = "WriteLists"
           /\ r.table \in RedisTables \cup GroupTables /\ r.key \in iss
           /\ r.doc \in DocsOf(r.table) /\ r.names \subseteq DOMAIN r.doc
  BY <1>6 DEF RequestOK
<1>7. QED BY <1>1, <1>2, <1>3, <1>4, <1>5, <1>6 DEF RequestOK

\* What a handler holds, by the statement it is at.
LEMMA LocalsOfRequests ==
  ASSUME NEW iss, NEW r, RequestOK(iss, r)
  PROVE  /\ r.at = "answered" => r \in [at : {"answered"}, status : Statuses]
         /\ r.at = "WriteRow" =>
              /\ r.table \in ResourceTables /\ r.key \in iss
              /\ \/ r.doc \in DocsOf(r.table)
                 \/ r.table = "private_networks" /\ r.doc \in InVpcOrNone
         /\ r.at = "DeleteRead" =>
              r \in [at : {"DeleteRead"}, table : Tables \ DnsTables, key : iss]
         /\ r.at = "DeleteStandalone" => r \in [at : {"DeleteStandalone"}, key : UUIDs]
         /\ r.at = "WriteLists" =>
              /\ r.table \in RedisTables \cup GroupTables /\ r.key \in iss
              /\ r.doc \in DocsOf(r.table) /\ r.names \subseteq DOMAIN r.doc
         /\ r.at \in {"WriteZone", "DeleteZone"} =>
              r \in [at : {"WriteZone", "DeleteZone"}, zone : Zones]
         /\ r.at \in {"PatchRecords", "ListRecords"} => r \in Patching
BY DEF RequestOK, Patching

\* Rows that only move as Moved says leave the tables typed.
LEMMA MovedKeepsTypes ==
  ASSUME NEW iss, NEW new, iss \subseteq new, NEW d, NEW e,
         TablesTyped(iss, d), Moved(iss, new, d, e)
  PROVE  TablesTyped(new, e)
<1>1. ASSUME NEW t \in Tables, NEW k \in DOMAIN e[t]
      PROVE  k \in IdsOf(new, t) /\ RowTyped(t, e[t][k])
  <2>1. k \in DOMAIN d[t] => k \in IdsOf(iss, t) /\ RowTyped(t, d[t][k])
    BY DEF TablesTyped
  <2>2. IdsOf(iss, t) \subseteq IdsOf(new, t)
    BY DEF IdsOf
  <2>3. \/ k \in DOMAIN d[t] /\ e[t][k] = d[t][k]
        \/ k \in DOMAIN d[t] /\ RowTyped(t, e[t][k])
        \/ /\ k \notin DOMAIN d[t] /\ RowTyped(t, e[t][k])
           /\ k \in IF t = "dns_zones" THEN Zones ELSE new \ iss
    BY DEF Moved
  <2>4. QED BY <2>1, <2>2, <2>3 DEF IdsOf
<1>2. DOMAIN e = Tables
  BY DEF Moved
<1>3. QED BY <1>1, <1>2 DEF TablesTyped

\* A record that was matched in a zone is still in that zone, or deleted: newID gives its
\* uuid to no other record.
LEMMA MovedKeepsMatches ==
  ASSUME NEW iss, NEW new, iss \subseteq new, NEW d, NEW e,
         Moved(iss, new, d, e), NEW r, PatchingFits(iss, d, r)
  PROVE  PatchingFits(new, e, r)
<1>1. SUFFICES ASSUME r.at = "PatchRecords", NEW k \in r.matched
               PROVE  /\ k \in new
                      /\ k \in DOMAIN e["domain_records"] =>
                           e["domain_records"][k].dns_zone = r.zone
  BY DEF PatchingFits
<1>2. /\ k \in iss
      /\ k \in DOMAIN d["domain_records"] => d["domain_records"][k].dns_zone = r.zone
  BY <1>1 DEF PatchingFits
<1>3. ASSUME k \in DOMAIN e["domain_records"]
      PROVE  /\ k \in DOMAIN d["domain_records"]
             /\ e["domain_records"][k] = d["domain_records"][k]
  BY <1>2, <1>3, ServiceTables DEF Moved
<1>4. QED BY <1>2, <1>3

\* An INSERT of a typed row, under a fresh uuid or the name of a zone.
LEMMA InsertMoved ==
  ASSUME NEW iss, NEW new, NEW d, TablesTyped(iss, d), NEW t \in Tables, NEW k, NEW row,
         k \notin DOMAIN d[t], RowTyped(t, row),
         k \in IF t = "dns_zones" THEN Zones ELSE new \ iss
  PROVE  /\ Moved(iss, new, d, InsertRow(d, t, k, row))
         /\ t \notin DnsTables => Keeps(DnsTables, d, InsertRow(d, t, k, row))
<1> DEFINE e == InsertRow(d, t, k, row)
<1>1. DOMAIN d = Tables
  BY DEF TablesTyped
<1>2. /\ DOMAIN e = DOMAIN d
      /\ \A u \in DOMAIN d \ {t} : e[u] = d[u]
      /\ DOMAIN e[t] = DOMAIN d[t] \cup {k}
      /\ e[t][k] = row
      /\ \A x \in DOMAIN d[t] : e[t][x] = d[t][x]
  BY <1>1, InsertAddsOneRow
<1> HIDE DEF e
<1>3. Moved(iss, new, d, e)
  BY <1>1, <1>2 DEF Moved
<1>4. t \notin DnsTables => Keeps(DnsTables, d, e)
  BY <1>1, <1>2, ServiceTables DEF Keeps
<1>5. QED BY <1>3, <1>4 DEF e

\* An UPDATE of a row to a typed one; no handler updates a DNS record.
LEMMA UpdateMoved ==
  ASSUME NEW iss, NEW d, TablesTyped(iss, d), NEW t \in Tables \ DnsTables, NEW k, NEW row,
         k \in DOMAIN d[t] => RowTyped(t, row)
  PROVE  /\ Moved(iss, iss, d, UpdateRow(d, t, k, row))
         /\ Keeps(DnsTables, d, UpdateRow(d, t, k, row))
<1> DEFINE e == UpdateRow(d, t, k, row)
<1>1. DOMAIN d = Tables
  BY DEF TablesTyped
<1>2. CASE k \in DOMAIN d[t]
  <2>1. /\ DOMAIN e = DOMAIN d
        /\ \A u \in DOMAIN d \ {t} : e[u] = d[u]
        /\ DOMAIN e[t] = DOMAIN d[t]
        /\ e[t][k] = row
        /\ \A x \in DOMAIN d[t] \ {k} : e[t][x] = d[t][x]
    BY <1>1, <1>2, UpdateChangesOneRow
  <2> HIDE DEF e
  <2>2. Moved(iss, iss, d, e)
    BY <1>1, <1>2, <2>1, ServiceTables DEF Moved
  <2>3. Keeps(DnsTables, d, e)
    BY <1>1, <2>1, ServiceTables DEF Keeps
  <2>4. QED BY <2>2, <2>3 DEF e
<1>3. CASE k \notin DOMAIN d[t]
  BY <1>1, <1>3, ServiceTables DEF UpdateRow, Moved, Keeps
<1>4. QED BY <1>2, <1>3

\* A DELETE, whether its foreign keys cascade, set NULL or are refused.
LEMMA DeleteMoved ==
  ASSUME NEW iss, NEW d, TablesTyped(iss, d), NEW t \in Tables, NEW k, NEW K \in {Keys, {}}
  PROVE  /\ Moved(iss, iss, d, DeleteRow(K, d, t, k))
         /\ t \notin DnsTables => Keeps(DnsTables, d, DeleteRow(K, d, t, k))
<1> DEFINE e == DeleteRow(K, d, t, k)
<1>1. DOMAIN d = Tables
  BY DEF TablesTyped
<1>2. \A fk \in K : fk.action # SetNull /\ fk.child \notin DnsTables
  BY ServiceKeys, OtherTables DEF NoAction, Cascade, SetNull
<1>3. ASSUME NEW u \in Tables, NEW x \in DOMAIN d[u]
      PROVE  d[u][x] = [col \in DOMAIN d[u][x] |-> d[u][x][col]]
  BY DEF TablesTyped, RowTyped, IsRecord
<1>4. DOMAIN e = Tables
  BY <1>1 DEF DeleteRow
<1>5. ASSUME NEW u \in Tables
      PROVE  /\ DOMAIN e[u] = DOMAIN d[u] \ Doomed(K, d, t, k, u)
             /\ \A x \in DOMAIN e[u] : e[u][x] = d[u][x]
  BY <1>1, <1>2, <1>3, DeleteOnlyTakesAway
<1>6. \A u \in DnsTables \ {t} : Doomed(K, d, t, k, u) = {}
  BY <1>2 DEF Doomed
<1> HIDE DEF e
<1>7. Moved(iss, iss, d, e)
  BY <1>4, <1>5 DEF Moved
<1>8. t \notin DnsTables => Keeps(DnsTables, d, e)
  BY <1>1, <1>5, <1>6, ServiceTables DEF Keeps
<1>9. QED BY <1>7, <1>8 DEF e

\* A statement that changes no table.
LEMMA StayMoved ==
  ASSUME NEW iss, NEW d, TablesTyped(iss, d)
  PROVE  Moved(iss, iss, d, d) /\ Keeps(DnsTables, d, d)
BY DEF TablesTyped, Moved, Keeps

-----------------------------------------------------------------------------
(***************************************************************************)
(* The shapes of the operations keep the types.                            *)
(***************************************************************************)

\* A handler that answers without having changed a table.
LEMMA AnswerQuiet ==
  ASSUME TInv, NEW c, NEW status \in Statuses, Answer(c, status), UNCHANGED <<db, issued>>
  PROVE  Quiet(c, {"answered"})
<1>1. RequestOK(issued', Answered(status)) /\ Answered(status).at = "answered"
  BY DEF RequestOK, Answered
<1>2. QED BY <1>1, StayMoved DEF Quiet, TInv, Answer, DnsAts

\* A handler that answers after a statement on the tables.
LEMMA AnswerAfter ==
  ASSUME NEW c, NEW status \in Statuses, Answer(c, status),
         issued \subseteq issued', issued' \subseteq UUIDs,
         Moved(issued, issued', db, db'), Keeps(DnsTables, db, db')
  PROVE  Quiet(c, {"answered"})
<1>1. RequestOK(issued', Answered(status)) /\ Answered(status).at = "answered"
  BY DEF RequestOK, Answered
<1>2. QED BY <1>1 DEF Quiet, Answer, DnsAts

\* The statements that may follow can be given more generously.
LEMMA QuietAmong ==
  ASSUME NEW c, NEW ats, NEW more, Quiet(c, ats), ats \subseteq more
  PROVE  Quiet(c, more)
BY DEF Quiet

\* A handler that looks a row up answers 404, or goes on with what it found.
LEMMA ReadQuiet ==
  ASSUME TInv, NEW c, NEW t, NEW k, NEW next, Read(c, t, k, next),
         NEW ats, "answered" \in ats,
         Found(t, k) => RequestOK(issued, next) /\ next.at \in ats \ DnsAts
  PROVE  Quiet(c, ats)
<1>1. UNCHANGED <<db, issued>>
  BY DEF Read
<1>2. CASE Answer(c, "not_found")
  BY <1>1, <1>2, AnswerQuiet, QuietAmong DEF Statuses
<1>3. CASE Found(t, k) /\ Continue(c, next)
  <2>1. Moved(issued, issued', db, db') /\ Keeps(DnsTables, db, db')
    BY <1>1, StayMoved DEF TInv
  <2>2. QED BY <1>1, <1>3, <2>1 DEF Quiet, TInv
<1>4. QED BY <1>2, <1>3 DEF Read

\* createSimple: an INSERT under a fresh uuid, which a foreign key may refuse.
LEMMA CreateSimpleQuiet ==
  ASSUME TInv, NEW c, NEW K, NEW t \in Tables \ DnsTables, NEW k \in UUIDs, NEW row,
         RowTyped(t, row), CreateSimple(K, c, t, k, row)
  PROVE  Quiet(c, {"answered"})
<1>1. /\ k \notin issued /\ issued' = issued \cup {k}
      /\ InsertJSON(K, c, t, k, row)
  BY DEF CreateSimple
<1>2. issued \subseteq issued' /\ issued' \subseteq UUIDs
  BY <1>1 DEF TInv
<1>3. CASE UNCHANGED db /\ \E status \in Statuses : Answer(c, status)
  <2>1. Moved(issued, issued', db, db') /\ Keeps(DnsTables, db, db')
    BY <1>3 DEF TInv, TablesTyped, Moved, Keeps
  <2>2. QED BY <1>2, <1>3, <2>1, AnswerAfter
<1>4. CASE /\ ~Found(t, k) /\ db' = InsertRow(db, t, k, row) /\ Answer(c, "ok")
  <2>1. Moved(issued, issued', db, db') /\ Keeps(DnsTables, db, db')
    BY <1>1, <1>4, ServiceTables, InsertMoved DEF TInv, Found
  <2>2. QED BY <1>2, <1>4, <2>1, AnswerAfter DEF Statuses
<1>5. QED BY <1>1, <1>3, <1>4 DEF InsertJSON, Statuses

\* deleteBy: a DELETE, which a foreign key may refuse.
LEMMA DeleteQuiet ==
  ASSUME TInv, NEW c, NEW t \in Tables \ DnsTables, NEW k, NEW K \in {Keys, {}},
         DeleteBy(K, c, t, k)
  PROVE  Quiet(c, {"answered"})
<1>1. CASE UNCHANGED db /\ \E status \in Statuses : Answer(c, status)
  BY <1>1, AnswerQuiet DEF DeleteBy
<1>2. CASE db' = DeleteRow(K, db, t, k) /\ Answer(c, "ok")
  <2>1. Moved(issued, issued, db, db') /\ Keeps(DnsTables, db, db')
    BY <1>2, DeleteMoved DEF TInv
  <2>2. QED BY <1>2, <2>1, AnswerAfter DEF DeleteBy, TInv, Statuses
<1>3. QED BY <1>1, <1>2 DEF DeleteBy, Statuses

\* A request that creates a resource without looking at anything first.
LEMMA CreateQuiet ==
  ASSUME TInv, NEW c, NEW t \in ResourceTables, NEW docs, docs \subseteq DocsOf(t),
         Create(c, t, docs)
  PROVE  Quiet(c, {"answered"})
<1>1. PICK k \in UUIDs, doc \in docs : CreateSimple(Keys, c, t, k, Row(doc))
  BY DEF Create
<1>2. RowTyped(t, Row(doc))
  BY TypedRow
<1>3. QED BY <1>1, <1>2, ServiceTables, CreateSimpleQuiet

\* What merging a patch leads to.
Merges(t, docs) ==
  \A cur \in DocsOf(t) : \A p \in PatchesOf(docs) :
    \/ PatchMerge(cur, p) \in DocsOf(t)
    \/ t = "private_networks" /\ PatchMerge(cur, p) \in InVpcOrNone

PlainAts == {"answered", "WriteRow", "DeleteRead", "DeleteStandalone", "DeleteEmbedded"}

\* The read of an update: the document, merged with the patch, is what will be written.
LEMMA PatchQuiet ==
  ASSUME TInv, NEW c, NEW t \in ResourceTables, NEW docs, Merges(t, docs), Patch(c, t, docs)
  PROVE  Quiet(c, PlainAts)
<1>1. PICK k \in UUIDs : \E p \in PatchesOf(docs) :
        Read(c, t, k, [at |-> "WriteRow", table |-> t, key |-> k,
                       doc |-> PatchMerge(db[t][k].doc, p)])
  BY DEF Patch
<1>2. PICK p \in PatchesOf(docs) :
        Read(c, t, k, [at |-> "WriteRow", table |-> t, key |-> k,
                       doc |-> PatchMerge(db[t][k].doc, p)])
  BY <1>1
<1> DEFINE next == [at |-> "WriteRow", table |-> t, key |-> k,
                    doc |-> PatchMerge(db[t][k].doc, p)]
<1>3. ASSUME Found(t, k) PROVE RequestOK(issued, next)
  <2>1. t \in Tables /\ IdsOf(issued, t) = issued
    BY ServiceTables DEF IdsOf
  <2>2. k \in issued /\ db[t][k].doc \in DocsOf(t)
    BY <1>3, <2>1 DEF TInv, TablesTyped, RowTyped, Found
  <2>3. \/ next.doc \in DocsOf(t)
        \/ t = "private_networks" /\ next.doc \in InVpcOrNone
    BY <2>2 DEF Merges
  <2>4. next.at = "WriteRow" /\ next.table = t /\ next.key = k
    OBVIOUS
  <2> HIDE DEF next
  <2>5. QED BY <2>2, <2>3, <2>4 DEF RequestOK
<1>4. next.at \in PlainAts \ DnsAts /\ "answered" \in PlainAts
  BY DEF PlainAts, DnsAts
<1>5. Read(c, t, k, next)
  BY <1>2
<1> HIDE DEF next
<1>6. QED BY <1>3, <1>4, <1>5, ReadQuiet

\* The write of an update: the document that was read before, and its columns.
LEMMA WriteRowQuiet ==
  ASSUME TInv, NEW c \in Clients, WriteRow(c)
  PROVE  Quiet(c, {"answered"})
<1> DEFINE r == req[c]
<1>1. /\ r.table \in ResourceTables
      /\ r.doc \in DocsOf(r.table) \/ (r.table = "private_networks" /\ r.doc \in InVpcOrNone)
  BY LocalsOfRequests DEF WriteRow, TInv
<1>2. CASE UNCHANGED db /\ \E status \in Statuses : Answer(c, status)
  BY <1>2, AnswerQuiet DEF WriteRow
<1>3. CASE /\ ~(Found(r.table, r.key) /\ EmptyRequired(r.table, r.doc))
           /\ db' = UpdateRow(db, r.table, r.key, Row(r.doc))
           /\ Answer(c, "ok")
  <2>1. ASSUME Found(r.table, r.key) PROVE r.doc \in DocsOf(r.table)
    <3>1. CASE r.table = "private_networks" /\ r.doc \in InVpcOrNone
      <4>1. r.doc.vpc_id # Null
        BY <1>3, <2>1, <3>1 DEF EmptyRequired
      <4>2. r.doc \in InVpc
        BY <3>1, <4>1 DEF InVpc, InVpcOrNone
      <4>3. QED BY <3>1, <4>2, DocumentsByTable
    <3>2. QED BY <1>1, <3>1
  <2>2. r.key \in DOMAIN db[r.table] => RowTyped(r.table, Row(r.doc))
    BY <1>1, <2>1, TypedRow DEF Found
  <2>3. Moved(issued, issued, db, db') /\ Keeps(DnsTables, db, db')
    BY <1>1, <1>3, <2>2, ServiceTables, UpdateMoved DEF TInv
  <2>4. QED BY <1>3, <2>3, AnswerAfter DEF WriteRow, TInv, Statuses
<1>4. QED BY <1>2, <1>3 DEF WriteRow, Statuses

\* The deletions that read the row first, or delete what it refers to as well.
LEMMA DeletesQuiet ==
  ASSUME TInv, NEW c \in Clients
  PROVE  /\ \A t \in Tables \ DnsTables : Delete(c, t) => Quiet(c, {"answered"})
         /\ \A t \in Tables \ DnsTables :
              ReadAndDelete(c, t) => Quiet(c, {"answered", "DeleteRead"})
         /\ DeleteRead(c) => Quiet(c, {"answered"})
<1>1. ASSUME NEW t \in Tables \ DnsTables, Delete(c, t) PROVE Quiet(c, {"answered"})
  BY <1>1, DeleteQuiet DEF Delete
<1>2. ASSUME NEW t \in Tables \ DnsTables, ReadAndDelete(c, t)
      PROVE  Quiet(c, {"answered", "DeleteRead"})
  <2>1. PICK k : Read(c, t, k, [at |-> "DeleteRead", table |-> t, key |-> k])
    BY <1>2 DEF ReadAndDelete
  <2> DEFINE next == [at |-> "DeleteRead", table |-> t, key |-> k]
  <2>2. ASSUME Found(t, k) PROVE RequestOK(issued, next)
    <3>1. k \in issued
      BY <2>2, ServiceTables DEF TInv, TablesTyped, IdsOf, Found
    <3>2. QED BY <3>1 DEF RequestOK
  <2>3. next.at \in {"answered", "DeleteRead"} \ DnsAts
    BY DEF DnsAts
  <2>4. Read(c, t, k, next)
    BY <2>1
  <2> HIDE DEF next
  <2>5. QED BY <2>2, <2>3, <2>4, ReadQuiet
<1>3. ASSUME DeleteRead(c) PROVE Quiet(c, {"answered"})
  BY <1>3, LocalsOfRequests, DeleteQuiet DEF DeleteRead, TInv
<1>4. QED BY <1>1, <1>2, <1>3

\* A request that only looks a row up.
LEMMA LookQuiet ==
  ASSUME TInv, NEW c, NEW t, Look(c, t)
  PROVE  Quiet(c, {"answered"})
<1>1. RequestOK(issued, Answered("ok")) /\ Answered("ok").at \in {"answered"} \ DnsAts
  BY DEF RequestOK, Answered, Statuses, DnsAts
<1>2. QED BY <1>1, ReadQuiet DEF Look

\* The documents the services merge are typed before and after.
LEMMA ServicePatches ==
  /\ \A t \in PlainTables \cup {"vpcs", "vpc_public_gateways", "block_volumes"} :
       Merges(t, NoRefs)
  /\ Merges("private_networks", InVpcOrNone) /\ Merges("vpc_routes", InVpc)
  /\ Merges("vpc_gateway_networks", OfGateway)
  /\ Merges("k8s_clusters", OnNetwork) /\ Merges("k8s_clusters", NoRefs)
  /\ Merges("k8s_pools", OfCluster) /\ Merges("k8s_pools", NoRefs)
  /\ Merges("block_snapshots", OfVolumeOrNone)
BY DocumentsByTable, TypedMerge DEF Merges

\* The documents the services create are typed.
LEMMA ServiceCreations ==
  /\ \A t \in PlainTables \cup {"vpcs", "vpc_public_gateways", "block_volumes"} :
       NoRefs \subseteq DocsOf(t)
  /\ \A t \in {"private_networks", "vpc_routes"} : InVpc \subseteq DocsOf(t)
  /\ OfGateway \subseteq DocsOf("vpc_gateway_networks")
  /\ OnNetwork \subseteq DocsOf("k8s_clusters")
  /\ OfCluster \subseteq DocsOf("k8s_pools")
  /\ OfVolume \subseteq DocsOf("block_snapshots")
<1>1. OfVolume \subseteq OfVolumeOrNone
  BY DEF OfVolume, OfVolumeOrNone
<1>2. QED BY <1>1, DocumentsByTable

\* The first statement of every request for a resource of the plain services.
LEMMA ArrivingQuiet ==
  ASSUME TInv, NEW c \in Clients, Arriving(c)
  PROVE  Quiet(c, PlainAts)
<1>1. {"vpcs", "private_networks", "vpc_routes", "vpc_public_gateways",
       "vpc_gateway_networks", "k8s_clusters", "k8s_pools", "block_volumes",
       "block_snapshots", "ipam_ips", "registry_namespaces", "instance_volumes"}
        = ResourceTables
  BY DEF ResourceTables, PlainTables
<1>2. ResourceTables \subseteq Tables \ DnsTables
  BY ServiceTables
<1>3. {"answered"} \subseteq PlainAts /\ {"answered", "DeleteRead"} \subseteq PlainAts
  BY DEF PlainAts
<1>4. \A t \in ResourceTables : Delete(c, t) \/ ReadAndDelete(c, t) => Quiet(c, PlainAts)
  BY <1>2, <1>3, DeletesQuiet, QuietAmong
<1>5. \A t : Look(c, t) => Quiet(c, PlainAts)
  BY <1>3, LookQuiet, QuietAmong
<1>6. ASSUME NEW t \in ResourceTables, NEW docs, Create(c, t, docs), docs \subseteq DocsOf(t)
      PROVE  Quiet(c, PlainAts)
  <2>1. Quiet(c, {"answered"})
    BY <1>6, CreateQuiet
  <2>2. QED BY <1>3, <2>1, QuietAmong
<1>7. \A t \in ResourceTables : \A docs :
        Patch(c, t, docs) /\ Merges(t, docs) => Quiet(c, PlainAts)
  BY PatchQuiet
<1>8. PlainTables = {"ipam_ips", "registry_namespaces", "instance_volumes"}
  BY DEF PlainTables
<1>9. CASE Vpc(c) \/ Routes(c)
  BY <1>1, <1>4, <1>6, <1>7, <1>9, ServiceCreations, ServicePatches
     DEF Vpc, Routes, CreateVPC, UpdateVPC, DeleteVPC, CreatePrivateNetwork,
         UpdatePrivateNetwork, DeletePrivateNetwork, CreateVPCRoute, UpdateVPCRoute,
         DeleteVPCRoute
<1>10. CASE Gateways(c)
  BY <1>1, <1>4, <1>6, <1>7, <1>10, ServiceCreations, ServicePatches
     DEF Gateways, CreateVPCPublicGateway, UpdateVPCPublicGateway, DeleteVPCPublicGateway,
         CreateVPCGatewayNetwork, UpdateVPCGatewayNetwork, DeleteVPCGatewayNetwork
<1>11. CASE Kubernetes(c)
  BY <1>1, <1>4, <1>6, <1>7, <1>11, ServiceCreations, ServicePatches
     DEF Kubernetes, CreateCluster, UpdateCluster, UpgradeCluster, SetClusterType,
         DeleteCluster, CreatePool, UpdatePool, UpgradePool, DeletePool
<1>12. CASE Block(c)
  <2>1. CASE DeleteBlockVolumeHandler(c)
    <3>1. ASSUME NEW k \in UUIDs, Continue(c, [at |-> "DeleteStandalone", key |-> k]),
                 UNCHANGED <<db, issued>>
          PROVE  Quiet(c, PlainAts)
      <4>1. RequestOK(issued', [at |-> "DeleteStandalone", key |-> k])
        BY DEF RequestOK
      <4>2. Moved(issued, issued', db, db') /\ Keeps(DnsTables, db, db')
        BY <3>1, StayMoved DEF TInv
      <4>3. [at |-> "DeleteStandalone", key |-> k].at \in PlainAts \ DnsAts
        BY DEF PlainAts, DnsAts
      <4>4. QED BY <3>1, <4>1, <4>2, <4>3 DEF Quiet, TInv
    <3>2. ASSUME NEW k, DeleteBy(Keys, c, "block_volumes", k) PROVE Quiet(c, PlainAts)
      <4>1. Quiet(c, {"answered"})
        BY <1>1, <1>2, <3>2, DeleteQuiet
      <4>2. QED BY <1>3, <4>1, QuietAmong
    <3>3. QED BY <2>1, <3>1, <3>2 DEF DeleteBlockVolumeHandler
  <2>2. CASE DeleteVolume(c)
    <3>1. PICK k : db' = DeleteRow(Keys, db, "instance_volumes", k)
      BY <2>2 DEF DeleteVolume
    <3>2. Moved(issued, issued, db, db') /\ Keeps(DnsTables, db, db')
      BY <1>1, <1>2, <3>1, DeleteMoved DEF TInv
    <3>3. Quiet(c, {"answered"})
      BY <2>2, <3>2, AnswerAfter DEF DeleteVolume, TInv, Statuses
    <3>4. QED BY <1>3, <3>3, QuietAmong
  <2>3. CASE \/ CreateBlockVolume(c) \/ UpdateBlockVolume(c) \/ CreateBlockSnapshot(c)
             \/ UpdateBlockSnapshot(c) \/ DeleteBlockSnapshot(c)
             \/ CreateInstanceVolume(c) \/ UpdateInstanceVolume(c)
    BY <1>1, <1>4, <1>6, <1>7, <1>8, <2>3, ServiceCreations, ServicePatches
       DEF CreateBlockVolume, UpdateBlockVolume, CreateBlockSnapshot, UpdateBlockSnapshot,
           DeleteBlockSnapshot, CreateInstanceVolume, UpdateInstanceVolume
  <2>4. QED BY <1>12, <2>1, <2>2, <2>3 DEF Block
<1>13. CASE Ipam(c) \/ Registry(c)
  BY <1>1, <1>4, <1>5, <1>6, <1>7, <1>8, <1>13, ServiceCreations, ServicePatches
     DEF Ipam, Registry, CreateIPAMIP, UpdateIPAMIP, DeleteIPAMIP, DetachIPAMIP, MoveIPAMIP,
         CreateRegistryNamespace, UpdateRegistryNamespace, DeleteRegistryNamespace
<1>14. QED BY <1>9, <1>10, <1>11, <1>12, <1>13 DEF Arriving

\* Every later statement of such a request.
LEMMA ProceedingQuiet ==
  ASSUME TInv, NEW c \in Clients, Proceeding(c)
  PROVE  Quiet(c, PlainAts)
<1>1. {"answered"} \subseteq PlainAts
  BY DEF PlainAts
<1>2. CASE DeleteStandaloneVolume(c)
  <2>1. CASE DeleteBy(Keys, c, "instance_volumes", req[c].key)
    <3>1. "instance_volumes" \in Tables \ DnsTables
      BY ServiceTables DEF ResourceTables, PlainTables
    <3>2. Quiet(c, {"answered"})
      BY <2>1, <3>1, DeleteQuiet
    <3>3. QED BY <1>1, <3>2, QuietAmong
  <2>2. CASE Continue(c, [at |-> "DeleteEmbedded"]) /\ UNCHANGED <<db, issued>>
    <3>1. RequestOK(issued', [at |-> "DeleteEmbedded"])
      BY DEF RequestOK
    <3>2. Moved(issued, issued', db, db') /\ Keeps(DnsTables, db, db')
      BY <2>2, StayMoved DEF TInv
    <3>3. [at |-> "DeleteEmbedded"].at \in PlainAts \ DnsAts
      BY DEF PlainAts, DnsAts
    <3>4. QED BY <2>2, <3>1, <3>2, <3>3 DEF Quiet, TInv
  <2>3. QED BY <1>2, <2>1, <2>2 DEF DeleteStandaloneVolume
<1>3. CASE DeleteEmbeddedVolume(c)
  <2>1. \E status \in Statuses : Answer(c, status)
    BY <1>3 DEF DeleteEmbeddedVolume, Statuses
  <2>2. UNCHANGED <<db, issued>>
    BY <1>3 DEF DeleteEmbeddedVolume
  <2>3. QED BY <1>1, <2>1, <2>2, AnswerQuiet, QuietAmong
<1>4. CASE WriteRow(c) \/ DeleteRead(c)
  BY <1>1, <1>4, WriteRowQuiet, DeletesQuiet, QuietAmong
<1>5. QED BY <1>2, <1>3, <1>4 DEF Proceeding

-----------------------------------------------------------------------------
(***************************************************************************)
(* Clusters and groups with lists.                                         *)
(***************************************************************************)
ListAts == {"answered", "DeleteRead", "WriteLists"}

\* The document a request is about to write has the lists of the row, except for those it
\* names.
Agrees(d, r) ==
  \A name \in DOMAIN r.doc \ r.names :
    r.key \in DOMAIN d[r.table] => d[r.table][r.key].doc[name] = r.doc[name]

\* What a request about lists reads is what it will write, with the patch merged into it.
LEMMA RewriteOK ==
  ASSUME TInv, NEW t \in RedisTables \cup GroupTables, NEW k \in DOMAIN db[t], NEW patch,
         NEW checked, DOMAIN patch \subseteq DOMAIN db[t][k].doc,
         PatchMerge(db[t][k].doc, patch) \in DocsOf(t)
  PROVE  /\ RequestOK(issued, Rewrite(t, k, patch, checked))
         /\ Rewrite(t, k, patch, checked).at = "WriteLists"
         /\ Agrees(db, Rewrite(t, k, patch, checked))
<1> DEFINE r == Rewrite(t, k, patch, checked)
           cur == db[t][k].doc
<1>1. /\ r.at = "WriteLists" /\ r.table = t /\ r.key = k /\ r.names = DOMAIN patch
      /\ r.doc = PatchMerge(cur, patch)
  BY DEF Rewrite
<1>2. /\ DOMAIN r.doc = DOMAIN cur
      /\ \A name \in DOMAIN cur \ DOMAIN patch : r.doc[name] = cur[name]
  BY <1>1 DEF PatchMerge
<1>3. k \in issued
  BY ServiceTables DEF TInv, TablesTyped, IdsOf
<1> HIDE DEF r
<1>4. RequestOK(issued, r)
  BY <1>1, <1>2, <1>3 DEF RequestOK
<1>5. Agrees(db, r)
  BY <1>1, <1>2 DEF Agrees
<1>6. QED BY <1>1, <1>4, <1>5 DEF r

\* patchMerge into a document with lists replaces the lists that the patch names.
LEMMA ListsMerge ==
  ASSUME TInv
  PROVE  /\ \A cur \in Lists :
              \A p \in PatchesOf(GivenDocs) \cup NoRefs \cup [{"acl_rules"} -> GivenLists]
                        \cup [{"settings"} -> GivenLists] \cup [{"endpoints"} -> GivenEndpoints] :
                PatchMerge(cur, p) \in Lists /\ DOMAIN p \subseteq DOMAIN cur
         /\ \A cur \in GroupDocs :
              \A p \in PatchesOf(GroupDocs) \cup [{"rules"} -> GivenLists] :
                PatchMerge(cur, p) \in GroupDocs /\ DOMAIN p \subseteq DOMAIN cur
<1> DEFINE Eps == SUBSET (UUIDs \cup {Null})
<1>1. GivenEndpoints \subseteq Eps
  BY DEF TInv, GivenEndpoints
<1>2. ASSUME NEW cur \in Lists
      PROVE  /\ cur = [x \in {"acl_rules", "endpoints", "settings"} |-> cur[x]]
             /\ cur.acl_rules \in GivenLists /\ cur.settings \in GivenLists
             /\ cur.endpoints \in Eps
  BY DEF Lists
<1>3. ASSUME NEW p \in PatchesOf(GivenDocs) \cup NoRefs \cup [{"acl_rules"} -> GivenLists]
                        \cup [{"settings"} -> GivenLists] \cup [{"endpoints"} -> GivenEndpoints]
      PROVE  /\ DOMAIN p \subseteq {"acl_rules", "endpoints", "settings"}
             /\ "acl_rules" \in DOMAIN p => p.acl_rules \in GivenLists
             /\ "settings" \in DOMAIN p => p.settings \in GivenLists
             /\ "endpoints" \in DOMAIN p => p.endpoints \in Eps
  <2>1. CASE p \in PatchesOf(GivenDocs)
    <3>1. PICK d \in GivenDocs : \E D \in SUBSET DOMAIN d : p = [col \in D |-> d[col]]
      BY <2>1 DEF PatchesOf
    <3>2. PICK D \in SUBSET DOMAIN d : p = [col \in D |-> d[col]]
      BY <3>1
    <3>3. /\ DOMAIN d = {"acl_rules", "endpoints", "settings"}
          /\ d.acl_rules \in GivenLists /\ d.settings \in GivenLists
          /\ d.endpoints \in Eps
      BY <1>1 DEF GivenDocs
    <3>4. QED BY <3>2, <3>3
  <2>2. CASE p \in NoRefs
    BY <2>2 DEF NoRefs
  <2>3. CASE p \in [{"acl_rules"} -> GivenLists]
    BY <2>3
  <2>4. CASE p \in [{"settings"} -> GivenLists]
    BY <2>4
  <2>5. CASE p \in [{"endpoints"} -> GivenEndpoints]
    BY <1>1, <2>5
  <2>6. QED BY <2>1, <2>2, <2>3, <2>4, <2>5
<1>4. ASSUME NEW cur, NEW p,
             cur = [x \in {"acl_rules", "endpoints", "settings"} |-> cur[x]],
             cur.acl_rules \in GivenLists, cur.settings \in GivenLists,
             cur.endpoints \in Eps,
             DOMAIN p \subseteq {"acl_rules", "endpoints", "settings"},
             "acl_rules" \in DOMAIN p => p.acl_rules \in GivenLists,
             "settings" \in DOMAIN p => p.settings \in GivenLists,
             "endpoints" \in DOMAIN p => p.endpoints \in Eps
      PROVE  PatchMerge(cur, p) \in Lists
  <2>1. PatchMerge(cur, p) = [x \in {"acl_rules", "endpoints", "settings"} |->
                                IF x \in DOMAIN p THEN p[x] ELSE cur[x]]
    BY <1>4 DEF PatchMerge
  <2>2. Lists = [acl_rules : GivenLists, endpoints : Eps, settings : GivenLists]
    BY DEF Lists
  <2> HIDE DEF Eps
  <2>3. QED BY <1>4, <2>1, <2>2
<1> HIDE DEF Eps
<1>5. ASSUME NEW cur \in GroupDocs,
             NEW p \in PatchesOf(GroupDocs) \cup [{"rules"} -> GivenLists]
      PROVE  PatchMerge(cur, p) \in GroupDocs /\ DOMAIN p \subseteq DOMAIN cur
  BY DEF PatchesOf, PatchMerge, GroupDocs
<1>6. QED BY <1>2, <1>3, <1>4, <1>5

\* A statement about lists: what it leaves to be written agrees with the row.
ListStep(c) ==
  /\ issued \subseteq issued' /\ issued' \subseteq UUIDs
  /\ Moved(issued, issued', db, db') /\ Keeps(DnsTables, db, db')
  /\ \E r : /\ Continue(c, r) /\ RequestOK(issued', r) /\ r.at \in ListAts
            /\ r.at = "WriteLists" => Agrees(db', r)

\* A statement about lists keeps the types, as those of the other services do.
LEMMA ListStepMoves ==
  ASSUME NEW c, ListStep(c) PROVE Quiet(c, ListAts)
BY DEF ListStep, Quiet, ListAts, DnsAts

\* A statement that leaves nothing to be written is one of a request about lists.
LEMMA QuietIsListStep ==
  ASSUME NEW c, Quiet(c, {"answered", "DeleteRead"}) \/ Quiet(c, {"answered"})
  PROVE  ListStep(c)
BY DEF ListStep, Quiet, ListAts

\* What may be merged into the documents of a table.
FitsInto(t, patch) ==
  \A cur \in DocsOf(t) : PatchMerge(cur, patch) \in DocsOf(t) /\ DOMAIN patch \subseteq DOMAIN cur

\* A look-up that leads to the write of a list.
LEMMA RewriteQuiet ==
  ASSUME TInv, NEW c, NEW t \in RedisTables \cup GroupTables, NEW k, NEW patch, NEW checked,
         FitsInto(t, patch),
         \/ Read(c, t, k, Rewrite(t, k, patch, checked))
         \/ Continue(c, Rewrite(t, k, patch, checked)) /\ Found(t, k) /\ UNCHANGED <<db, issued>>
  PROVE  ListStep(c)
<1> DEFINE next == Rewrite(t, k, patch, checked)
<1>1. ASSUME Found(t, k)
      PROVE  RequestOK(issued, next) /\ next.at = "WriteLists" /\ Agrees(db, next)
  <2>1. db[t][k].doc \in DocsOf(t) /\ k \in DOMAIN db[t]
    BY <1>1, ServiceTables DEF TInv, TablesTyped, RowTyped, Found
  <2>2. /\ PatchMerge(db[t][k].doc, patch) \in DocsOf(t)
        /\ DOMAIN patch \subseteq DOMAIN db[t][k].doc
    BY <2>1 DEF FitsInto
  <2>3. QED BY <2>1, <2>2, RewriteOK
<1>2. UNCHANGED <<db, issued>>
  BY DEF Read
<1>3. Moved(issued, issued', db, db') /\ Keeps(DnsTables, db, db')
  BY <1>2, StayMoved DEF TInv
<1> HIDE DEF next
<1>4. CASE Found(t, k) /\ Continue(c, next)
  BY <1>1, <1>2, <1>3, <1>4 DEF ListStep, ListAts, TInv
<1>5. CASE Answer(c, "not_found")
  BY <1>2, <1>5, AnswerQuiet, QuietIsListStep DEF Statuses
<1>6. QED BY <1>4, <1>5 DEF Read, next

\* The patches that requests about lists send name fields of the documents.
LEMMA GivenListsFit ==
  ASSUME TInv
  PROVE  /\ \A p \in PatchesOf(GivenDocs) \cup NoRefs \cup [{"acl_rules"} -> GivenLists]
                  \cup [{"settings"} -> GivenLists] \cup [{"endpoints"} -> GivenEndpoints] :
              FitsInto("redis_clusters", p)
         /\ \A p \in PatchesOf(GroupDocs) \cup [{"rules"} -> GivenLists] :
              FitsInto("instance_security_groups", p)
BY ListsMerge, DocumentsByTable DEF FitsInto

\* The first statement of every request for a Redis cluster or a security group.
LEMMA ListsQuiet ==
  ASSUME TInv, NEW c \in Clients, Redis(c) \/ SecurityGroup(c)
  PROVE  ListStep(c)
<1>1. /\ "redis_clusters" \in RedisTables \cup GroupTables
      /\ "instance_security_groups" \in RedisTables \cup GroupTables
      /\ {"redis_clusters", "instance_security_groups"} \subseteq Tables \ DnsTables
  BY ServiceTables
<1>2. CASE CreateRedisCluster(c)
  <2>1. PICK k \in UUIDs \ issued, given \in GivenEndpoints :
          \E new \in SUBSET (UUIDs \ (issued \cup {k})), rules, settings \in GivenLists :
            /\ db' = InsertRow(db, "redis_clusters", k,
                              RedisRow(rules, (given \ {Null}) \cup new, settings))
            /\ issued' = issued \cup {k} \cup new
    BY <1>2 DEF CreateRedisCluster
  <2>2. PICK new \in SUBSET (UUIDs \ (issued \cup {k})) :
          \E rules, settings \in GivenLists :
            /\ db' = InsertRow(db, "redis_clusters", k,
                              RedisRow(rules, (given \ {Null}) \cup new, settings))
            /\ issued' = issued \cup {k} \cup new
    BY <2>1
  <2>3. PICK rules \in GivenLists, settings \in GivenLists :
            /\ db' = InsertRow(db, "redis_clusters", k,
                              RedisRow(rules, (given \ {Null}) \cup new, settings))
            /\ issued' = issued \cup {k} \cup new
    BY <2>2
  <2> DEFINE eps == (given \ {Null}) \cup new
             doc == [acl_rules |-> rules, endpoints |-> eps, settings |-> settings]
             row == RedisRow(rules, eps, settings)
  <2>4. eps \in SUBSET (UUIDs \cup {Null})
    BY DEF GivenEndpoints, TInv
  <2>5. doc \in Lists
    BY <2>4 DEF Lists
  <2>6. RowTyped("redis_clusters", [doc |-> doc])
    BY <1>1, <2>5, TypedDocument, DocumentsByTable
  <2>7. row = [doc |-> doc]
    BY DEF RedisRow
  <2>8. k \notin DOMAIN db["redis_clusters"]
    BY <1>1 DEF TInv, TablesTyped, IdsOf
  <2>9. issued \subseteq issued' /\ issued' \subseteq UUIDs /\ k \in issued' \ issued
    BY <2>3 DEF TInv
  <2>10. db' = InsertRow(db, "redis_clusters", k, row) /\ RowTyped("redis_clusters", row)
    BY <2>3, <2>6, <2>7
  <2> HIDE DEF row, doc, eps
  <2>11. Moved(issued, issued', db, db') /\ Keeps(DnsTables, db, db')
    BY <1>1, <2>8, <2>9, <2>10, InsertMoved DEF TInv
  <2>12. QED BY <1>2, <2>9, <2>11, AnswerAfter, QuietIsListStep DEF CreateRedisCluster, Statuses
<1>3. CASE UpdateRedisCluster(c) \/ MigrateRedisCluster(c)
  <2>1. \E k, patch, checked :
          /\ patch \in PatchesOf(GivenDocs) \cup NoRefs
          /\ Read(c, "redis_clusters", k, Rewrite("redis_clusters", k, patch, checked))
    BY <1>3 DEF UpdateRedisCluster, MigrateRedisCluster
  <2>2. QED BY <1>1, <2>1, GivenListsFit, RewriteQuiet
<1>4. CASE SetRedisACLRules(c) \/ SetRedisEndpoints(c) \/ SetRedisClusterSettings(c)
  <2>1. \E k, patch, checked :
          /\ patch \in [{"acl_rules"} -> GivenLists] \cup [{"settings"} -> GivenLists]
                       \cup [{"endpoints"} -> GivenEndpoints]
          /\ Read(c, "redis_clusters", k, Rewrite("redis_clusters", k, patch, checked))
    BY <1>4 DEF SetRedisACLRules, SetRedisEndpoints, SetRedisClusterSettings, SetList
  <2>2. QED BY <1>1, <2>1, GivenListsFit, RewriteQuiet
<1>5. CASE UpdateSecurityGroup(c) \/ SetSecurityGroupRules(c)
  <2>1. \E k, patch, checked :
          /\ patch \in PatchesOf(GroupDocs) \cup [{"rules"} -> GivenLists]
          /\ Read(c, "instance_security_groups", k,
                  Rewrite("instance_security_groups", k, patch, checked))
    BY <1>5 DEF UpdateSecurityGroup, SetSecurityGroupRules, SetList
  <2>2. QED BY <1>1, <2>1, GivenListsFit, RewriteQuiet
<1>6. CASE DeleteRedisEndpoint(c)
  <2>1. UNCHANGED <<db, issued>>
    BY <1>6 DEF DeleteRedisEndpoint
  <2>2. PICK e \in UUIDs :
          \/ \E k \in DOMAIN db["redis_clusters"] :
               Continue(c, Rewrite("redis_clusters", k,
                 [endpoints |-> db["redis_clusters"][k].doc.endpoints \ {e}], TRUE))
          \/ Answer(c, "not_found")
    BY <1>6 DEF DeleteRedisEndpoint
  <2>3. CASE Answer(c, "not_found")
    BY <2>1, <2>3, AnswerQuiet, QuietIsListStep DEF Statuses
  <2>4. ASSUME NEW k \in DOMAIN db["redis_clusters"],
               Continue(c, Rewrite("redis_clusters", k,
                 [endpoints |-> db["redis_clusters"][k].doc.endpoints \ {e}], TRUE))
        PROVE  ListStep(c)
    <3> DEFINE eps == db["redis_clusters"][k].doc.endpoints \ {e}
               patch == [endpoints |-> eps]
    <3>1. db["redis_clusters"][k].doc \in Lists
      BY <1>1, DocumentsByTable DEF TInv, TablesTyped, RowTyped
    <3>2. eps \in SUBSET (UUIDs \cup {Null})
      BY <3>1 DEF Lists
    <3> HIDE DEF eps
    <3>3. ASSUME NEW cur \in Lists
          PROVE  PatchMerge(cur, patch) \in Lists /\ DOMAIN patch \subseteq DOMAIN cur
      BY <3>2 DEF PatchMerge, Lists
    <3>4. FitsInto("redis_clusters", patch)
      BY <3>3, DocumentsByTable DEF FitsInto
    <3>5. Continue(c, Rewrite("redis_clusters", k, patch, TRUE)) /\ Found("redis_clusters", k)
      BY <2>4 DEF Found, eps
    <3> HIDE DEF patch
    <3>6. QED BY <1>1, <2>1, <3>4, <3>5, RewriteQuiet
  <2>5. QED BY <2>2, <2>3, <2>4
<1>7. CASE DeleteRedisCluster(c) \/ DeleteSecurityGroup(c)
  BY <1>1, <1>7, DeletesQuiet, QuietIsListStep DEF DeleteRedisCluster, DeleteSecurityGroup
<1>8. CASE CreateSecurityGroup(c)
  <2>1. PICK k \in UUIDs, doc \in GroupDocs :
          CreateSimple({}, c, "instance_security_groups", k, [doc |-> doc])
    BY <1>8 DEF CreateSecurityGroup
  <2>2. RowTyped("instance_security_groups", [doc |-> doc])
    BY <1>1, TypedDocument, DocumentsByTable
  <2>3. QED BY <1>1, <2>1, <2>2, CreateSimpleQuiet, QuietIsListStep
<1>9. QED BY <1>2, <1>3, <1>4, <1>5, <1>6, <1>7, <1>8 DEF Redis, SecurityGroup

\* The write of a document with its lists.
LEMMA WriteListsQuiet ==
  ASSUME TInv, NEW c \in Clients, WriteLists(c)
  PROVE  Quiet(c, {"answered"})
<1> DEFINE r == req[c]
<1>1. r.table \in RedisTables \cup GroupTables /\ r.doc \in DocsOf(r.table)
  BY LocalsOfRequests DEF WriteLists, TInv
<1>2. RowTyped(r.table, [doc |-> r.doc])
  BY <1>1, TypedDocument
<1>3. Moved(issued, issued, db, db') /\ Keeps(DnsTables, db, db')
  BY <1>1, <1>2, ServiceTables, UpdateMoved DEF WriteLists, TInv
<1>4. \E status \in Statuses : Answer(c, status)
  BY DEF WriteLists, Statuses
<1>5. QED BY <1>3, <1>4, AnswerAfter DEF WriteLists, TInv

-----------------------------------------------------------------------------
(***************************************************************************)
(* Zones and records.                                                      *)
(***************************************************************************)

\* PatchDomainRecords takes its changes one by one: the rest of a patch is a patch.
LEMMA PatchesShrink ==
  ASSUME NEW todo \in Patches, todo # <<>>
  PROVE  Tail(todo) \in Patches /\ Head(todo) \in Changes
<1>1. PICK n \in 0..MaxChanges : todo \in [1..n -> Changes]
  BY DEF Patches
<1>2. MaxChanges \in Nat /\ n \in Nat
  BY MaxChangesIsNat
<1>3. todo \in Seq(Changes) /\ Len(todo) = n
  BY <1>1, <1>2
<1>4. n # 0
  BY <1>3
<1>5. Tail(todo) \in Seq(Changes) /\ Len(Tail(todo)) = n - 1 /\ Head(todo) \in Changes
  BY <1>3, HeadTailProperties
<1>6. n - 1 \in 0..MaxChanges
  BY <1>2, <1>4
<1>7. Tail(todo) \in [1..(n - 1) -> Changes]
  BY <1>5, LenProperties
<1>8. QED BY <1>5, <1>6, <1>7 DEF Patches

\* A statement of a DNS handler that changes no table.
LEMMA StayMoves ==
  ASSUME TInv, NEW c, NEW r, UNCHANGED <<db, issued>>, Continue(c, r), RequestOK(issued, r),
         PatchingFits(issued, db, r)
  PROVE  Moves(c)
BY StayMoved DEF Moves, TInv

\* The look-up of a zone or of a record.
LEMMA ReadMoves ==
  ASSUME TInv, NEW c, NEW t, NEW k, NEW next, Read(c, t, k, next),
         RequestOK(issued, next) /\ PatchingFits(issued, db, next)
  PROVE  Moves(c)
<1>1. UNCHANGED <<db, issued>>
  BY DEF Read
<1>2. CASE Answer(c, "not_found")
  BY <1>1, <1>2, AnswerQuiet, QuietMoves DEF Statuses
<1>3. QED BY <1>1, <1>2, StayMoves DEF Read

\* Removing one record.
LEMMA WithoutMoved ==
  ASSUME TInv, NEW K
  PROVE  LET e == [db EXCEPT !["domain_records"] = [x \in DOMAIN @ \ K |-> @[x]]]
         IN  Moved(issued, issued, db, e)
<1> DEFINE e == [db EXCEPT !["domain_records"] = [x \in DOMAIN @ \ K |-> @[x]]]
<1>1. DOMAIN db = Tables /\ "domain_records" \in Tables
  BY ServiceTables DEF TInv, TablesTyped
<1>2. /\ DOMAIN e = Tables
      /\ \A t \in Tables \ {"domain_records"} : e[t] = db[t]
      /\ e["domain_records"] = [x \in DOMAIN db["domain_records"] \ K |-> db["domain_records"][x]]
  BY <1>1
<1> HIDE DEF e
<1>3. \A t \in Tables : \A k \in DOMAIN e[t] : k \in DOMAIN db[t] /\ e[t][k] = db[t][k]
  BY <1>2
<1>4. Moved(issued, issued, db, e)
  BY <1>2, <1>3 DEF Moved
<1>5. QED BY <1>4 DEF e

\* The first statement of every request for a zone or its records.
LEMMA DnsMoves ==
  ASSUME TInv, NEW c \in Clients, Dns(c)
  PROVE  Moves(c)
<1>1. CASE CreateDNSZone(c)
  <2>1. PICK z \in Zones : InsertJSON({}, c, "dns_zones", z, ZoneRow)
    BY <1>1 DEF CreateDNSZone
  <2>2. issued' = issued
    BY <1>1 DEF CreateDNSZone
  <2>3. CASE UNCHANGED db /\ \E status \in Statuses : Answer(c, status)
    BY <2>2, <2>3, AnswerQuiet, QuietMoves
  <2>4. CASE /\ ~Found("dns_zones", z)
             /\ db' = InsertRow(db, "dns_zones", z, ZoneRow) /\ Answer(c, "ok")
    <3>1. Moved(issued, issued, db, db')
      BY <2>4, ServiceTables, TypedDnsRow, InsertMoved DEF TInv, Found
    <3>2. RequestOK(issued, Answered("ok")) /\ PatchingFits(issued, db', Answered("ok"))
      BY DEF RequestOK, Answered, Statuses, PatchingFits
    <3>3. QED BY <2>2, <2>4, <3>1, <3>2 DEF Moves, Answer, TInv
  <2>5. QED BY <2>1, <2>3, <2>4 DEF InsertJSON, Statuses
<1>2. CASE UpdateDNSZone(c)
  <2>1. PICK z \in Zones : Read(c, "dns_zones", z, [at |-> "WriteZone", zone |-> z])
    BY <1>2 DEF UpdateDNSZone
  <2>2. /\ RequestOK(issued, [at |-> "WriteZone", zone |-> z])
        /\ PatchingFits(issued, db, [at |-> "WriteZone", zone |-> z])
    BY DEF RequestOK, PatchingFits
  <2>3. QED BY <2>1, <2>2, ReadMoves
<1>3. CASE BeginDeleteDNSZone(c)
  <2>1. PICK z \in Zones :
          /\ db' = [db EXCEPT !["domain_records"] = [k \in DOMAIN @ \ RecordsOf(z) |-> @[k]]]
          /\ Continue(c, [at |-> "DeleteZone", zone |-> z])
    BY <1>3 DEF BeginDeleteDNSZone
  <2>2. /\ RequestOK(issued, [at |-> "DeleteZone", zone |-> z])
        /\ PatchingFits(issued, db', [at |-> "DeleteZone", zone |-> z])
    BY DEF RequestOK, PatchingFits
  <2>3. Moved(issued, issued, db, db')
    BY <2>1, WithoutMoved
  <2>4. issued' = issued
    BY <1>3 DEF BeginDeleteDNSZone
  <2>5. QED BY <2>1, <2>2, <2>3, <2>4 DEF Moves, TInv
<1>4. CASE BeginPatchRecords(c)
  <2>1. PICK z \in Zones, todo \in Patches :
          Read(c, "dns_zones", z,
               [at |-> "PatchRecords", zone |-> z, todo |-> todo, matched |-> {}])
    BY <1>4 DEF BeginPatchRecords
  <2> DEFINE next == [at |-> "PatchRecords", zone |-> z, todo |-> todo, matched |-> {}]
  <2>2. next \in Patching /\ next.at = "PatchRecords" /\ next.matched = {}
    BY DEF Patching
  <2>3. Read(c, "dns_zones", z, next)
    BY <2>1
  <2> HIDE DEF next
  <2>4. RequestOK(issued, next) /\ PatchingFits(issued, db, next)
    BY <2>2 DEF RequestOK, PatchingFits
  <2>5. QED BY <2>3, <2>4, ReadMoves
<1>5. QED BY <1>1, <1>2, <1>3, <1>4 DEF Dns

\* A handler that has made one change of a patch goes on with the next, or lists the records.
LEMMA PatchingGoesOn ==
  ASSUME NEW iss, NEW d, NEW r \in Patching, r.at = "PatchRecords", PatchingFits(iss, d, r)
  PROVE  /\ r.todo # <<>> /\ r.matched = {} =>
              /\ RequestOK(iss, [r EXCEPT !.todo = Tail(@)])
              /\ PatchingFits(iss, d, [r EXCEPT !.todo = Tail(@)])
              /\ RequestOK(iss, [r EXCEPT !.at = "ListRecords"])
              /\ PatchingFits(iss, d, [r EXCEPT !.at = "ListRecords"])
         /\ \A k : /\ RequestOK(iss, [r EXCEPT !.matched = @ \ {k}])
                   /\ PatchingFits(iss, d, [r EXCEPT !.matched = @ \ {k}])
<1>1. ASSUME r.todo # <<>>, r.matched = {}
      PROVE  /\ RequestOK(iss, [r EXCEPT !.todo = Tail(@)])
             /\ PatchingFits(iss, d, [r EXCEPT !.todo = Tail(@)])
  <2>1. Tail(r.todo) \in Patches
    BY <1>1, PatchesShrink DEF Patching
  <2>2. [r EXCEPT !.todo = Tail(@)] \in Patching /\ [r EXCEPT !.todo = Tail(@)].matched = {}
    BY <1>1, <2>1 DEF Patching
  <2>3. QED BY <2>2 DEF RequestOK, PatchingFits
<1>2. ASSUME r.todo # <<>>
      PROVE  /\ RequestOK(iss, [r EXCEPT !.at = "ListRecords"])
             /\ PatchingFits(iss, d, [r EXCEPT !.at = "ListRecords"])
  <2>1. /\ [r EXCEPT !.at = "ListRecords"] \in Patching
        /\ [r EXCEPT !.at = "ListRecords"].at = "ListRecords"
        /\ [r EXCEPT !.at = "ListRecords"].todo # <<>>
    BY <1>2 DEF Patching
  <2>2. QED BY <2>1 DEF RequestOK, PatchingFits
<1>3. ASSUME NEW k
      PROVE  /\ RequestOK(iss, [r EXCEPT !.matched = @ \ {k}])
             /\ PatchingFits(iss, d, [r EXCEPT !.matched = @ \ {k}])
  <2> DEFINE s == [r EXCEPT !.matched = @ \ {k}]
  <2>1. /\ s \in Patching /\ s.at = "PatchRecords" /\ s.zone = r.zone
        /\ s.matched = r.matched \ {k}
    BY DEF Patching
  <2> HIDE DEF s
  <2>2. RequestOK(iss, s)
    BY <2>1 DEF RequestOK
  <2>3. PatchingFits(iss, d, s)
    BY <2>1 DEF PatchingFits
  <2>4. QED BY <2>2, <2>3 DEF s
<1>4. QED BY <1>1, <1>2, <1>3

\* Every later statement of a request for a zone or its records.
LEMMA DnsProceedingMoves ==
  ASSUME TInv, NEW c \in Clients, DnsProceeding(c)
  PROVE  Moves(c)
<1> DEFINE r == req[c]
<1>1. /\ r.at \in {"PatchRecords", "ListRecords"} => r \in Patching
      /\ PatchingFits(issued, db, r)
      /\ issued \subseteq UUIDs
  BY LocalsOfRequests DEF TInv
<1>2. \A k : Moved(issued, issued, db, Without(k))
  BY WithoutMoved DEF Without
<1>3. CASE WriteZone(c)
  BY <1>3, AnswerQuiet, QuietMoves DEF WriteZone, Statuses
<1>4. CASE DeleteDNSZone(c)
  <2>1. CASE UNCHANGED db /\ \E status \in Statuses : Answer(c, status)
    BY <1>4, <2>1, AnswerQuiet, QuietMoves DEF DeleteDNSZone, DeleteBy
  <2>2. CASE db' = DeleteRow({}, db, "dns_zones", req[c].zone) /\ Answer(c, "ok")
    <3>1. Moved(issued, issued, db, db')
      BY <2>2, ServiceTables, DeleteMoved DEF TInv
    <3>2. RequestOK(issued, Answered("ok")) /\ PatchingFits(issued, db', Answered("ok"))
      BY DEF RequestOK, Answered, Statuses, PatchingFits
    <3>3. QED BY <1>1, <1>4, <2>2, <3>1, <3>2 DEF Moves, Answer, DeleteDNSZone, DeleteBy
  <2>3. QED BY <1>4, <2>1, <2>2 DEF DeleteDNSZone, DeleteBy, Statuses
<1>5. ASSUME NextIs(c, "add") \/ NextIs(c, "delete") \/ NextIs(c, "match")
      PROVE  r \in Patching /\ r.at = "PatchRecords" /\ r.todo # <<>> /\ r.matched = {}
  BY <1>1, <1>5 DEF NextIs
<1>6. CASE AddRecord(c)
  <2>1. NextIs(c, "add")
    BY <1>6 DEF AddRecord
  <2>2. /\ r \in Patching /\ r.at = "PatchRecords" /\ r.todo # <<>> /\ r.matched = {}
        /\ Head(r.todo) \in Changes /\ Head(r.todo).do = "add"
    BY <1>5, <2>1, PatchesShrink DEF NextIs, Patching
  <2>3. r.zone \in Zones /\ Head(r.todo).fields \in Fields
    BY <2>2 DEF Patching, Changes
  <2> DEFINE row == RecordRow(r.zone, Head(r.todo).fields)
  <2>4. RowTyped("domain_records", row)
    BY <2>3, TypedDnsRow
  <2>5. PICK k \in UUIDs \ issued :
          issued' = issued \cup {k} /\ db' = InsertRow(db, "domain_records", k, row)
    BY <1>6 DEF AddRecord
  <2>6. issued \subseteq issued' /\ issued' \subseteq UUIDs /\ k \in issued' \ issued
    BY <1>1, <2>5
  <2>7. k \notin DOMAIN db["domain_records"]
    BY <2>5, ServiceTables DEF TInv, TablesTyped, IdsOf
  <2> HIDE DEF row
  <2>8. Moved(issued, issued', db, db')
    BY <2>4, <2>5, <2>6, <2>7, ServiceTables, InsertMoved DEF TInv
  <2>9. PatchingFits(issued', db', r)
    BY <1>1, <2>6, <2>8, MovedKeepsMatches
  <2>10. Continue(c, [r EXCEPT !.todo = Tail(@)])
    BY <1>6 DEF AddRecord, Done
  <2> HIDE DEF r
  <2>11. /\ RequestOK(issued', [r EXCEPT !.todo = Tail(@)])
         /\ PatchingFits(issued', db', [r EXCEPT !.todo = Tail(@)])
    BY <2>2, <2>9, PatchingGoesOn
  <2>12. QED BY <2>6, <2>8, <2>10, <2>11 DEF Moves
<1>7. CASE DeleteRecord(c)
  <2>1. r \in Patching /\ r.at = "PatchRecords" /\ r.todo # <<>> /\ r.matched = {}
    BY <1>5, <1>7 DEF DeleteRecord
  <2>2. Moved(issued, issued, db, db')
    BY <1>2, <1>7, StayMoved DEF DeleteRecord, TInv
  <2>3. PatchingFits(issued, db', r)
    BY <1>1, <2>2, MovedKeepsMatches
  <2>4. Continue(c, [r EXCEPT !.todo = Tail(@)]) /\ issued' = issued
    BY <1>7 DEF DeleteRecord, Done
  <2> HIDE DEF r
  <2>5. /\ RequestOK(issued, [r EXCEPT !.todo = Tail(@)])
        /\ PatchingFits(issued, db', [r EXCEPT !.todo = Tail(@)])
    BY <2>1, <2>3, PatchingGoesOn
  <2>6. QED BY <1>1, <2>2, <2>4, <2>5 DEF Moves
<1>8. CASE MatchRecords(c)
  <2>1. r \in Patching /\ r.at = "PatchRecords" /\ r.todo # <<>> /\ r.matched = {}
    BY <1>5, <1>8 DEF MatchRecords
  <2>2. /\ UNCHANGED <<db, issued>>
        /\ \/ Continue(c, [r EXCEPT !.todo = Tail(@)])
           \/ Continue(c, [r EXCEPT !.at = "ListRecords"])
    BY <1>8 DEF MatchRecords, Done
  <2> HIDE DEF r
  <2>3. QED BY <1>1, <2>1, <2>2, PatchingGoesOn, StayMoves
<1>9. CASE ListRecords(c)
  <2>1. r.at = "ListRecords" /\ UNCHANGED <<db, issued>>
    BY <1>9 DEF ListRecords
  <2>2. PICK found \in SUBSET RecordsOf(r.zone) :
          Continue(c, [r EXCEPT !.at = "PatchRecords", !.todo = Tail(@), !.matched = found])
    BY <1>9 DEF ListRecords
  <2> DEFINE s == [r EXCEPT !.at = "PatchRecords", !.todo = Tail(@), !.matched = found]
  <2>3. r \in Patching /\ r.todo # <<>>
    BY <1>1, <2>1 DEF PatchingFits
  <2>4. Tail(r.todo) \in Patches
    BY <2>3, PatchesShrink DEF Patching
  <2>5. /\ DOMAIN db["domain_records"] \subseteq issued
        /\ issued \subseteq UUIDs
    BY ServiceTables DEF TInv, TablesTyped, IdsOf
  <2>6. \A k \in found : /\ k \in issued
                        /\ k \in DOMAIN db["domain_records"]
                        /\ db["domain_records"][k].dns_zone = r.zone
    BY <2>5 DEF RecordsOf
  <2>7. /\ s \in Patching /\ s.at = "PatchRecords" /\ s.zone = r.zone /\ s.matched = found
    BY <2>3, <2>4, <2>5, <2>6 DEF Patching
  <2>8. Continue(c, s)
    BY <2>2
  <2> HIDE DEF s
  <2>9. RequestOK(issued, s)
    BY <2>7 DEF RequestOK
  <2>10. PatchingFits(issued, db, s)
    BY <2>6, <2>7 DEF PatchingFits
  <2>11. QED BY <2>1, <2>8, <2>9, <2>10, StayMoves
<1>10. CASE DeleteMatched(c)
  <2>1. PICK k : db' = Without(k) /\ Continue(c, [r EXCEPT !.matched = @ \ {k}])
    BY <1>10 DEF DeleteMatched
  <2>2. r \in Patching /\ r.at = "PatchRecords" /\ issued' = issued
    BY <1>1, <1>10 DEF DeleteMatched
  <2>3. Moved(issued, issued, db, db')
    BY <1>2, <2>1
  <2>4. PatchingFits(issued, db', r)
    BY <1>1, <2>3, MovedKeepsMatches
  <2> HIDE DEF r
  <2>5. /\ RequestOK(issued, [r EXCEPT !.matched = @ \ {k}])
        /\ PatchingFits(issued, db', [r EXCEPT !.matched = @ \ {k}])
    BY <2>2, <2>4, PatchingGoesOn
  <2>6. QED BY <1>1, <2>1, <2>2, <2>3, <2>5 DEF Moves
<1>11. CASE EndPatchRecords(c)
  <2>1. RequestOK(issued, Answered("ok")) /\ PatchingFits(issued, db, Answered("ok"))
    BY DEF RequestOK, Answered, Statuses, PatchingFits
  <2>2. QED BY <1>11, <2>1, ReadMoves DEF EndPatchRecords
<1>12. QED BY <1>3, <1>4, <1>6, <1>7, <1>8, <1>9, <1>10, <1>11 DEF DnsProceeding

-----------------------------------------------------------------------------
(***************************************************************************)
(* Every step keeps the types.                                             *)
(***************************************************************************)

\* Every statement of every service is one of those.
LEMMA StepMoves ==
  ASSUME TInv, NEW c \in Clients, Arrive(c) \/ Proceed(c)
  PROVE  Moves(c)
BY ArrivingQuiet, ProceedingQuiet, ListsQuiet, ListStepMoves, WriteListsQuiet, DnsMoves,
   DnsProceedingMoves, QuietMoves
   DEF Arrive, Proceed

\* A statement of one handler keeps all handlers and tables typed.
LEMMA MovesKeepTypes ==
  ASSUME TInv, DOMAIN req = Clients, NEW c \in Clients, Moves(c)
  PROVE  TInv'
<1>1. PICK r : /\ Continue(c, r) /\ RequestOK(issued', r) /\ PatchingFits(issued', db', r)
  BY DEF Moves
<1>2. TablesTyped(issued', db')
  BY MovedKeepsTypes DEF Moves, TInv
<1>3. ASSUME NEW d \in Clients
      PROVE  RequestOK(issued', req'[d]) /\ PatchingFits(issued', db', req'[d])
  <2>1. CASE d = c
    BY <1>1, <2>1 DEF Continue
  <2>2. CASE d # c
    <3>1. req'[d] = req[d]
      BY <1>1, <2>2 DEF Continue
    <3>2. RequestOK(issued', req[d]) /\ PatchingFits(issued', db', req[d])
      BY RequestsStayOK, MovedKeepsMatches DEF Moves, TInv
    <3>3. QED BY <3>1, <3>2
  <2>3. QED BY <2>1, <2>2
<1>4. QED BY <1>2, <1>3 DEF TInv, Moves

\* A database without rows and handlers without requests are well typed.
LEMMA InitIsTyped == Init => TInv
<1> SUFFICES ASSUME Init PROVE TInv
  OBVIOUS
<1>1. \A t \in Tables : DOMAIN db[t] = {}
  BY DEF Init, EmptyTable
<1>2. \A c \in Clients : req[c] = Answered("ok")
  BY DEF Init
<1>3. RequestOK(issued, Answered("ok")) /\ PatchingFits(issued, db, Answered("ok"))
  BY DEF RequestOK, Answered, Statuses, PatchingFits
<1>4. QED BY <1>1, <1>2, <1>3 DEF TInv, TablesTyped, Init

\* Every step keeps the types.
LEMMA StepKeepsTypes ==
  ASSUME IInv, TInv, [Next]_vars
  PROVE  TInv'
<1>1. CASE UNCHANGED vars
  BY <1>1 DEF vars, TInv
<1>2. CASE Next
  <2>1. PICK c \in Clients : Arrive(c) \/ Proceed(c)
    BY <1>2 DEF Next
  <2>2. QED BY <2>1, StepMoves, MovesKeepTypes DEF IInv, RequestsFit
<1>3. QED BY <1>1, <1>2

\* In every behaviour of the services, tables, documents, columns and the locals of the
\* handlers are typed over the uuids that newID has handed out, and what a patch of DNS
\* records matched is in the zone of the patch or gone.
THEOREM ServicesAreTyped == Spec => []TInv
BY InitIsTyped, StepKeepsTypes, ServicesInvariant, PTL DEF Spec

\* The invariant ServicesTypeOK that TLC checks, for every number of clients, every set of
\* uuids and patches of any length up to the bound: no handler reads a field that the
\* document it holds, or the row it reads, does not have.
THEOREM ServicesTypeCorrect == Spec => []ServicesTypeOK
<1>1. TInv => ServicesTypeOK
  BY DEF TInv, TablesTyped, RowTyped, ServicesTypeOK
<1>2. QED BY <1>1, ServicesAreTyped, PTL

-----------------------------------------------------------------------------
(***************************************************************************)
(* Who does what.                                                          *)
(***************************************************************************)

\* A request is taken by a handler that has answered the one before.
LEMMA ArrivalsAreIdle ==
  ASSUME NEW c, Arrive(c) PROVE Idle(c)
<1>1. /\ \A t, docs : Create(c, t, docs) \/ Patch(c, t, docs) => Idle(c)
      /\ \A t : Delete(c, t) \/ ReadAndDelete(c, t) \/ Look(c, t) => Idle(c)
      /\ \A t, name, lists : SetList(c, t, name, lists) => Idle(c)
  BY DEF Create, Patch, Delete, ReadAndDelete, Look, SetList
<1>2. Vpc(c) \/ Routes(c) \/ Gateways(c) => Idle(c)
  BY <1>1
     DEF Vpc, Routes, Gateways, CreateVPC, UpdateVPC, DeleteVPC, CreatePrivateNetwork,
         UpdatePrivateNetwork, DeletePrivateNetwork, CreateVPCRoute, UpdateVPCRoute,
         DeleteVPCRoute, CreateVPCPublicGateway, UpdateVPCPublicGateway,
         DeleteVPCPublicGateway, CreateVPCGatewayNetwork, UpdateVPCGatewayNetwork,
         DeleteVPCGatewayNetwork
<1>3. Kubernetes(c) => Idle(c)
  BY <1>1
     DEF Kubernetes, CreateCluster, UpdateCluster, UpgradeCluster, SetClusterType,
         DeleteCluster, CreatePool, UpdatePool, UpgradePool, DeletePool
<1>4. Block(c) => Idle(c)
  BY <1>1
     DEF Block, CreateBlockVolume, UpdateBlockVolume, DeleteBlockVolumeHandler,
         CreateBlockSnapshot, UpdateBlockSnapshot, DeleteBlockSnapshot,
         CreateInstanceVolume, UpdateInstanceVolume, DeleteVolume
<1>5. Ipam(c) \/ Registry(c) => Idle(c)
  BY <1>1
     DEF Ipam, Registry, CreateIPAMIP, UpdateIPAMIP, DeleteIPAMIP, DetachIPAMIP, MoveIPAMIP,
         CreateRegistryNamespace, UpdateRegistryNamespace, DeleteRegistryNamespace
<1>6. Redis(c) \/ SecurityGroup(c) => Idle(c)
  BY <1>1
     DEF Redis, SecurityGroup, CreateRedisCluster, UpdateRedisCluster, MigrateRedisCluster,
         DeleteRedisCluster, SetRedisACLRules, SetRedisEndpoints, SetRedisClusterSettings,
         DeleteRedisEndpoint, CreateSecurityGroup, UpdateSecurityGroup,
         SetSecurityGroupRules, DeleteSecurityGroup
<1>7. Dns(c) => Idle(c)
  BY DEF Dns, CreateDNSZone, UpdateDNSZone, BeginDeleteDNSZone, BeginPatchRecords
<1>8. QED BY <1>2, <1>3, <1>4, <1>5, <1>6, <1>7 DEF Arrive, Arriving

\* A handler of a zone or its records makes the statement it is at, and no other.
LEMMA WhoProceeds ==
  ASSUME NEW c, Arrive(c) \/ Proceed(c)
  PROVE  /\ req[c].at = "WriteLists" => WriteLists(c)
         /\ req[c].at \in {"PatchRecords", "ListRecords"} =>
              \/ AddRecord(c) \/ DeleteRecord(c) \/ MatchRecords(c) \/ ListRecords(c)
              \/ DeleteMatched(c) \/ EndPatchRecords(c)
<1>1. Arrive(c) => req[c].at = "answered"
  BY ArrivalsAreIdle DEF Idle
<1>2. Proceeding(c) =>
        req[c].at \in {"WriteRow", "DeleteRead", "DeleteStandalone", "DeleteEmbedded"}
  BY DEF Proceeding, WriteRow, DeleteRead, DeleteStandaloneVolume, DeleteEmbeddedVolume
<1>3. /\ WriteLists(c) => req[c].at = "WriteLists"
      /\ WriteZone(c) => req[c].at = "WriteZone"
      /\ DeleteDNSZone(c) => req[c].at = "DeleteZone"
  BY DEF WriteLists, WriteZone, DeleteDNSZone
<1>4. ASSUME \/ AddRecord(c) \/ DeleteRecord(c) \/ MatchRecords(c) \/ ListRecords(c)
             \/ DeleteMatched(c) \/ EndPatchRecords(c)
      PROVE  req[c].at \in {"PatchRecords", "ListRecords"}
  BY <1>4 DEF AddRecord, DeleteRecord, MatchRecords, ListRecords, DeleteMatched,
         EndPatchRecords, NextIs
<1>5. QED BY <1>1, <1>2, <1>3, <1>4 DEF Proceed, DnsProceeding

\* Where a statement of another service leads.
LEMMA QuietLeads ==
  ASSUME RequestsFit, NEW c \in Clients, NEW ats, Quiet(c, ats)
  PROVE  req'[c].at \in ats \ DnsAts
BY DEF Quiet, Continue, RequestsFit

-----------------------------------------------------------------------------
(***************************************************************************)
(* Patches of records stay within their zone.                              *)
(***************************************************************************)

\* The statements of PatchDomainRecords remove records of its zone and add new ones.
LEMMA PatchesStay ==
  ASSUME TInv, IInv, NEW c \in Clients, Arrive(c) \/ Proceed(c)
  PROVE  PatchStaysInZone(c)
<1> DEFINE r == req[c]
           recs == db["domain_records"]
<1>1. SUFFICES ASSUME r.at \in {"PatchRecords", "ListRecords"},
                      NEW z \in Zones \ {r.zone}, NEW k \in RecordsOf(z)
               PROVE  k \in DOMAIN db'["domain_records"] /\ db'["domain_records"][k] = recs[k]
  BY DEF PatchStaysInZone
<1>2. k \in DOMAIN recs /\ recs[k].dns_zone # r.zone
  BY <1>1 DEF RecordsOf
<1>3. "domain_records" \in DOMAIN db
  BY ServiceTables DEF TInv, TablesTyped
<1>4. \A x : x # k /\ db' = Without(x) =>
        k \in DOMAIN db'["domain_records"] /\ db'["domain_records"][k] = recs[k]
  BY <1>2, <1>3 DEF Without
<1>5. CASE AddRecord(c)
  <2>1. PICK x, row : x \notin issued /\ db' = InsertRow(db, "domain_records", x, row)
    BY <1>5 DEF AddRecord
  <2>2. x # k
    BY <1>2, <2>1, ServiceTables DEF TInv, TablesTyped, IdsOf
  <2>3. QED BY <1>2, <1>3, <2>1, <2>2 DEF InsertRow
<1>6. CASE DeleteRecord(c)
  BY <1>2, <1>4, <1>6 DEF DeleteRecord, RecordsOf
<1>7. CASE MatchRecords(c) \/ ListRecords(c) \/ EndPatchRecords(c)
  BY <1>2, <1>7 DEF MatchRecords, ListRecords, EndPatchRecords, Read
<1>8. CASE DeleteMatched(c)
  <2>1. PICK x \in r.matched : db' = Without(x)
    BY <1>8 DEF DeleteMatched
  <2>2. x \in DOMAIN recs => recs[x].dns_zone = r.zone
    BY <1>8 DEF DeleteMatched, TInv, PatchingFits
  <2>3. x # k
    BY <1>2, <2>2
  <2>4. QED BY <1>4, <2>1, <2>3
<1>9. QED BY <1>1, <1>5, <1>6, <1>7, <1>8, WhoProceeds

-----------------------------------------------------------------------------
(***************************************************************************)
(* The behaviours that TLC runs, without its bounds on the uuids handed    *)
(* out.                                                                    *)
(***************************************************************************)
SomeNext ==
  /\ \E c \in active : Arrive(c) \/ Proceed(c)
  /\ active' = active

SomeSpec ==
  /\ Init /\ active \in (SUBSET Clients) \ {{}}
  /\ [][SomeNext]_<<vars, active>>

\* What every state of these behaviours is known to be.
Known == IInv /\ TInv /\ active \subseteq Clients

\* What TLC explores, which bounds the uuids and the requests offered, is among them.
LEMMA BoundedRunsAreRuns == MCSpec => SomeSpec
<1>1. MCInit =>
        Init /\ active \in (SUBSET Clients) \ {{}}
  BY DEF MCInit
<1>2. ASSUME NEW c, Offered(c) PROVE Arrive(c)
  BY <1>2 DEF Offered, Arrive, Arriving
<1>3. MCNext => SomeNext
  BY <1>2 DEF MCNext, SomeNext
<1>4. [MCNext]_<<vars, active, scope>> => [SomeNext]_<<vars, active>>
  BY <1>3
<1>5. QED BY <1>1, <1>4, PTL DEF MCSpec, SomeSpec

\* They are behaviours of the services: all that is proved of those holds of these.
LEMMA SomeSpecKnown ==
  /\ Init /\ active \in (SUBSET Clients) \ {{}} => Known
  /\ Known /\ [SomeNext]_<<vars, active>> => Known'
<1>1. Init /\ active \in (SUBSET Clients) \ {{}} => Known
  BY InitFits, InitIsTyped DEF Known
<1>2. ASSUME Known, [SomeNext]_<<vars, active>> PROVE Known'
  <2>1. [Next]_vars /\ active' = active
    BY <1>2 DEF SomeNext, Next, Known, vars
  <2>2. Step(db, db') /\ RequestsFit'
    BY <1>2, <2>1, NextFits DEF Known
  <2>3. IInv'
    BY <1>2, <2>2, StepKeepsGood DEF IInv, Good, Known
  <2>4. QED BY <1>2, <2>1, <2>3, StepKeepsTypes DEF Known
<1>3. QED BY <1>1, <1>2

-----------------------------------------------------------------------------
(***************************************************************************)
(* One request at a time.                                                  *)
(***************************************************************************)
Homed(d) ==
  \A k \in DOMAIN d["domain_records"] :
    d["domain_records"][k].dns_zone \in DOMAIN d["dns_zones"]

\* What a handler that is alone relies on.
Held(d, r) ==
  /\ r.at \in {"PatchRecords", "ListRecords"} => r.zone \in DOMAIN d["dns_zones"]
  /\ r.at = "DeleteZone" =>
       \A k \in DOMAIN d["domain_records"] : d["domain_records"][k].dns_zone # r.zone
  /\ r.at = "WriteLists" => Agrees(d, r)

SerialInv ==
  Serial => /\ Homed(db)
            /\ \A c \in Clients : Held(db, req[c]) /\ (Idle(c) \/ c \in active)

\* Statements that leave zones and records alone leave every record its zone.
LEMMA KeptZonesAreHomes ==
  ASSUME NEW d, NEW e, Keeps(DnsTables, d, e), Homed(d) PROVE Homed(e)
BY DEF Keeps, DnsTables, Homed

\* After a statement about lists no handler of a zone relies on anything.
LEMMA ListStepHolds ==
  ASSUME RequestsFit, NEW c \in Clients, ListStep(c) PROVE Held(db', req'[c])
<1>1. PICK r : Continue(c, r) /\ r.at \in ListAts /\ (r.at = "WriteLists" => Agrees(db', r))
  BY DEF ListStep
<1>2. req'[c] = r
  BY <1>1 DEF Continue, RequestsFit
<1>3. QED BY <1>1, <1>2 DEF Held, ListAts

\* A handler that has answered relies on nothing.
LEMMA AnswerHolds ==
  ASSUME RequestsFit, NEW c \in Clients, NEW status, Answer(c, status), NEW d
  PROVE  Held(d, req'[c])
BY DEF RequestsFit, Answer, Answered, Continue, Held

\* After the first statement of a request for a zone, its handler has found what it relies on.
LEMMA DnsHolds ==
  ASSUME TInv, RequestsFit, NEW c \in Clients, Dns(c), Homed(db)
  PROVE  Homed(db') /\ Held(db', req'[c])
<1>1. \A r : Continue(c, r) => req'[c] = r
  BY DEF Continue, RequestsFit
<1>2. DOMAIN db = Tables /\ {"dns_zones", "domain_records"} \subseteq Tables
  BY ServiceTables DEF TInv, TablesTyped
<1>3. CASE CreateDNSZone(c)
  <2>1. PICK z : InsertJSON({}, c, "dns_zones", z, ZoneRow)
    BY <1>3 DEF CreateDNSZone
  <2>2. Held(db', req'[c])
    BY <2>1, AnswerHolds DEF InsertJSON
  <2>3. db' = db \/ db' = InsertRow(db, "dns_zones", z, ZoneRow)
    BY <2>1 DEF InsertJSON
  <2>4. /\ db'["domain_records"] = db["domain_records"]
        /\ DOMAIN db["dns_zones"] \subseteq DOMAIN db'["dns_zones"]
    BY <1>2, <2>3 DEF InsertRow
  <2>5. QED BY <2>2, <2>4 DEF Homed
<1>4. CASE UpdateDNSZone(c)
  <2>1. PICK z : Read(c, "dns_zones", z, [at |-> "WriteZone", zone |-> z])
    BY <1>4 DEF UpdateDNSZone
  <2>2. CASE Answer(c, "not_found")
    BY <2>1, <2>2, AnswerHolds DEF Read
  <2>3. CASE Continue(c, [at |-> "WriteZone", zone |-> z])
    BY <1>1, <2>1, <2>3 DEF Read, Held
  <2>4. QED BY <2>1, <2>2, <2>3 DEF Read
<1>5. CASE BeginDeleteDNSZone(c)
  <2>1. PICK z :
          /\ db' = [db EXCEPT !["domain_records"] = [k \in DOMAIN @ \ RecordsOf(z) |-> @[k]]]
          /\ Continue(c, [at |-> "DeleteZone", zone |-> z])
    BY <1>5 DEF BeginDeleteDNSZone
  <2>2. /\ db'["dns_zones"] = db["dns_zones"]
        /\ DOMAIN db'["domain_records"] = DOMAIN db["domain_records"] \ RecordsOf(z)
        /\ \A k \in DOMAIN db'["domain_records"] :
             db'["domain_records"][k] = db["domain_records"][k]
    BY <1>2, <2>1
  <2>3. req'[c] = [at |-> "DeleteZone", zone |-> z]
    BY <1>1, <2>1
  <2>4. Homed(db')
    BY <2>2 DEF Homed
  <2>5. Held(db', req'[c])
    BY <2>2, <2>3 DEF Held, RecordsOf
  <2>6. QED BY <2>4, <2>5
<1>6. CASE BeginPatchRecords(c)
  <2>1. PICK z, todo :
          Read(c, "dns_zones", z,
               [at |-> "PatchRecords", zone |-> z, todo |-> todo, matched |-> {}])
    BY <1>6 DEF BeginPatchRecords
  <2>2. CASE Answer(c, "not_found")
    BY <2>1, <2>2, AnswerHolds DEF Read
  <2>3. CASE /\ Found("dns_zones", z)
             /\ Continue(c, [at |-> "PatchRecords", zone |-> z, todo |-> todo, matched |-> {}])
    <3>1. req'[c].at = "PatchRecords" /\ req'[c].zone = z /\ db' = db
      BY <1>1, <2>1, <2>3 DEF Read
    <3>2. QED BY <2>3, <3>1 DEF Held, Found
  <2>4. QED BY <2>1, <2>2, <2>3 DEF Read
<1>7. QED BY <1>3, <1>4, <1>5, <1>6 DEF Dns

\* After a later one, it has still.
LEMMA DnsProceedingHolds ==
  ASSUME TInv, RequestsFit, NEW c \in Clients, DnsProceeding(c), Homed(db), Held(db, req[c])
  PROVE  Homed(db') /\ Held(db', req'[c])
<1> DEFINE r == req[c]
           zones == db["dns_zones"]
           recs == db["domain_records"]
<1>1. \A s : Continue(c, s) => req'[c] = s
  BY DEF Continue, RequestsFit
<1>2. DOMAIN db = Tables /\ {"dns_zones", "domain_records"} \subseteq Tables
  BY ServiceTables DEF TInv, TablesTyped
<1>3. "at" \in DOMAIN r /\ (r.at \in {"PatchRecords", "ListRecords"} => r \in Patching)
  BY LocalsOfRequests DEF RequestsFit, LocalsFit, TInv
<1>4. \A K : db' = [db EXCEPT !["domain_records"] = [x \in DOMAIN @ \ K |-> @[x]]] =>
               Homed(db') /\ db'["dns_zones"] = zones
  BY <1>2 DEF Homed
<1>5. \A K : db' = Without(K) => Homed(db') /\ db'["dns_zones"] = zones
  BY <1>4 DEF Without
<1>6. ASSUME r \in Patching, r.zone \in DOMAIN zones, db'["dns_zones"] = zones,
             NEW s, s.zone = r.zone, s.at \in {"PatchRecords", "ListRecords"}, Continue(c, s)
      PROVE  Held(db', req'[c])
  BY <1>1, <1>6 DEF Held
<1>7. ASSUME r \in Patching
      PROVE  /\ Done(c).zone = r.zone /\ Done(c).at = r.at
             /\ [r EXCEPT !.at = "ListRecords"].zone = r.zone
             /\ [r EXCEPT !.at = "ListRecords"].at = "ListRecords"
  BY <1>7 DEF Done, Patching
<1>8. ASSUME r.at \in {"PatchRecords", "ListRecords"} PROVE r.zone \in DOMAIN zones
  BY <1>8 DEF Held
<1>9. CASE WriteZone(c)
  BY <1>9, AnswerHolds DEF WriteZone
<1>10. CASE DeleteDNSZone(c)
  <2>1. r.at = "DeleteZone" /\ DeleteBy({}, c, "dns_zones", r.zone)
    BY <1>10 DEF DeleteDNSZone
  <2>2. Held(db', req'[c])
    BY <2>1, AnswerHolds DEF DeleteBy
  <2>3. CASE db' = db
    BY <2>2, <2>3
  <2>4. CASE db' = DeleteRow({}, db, "dns_zones", r.zone)
    <3>1. /\ Doomed({}, db, "dns_zones", r.zone, "domain_records") = {}
          /\ Doomed({}, db, "dns_zones", r.zone, "dns_zones") \subseteq {r.zone}
      BY DEF Doomed
    <3>2. ASSUME NEW u \in Tables, NEW x \in DOMAIN db[u]
          PROVE  db[u][x] = [col \in DOMAIN db[u][x] |-> db[u][x][col]]
      BY DEF TInv, TablesTyped, RowTyped, IsRecord
    <3>3. /\ DOMAIN db'["dns_zones"] = DOMAIN zones
               \ Doomed({}, db, "dns_zones", r.zone, "dns_zones")
          /\ DOMAIN db'["domain_records"] = DOMAIN recs
               \ Doomed({}, db, "dns_zones", r.zone, "domain_records")
          /\ \A k \in DOMAIN db'["domain_records"] : db'["domain_records"][k] = recs[k]
      BY <1>2, <2>4, <3>2, DeleteOnlyTakesAway
    <3>4. \A k \in DOMAIN recs : recs[k].dns_zone \in DOMAIN zones \ {r.zone}
      BY <2>1 DEF Homed, Held
    <3>5. Homed(db')
      BY <3>1, <3>3, <3>4 DEF Homed
    <3>6. QED BY <2>2, <3>5
  <2>5. QED BY <2>1, <2>3, <2>4 DEF DeleteBy
<1>11. CASE AddRecord(c)
  <2>1. r.at = "PatchRecords" /\ r.zone \in DOMAIN zones /\ r \in Patching
    BY <1>3, <1>8, <1>11 DEF AddRecord, NextIs
  <2>2. PICK k : db' = InsertRow(db, "domain_records", k, RecordRow(r.zone, Head(r.todo).fields))
    BY <1>11 DEF AddRecord
  <2>3. /\ db'["dns_zones"] = zones
        /\ \A x \in DOMAIN db'["domain_records"] :
             \/ x \in DOMAIN recs /\ db'["domain_records"][x] = recs[x]
             \/ db'["domain_records"][x].dns_zone = r.zone
    BY <1>2, <2>2 DEF InsertRow, RecordRow
  <2>4. Homed(db')
    BY <2>1, <2>3 DEF Homed
  <2>5. Held(db', req'[c])
    BY <1>6, <1>7, <1>11, <2>1, <2>3 DEF AddRecord
  <2>6. QED BY <2>4, <2>5
<1>12. CASE DeleteRecord(c)
  <2>1. r.at = "PatchRecords" /\ r.zone \in DOMAIN zones /\ r \in Patching
    BY <1>3, <1>8, <1>12 DEF DeleteRecord, NextIs
  <2>2. Homed(db') /\ db'["dns_zones"] = zones
    BY <1>5, <1>12 DEF DeleteRecord
  <2>3. Held(db', req'[c])
    BY <1>6, <1>7, <1>12, <2>1, <2>2 DEF DeleteRecord
  <2>4. QED BY <2>2, <2>3
<1>13. CASE MatchRecords(c)
  <2>1. r.at = "PatchRecords" /\ r.zone \in DOMAIN zones /\ r \in Patching
    BY <1>3, <1>8, <1>13 DEF MatchRecords, NextIs
  <2>2. db' = db
    BY <1>13 DEF MatchRecords
  <2>3. Held(db', req'[c])
    BY <1>6, <1>7, <1>13, <2>1, <2>2 DEF MatchRecords
  <2>4. QED BY <2>2, <2>3
<1>14. CASE ListRecords(c)
  <2>1. r.at = "ListRecords" /\ r.zone \in DOMAIN zones /\ r \in Patching
    BY <1>3, <1>8, <1>14 DEF ListRecords
  <2>2. db' = db
    BY <1>14 DEF ListRecords
  <2>3. PICK found :
          Continue(c, [r EXCEPT !.at = "PatchRecords", !.todo = Tail(@), !.matched = found])
    BY <1>14 DEF ListRecords
  <2> DEFINE s == [r EXCEPT !.at = "PatchRecords", !.todo = Tail(@), !.matched = found]
  <2>4. s.at = "PatchRecords" /\ s.zone = r.zone
    BY <2>1 DEF Patching
  <2>5. Continue(c, s)
    BY <2>3
  <2> HIDE DEF s
  <2>6. Held(db', req'[c])
    BY <1>6, <2>1, <2>2, <2>4, <2>5
  <2>7. QED BY <2>2, <2>6
<1>15. CASE DeleteMatched(c)
  <2>1. r.at = "PatchRecords" /\ r.zone \in DOMAIN zones /\ r \in Patching
    BY <1>3, <1>8, <1>15 DEF DeleteMatched
  <2>2. PICK k : db' = Without(k) /\ Continue(c, [r EXCEPT !.matched = @ \ {k}])
    BY <1>15 DEF DeleteMatched
  <2> DEFINE s == [r EXCEPT !.matched = @ \ {k}]
  <2>3. s.at = "PatchRecords" /\ s.zone = r.zone
    BY <2>1 DEF Patching
  <2>4. Continue(c, s)
    BY <2>2
  <2> HIDE DEF s
  <2>5. Homed(db') /\ db'["dns_zones"] = zones
    BY <1>5, <2>2
  <2>6. Held(db', req'[c])
    BY <1>6, <2>1, <2>3, <2>4, <2>5
  <2>7. QED BY <2>5, <2>6
<1>16. CASE EndPatchRecords(c)
  <2>1. /\ db' = db
        /\ \E status : Answer(c, status)
    BY <1>16 DEF EndPatchRecords, Read, Answer
  <2>2. QED BY <2>1, AnswerHolds
<1>17. QED BY <1>9, <1>10, <1>11, <1>12, <1>13, <1>14, <1>15, <1>16 DEF DnsProceeding

\* A handler that is alone finds what it relies on as it left it.
LEMMA AloneHolds ==
  ASSUME TInv, RequestsFit, NEW c \in Clients, Arrive(c) \/ Proceed(c),
         Homed(db), Held(db, req[c])
  PROVE  Homed(db') /\ Held(db', req'[c])
<1>1. ASSUME NEW ats, Quiet(c, ats), "WriteLists" \notin ats
      PROVE  Homed(db') /\ Held(db', req'[c])
  BY <1>1, QuietLeads, KeptZonesAreHomes DEF Held, DnsAts, Quiet
<1>2. CASE Arriving(c) \/ Proceeding(c)
  BY <1>1, <1>2, ArrivingQuiet, ProceedingQuiet DEF PlainAts
<1>3. CASE WriteLists(c)
  BY <1>1, <1>3, WriteListsQuiet
<1>4. CASE Redis(c) \/ SecurityGroup(c)
  BY <1>4, ListsQuiet, ListStepHolds, KeptZonesAreHomes DEF ListStep
<1>5. QED BY <1>2, <1>3, <1>4, DnsHolds, DnsProceedingHolds DEF Arrive, Proceed

\* With one client every step keeps the records in zones that exist.
LEMMA SerialStep == Known /\ SerialInv /\ [SomeNext]_<<vars, active>> => SerialInv'
<1>1. SUFFICES ASSUME Known, SerialInv, [SomeNext]_<<vars, active>> PROVE SerialInv'
  OBVIOUS
<1>2. CASE UNCHANGED <<vars, active>>
  BY <1>1, <1>2 DEF vars, SerialInv, Serial, Idle
<1>3. CASE SomeNext
  <2>1. PICK c \in active : Arrive(c) \/ Proceed(c)
    BY <1>3 DEF SomeNext
  <2>2. active' = active /\ c \in Clients
    BY <1>1, <1>3 DEF SomeNext, Known
  <2>3. SUFFICES ASSUME Serial
                 PROVE  /\ Homed(db')
                        /\ \A d \in Clients : /\ Held(db', req'[d])
                                              /\ req'[d].at = "answered" \/ d \in active
    BY <2>2 DEF SerialInv, Serial, Idle
  <2>4. Homed(db') /\ Held(db', req'[c])
    BY <1>1, <2>1, <2>2, <2>3, AloneHolds DEF SerialInv, Known, IInv
  <2>5. \A d \in Clients \ {c} : req'[d] = req[d]
    BY <1>1, <2>1, <2>2, StepMoves DEF Moves, Continue, Known, IInv, RequestsFit
  <2>6. ASSUME NEW d \in Clients \ {c}
        PROVE  Held(db', req'[d]) /\ req'[d].at = "answered"
    <3>1. d \notin active
      BY <2>1, <2>3 DEF Serial
    <3>2. req[d].at = "answered"
      BY <1>1, <2>3, <3>1 DEF SerialInv, Idle
    <3>3. QED BY <2>5, <3>2 DEF Held
  <2>7. QED BY <2>1, <2>4, <2>6
<1>4. QED BY <1>1, <1>2, <1>3

\* Without records nothing is to be shown.
LEMMA InitIsSerial == Init => SerialInv
<1> SUFFICES ASSUME Init PROVE SerialInv
  OBVIOUS
<1>1. Homed(db)
  BY ServiceTables DEF Init, Homed, EmptyTable
<1>2. \A c \in Clients : req[c] = Answered("ok")
  BY DEF Init
<1>3. QED BY <1>1, <1>2 DEF SerialInv, Held, Idle, Answered

\* No foreign key ties a DNS record to its zone; handlers look for the zone first, and
\* DeleteDNSZone deletes the records in a statement of its own.  With one client at a time
\* that is enough: every record is in a zone that exists.  (It is not with two.)
THEOREM SerialRecordsAreHomed == SomeSpec => []SerialRecordsHaveTheirZone
<1>1. SerialInv => SerialRecordsHaveTheirZone
  BY DEF SerialInv, Homed, SerialRecordsHaveTheirZone, RecordsHaveTheirZone
<1>2. QED BY <1>1, SomeSpecKnown, InitIsSerial, SerialStep, PTL DEF SomeSpec

\* A write of lists that agrees with the row changes only the lists the request names.
LEMMA AgreeingWriteStays ==
  ASSUME TInv, NEW c \in Clients, WriteLists(c), Agrees(db, req[c])
  PROVE  ListsStay(c)
<1> DEFINE r == req[c]
           row == [doc |-> r.doc]
<1>1. r.table \in Tables \ DnsTables /\ r.names \subseteq DOMAIN r.doc
  BY LocalsOfRequests, ServiceTables DEF WriteLists, TInv
<1>2. DOMAIN db = Tables
  BY DEF TInv, TablesTyped
<1>3. db' = UpdateRow(db, r.table, r.key, row)
  BY DEF WriteLists
<1>4. SUFFICES ASSUME NEW k \in DOMAIN db[r.table], NEW name \in DOMAIN r.doc,
                      ~(k = r.key /\ name \in r.names)
               PROVE  /\ k \in DOMAIN db'[r.table]
                      /\ db'[r.table][k].doc[name] = db[r.table][k].doc[name]
  BY DEF ListsStay
<1>5. CASE r.key \notin DOMAIN db[r.table]
  BY <1>3, <1>4, <1>5 DEF UpdateRow
<1>6. CASE r.key \in DOMAIN db[r.table]
  <2>1. /\ DOMAIN db'[r.table] = DOMAIN db[r.table]
        /\ db'[r.table][r.key] = row
        /\ \A x \in DOMAIN db[r.table] \ {r.key} : db'[r.table][x] = db[r.table][x]
    BY <1>1, <1>2, <1>3, <1>6, UpdateChangesOneRow
  <2>2. CASE k # r.key
    BY <1>4, <2>1, <2>2
  <2>3. CASE k = r.key
    <3>1. db[r.table][k].doc[name] = r.doc[name]
      BY <1>4, <2>3 DEF Agrees
    <3>2. QED BY <1>4, <2>1, <2>3, <3>1
  <2>4. QED BY <2>2, <2>3
<1>7. QED BY <1>5, <1>6

\* PatchDomainRecords changes records of its own zone only, whatever other requests do in
\* between; and with one client at a time, a request about one list of a Redis cluster or
\* security group leaves the other lists of the document as they were.
THEOREM RequestsKeepToThemselves == SomeSpec => RequestsChangeWhatTheyName
<1> DEFINE Keep == \A c \in Clients : PatchStaysInZone(c) /\ (Serial => ListsStay(c))
<1>1. Known /\ SerialInv /\ [SomeNext]_<<vars, active>> => [Keep]_vars
  <2>1. SUFFICES ASSUME Known, SerialInv, SomeNext, NEW c \in Clients
                 PROVE  PatchStaysInZone(c) /\ (Serial => ListsStay(c))
    BY DEF vars
  <2>2. PICK d \in active : Arrive(d) \/ Proceed(d)
    BY <2>1 DEF SomeNext
  <2>3. d \in Clients
    BY <2>1 DEF Known
  <2>4. c # d => req'[c] = req[c]
    BY <2>1, <2>2, <2>3, StepMoves DEF Moves, Continue, Known, IInv, RequestsFit
  <2>5. PatchStaysInZone(c)
    <3>1. CASE c = d
      BY <2>1, <2>2, <2>3, <3>1, PatchesStay DEF Known
    <3>2. CASE c # d
      BY <2>4, <3>2 DEF PatchStaysInZone
    <3>3. QED BY <3>1, <3>2
  <2>6. ASSUME Serial, req[c].at = "WriteLists" PROVE ListsStay(c)
    <3>1. c \in active /\ Agrees(db, req[c])
      BY <2>1, <2>6 DEF SerialInv, Idle, Held
    <3>2. c = d
      BY <2>2, <2>6, <3>1 DEF Serial
    <3>3. WriteLists(c)
      BY <2>2, <2>6, <3>2, WhoProceeds
    <3>4. QED BY <2>1, <3>1, <3>3, AgreeingWriteStays DEF Known
  <2>7. req[c].at # "WriteLists" => ListsStay(c)
    BY DEF ListsStay
  <2>8. QED BY <2>5, <2>6, <2>7
<1>2. SomeSpec => [](Known /\ SerialInv)
  BY SomeSpecKnown, InitIsSerial, SerialStep, PTL DEF SomeSpec
<1>3. SomeSpec => [][Keep]_vars
  BY <1>1, <1>2, PTL DEF SomeSpec
<1>4. QED BY <1>3 DEF RequestsChangeWhatTheyName

=============================================================================
