------------------------- MODULE ForeignKeysProofs -------------------------
(***************************************************************************)
(* Each statement the database accepts keeps RefIntegrity, for every set   *)
(* of foreign keys and every database laid out for them.                   *)
(***************************************************************************)
EXTENDS ForeignKeys, TLAPS

\* The tables and columns the keys speak of are there.
LaidOutFor(K, db) ==
  \A fk \in K :
    /\ fk.child \in DOMAIN db /\ fk.parent \in DOMAIN db
    /\ fk.action \in {NoAction, Cascade, SetNull}
    /\ \A c \in DOMAIN db[fk.child] : fk.col \in DOMAIN db[fk.child][c]

\* An accepted INSERT keeps every reference live.
LEMMA InsertKeepsIntegrity ==
  ASSUME NEW K, NEW db, NEW t \in DOMAIN db, NEW k, NEW row,
         LaidOutFor(K, db), RefIntegrity(K, db), RowOK(K, db, t, row)
  PROVE  RefIntegrity(K, InsertRow(db, t, k, row))
<1> DEFINE new == InsertRow(db, t, k, row)
<1>1. \A u \in DOMAIN db : DOMAIN db[u] \subseteq DOMAIN new[u]
  BY DEF InsertRow
<1>2. SUFFICES ASSUME NEW fk \in K, NEW c \in DOMAIN new[fk.child]
               PROVE  new[fk.child][c][fk.col] \in DOMAIN new[fk.parent] \cup {Null}
  BY DEF RefIntegrity
<1>3. CASE fk.child = t /\ c = k
  BY <1>1, <1>3 DEF RowOK, LaidOutFor, InsertRow
<1>4. CASE ~(fk.child = t /\ c = k)
  <2>1. c \in DOMAIN db[fk.child] /\ new[fk.child][c] = db[fk.child][c]
    BY <1>4 DEF LaidOutFor, InsertRow
  <2>2. QED BY <2>1, <1>1 DEF RefIntegrity, LaidOutFor
<1>5. QED BY <1>3, <1>4

\* An accepted UPDATE keeps every reference live, also when the row is gone.
LEMMA UpdateKeepsIntegrity ==
  ASSUME NEW K, NEW db, NEW t \in DOMAIN db, NEW k, NEW row,
         LaidOutFor(K, db), RefIntegrity(K, db),
         k \in DOMAIN db[t] => RowOK(K, db, t, row)
  PROVE  RefIntegrity(K, UpdateRow(db, t, k, row))
<1> DEFINE new == UpdateRow(db, t, k, row)
<1>1. CASE k \notin DOMAIN db[t]
  BY <1>1 DEF UpdateRow
<1>2. CASE k \in DOMAIN db[t]
  <2>1. \A u \in DOMAIN db : DOMAIN new[u] = DOMAIN db[u]
    BY <1>2 DEF UpdateRow
  <2>2. SUFFICES ASSUME NEW fk \in K, NEW c \in DOMAIN new[fk.child]
                 PROVE  new[fk.child][c][fk.col] \in DOMAIN new[fk.parent] \cup {Null}
    BY DEF RefIntegrity
  <2>3. CASE fk.child = t /\ c = k
    BY <1>2, <2>1, <2>3 DEF RowOK, LaidOutFor, UpdateRow
  <2>4. CASE ~(fk.child = t /\ c = k)
    <3>1. c \in DOMAIN db[fk.child] /\ new[fk.child][c] = db[fk.child][c]
      BY <1>2, <2>1, <2>4 DEF LaidOutFor, UpdateRow
    <3>2. QED BY <3>1, <2>1 DEF RefIntegrity, LaidOutFor
  <2>5. QED BY <2>3, <2>4
<1>3. QED BY <1>1, <1>2

\* An accepted DELETE keeps every reference live: what referred to the row is
\* gone with it (CASCADE), cleared (SET NULL), or would have refused it (NO ACTION).
LEMMA DeleteKeepsIntegrity ==
  ASSUME NEW K, NEW db, NEW t \in DOMAIN db, NEW k,
         LaidOutFor(K, db), CascadesEndAtOnce(K), RefIntegrity(K, db),
         ~Blocked(K, db, t, k)
  PROVE  RefIntegrity(K, DeleteRow(K, db, t, k))
<1> DEFINE new == DeleteRow(K, db, t, k)
           Gone(u) == Doomed(K, db, t, k, u)
<1>1. SUFFICES ASSUME NEW fk \in K, NEW c \in DOMAIN new[fk.child],
                      new[fk.child][c][fk.col] # Null
               PROVE  new[fk.child][c][fk.col] \in DOMAIN new[fk.parent]
  BY DEF RefIntegrity
<1> DEFINE v == db[fk.child][c][fk.col]
<1>2. /\ c \in DOMAIN db[fk.child] \ Gone(fk.child)
      /\ new[fk.child][c] = ClearedRow(K, t, k, fk.child, db[fk.child][c])
      /\ DOMAIN new[fk.parent] = DOMAIN db[fk.parent] \ Gone(fk.parent)
  BY DEF DeleteRow, LaidOutFor
<1>3. fk.col \in DOMAIN db[fk.child][c]
  BY <1>2 DEF LaidOutFor
<1>4. new[fk.child][c][fk.col] = v
  BY <1>1, <1>2, <1>3 DEF ClearedRow
<1>5. v \in DOMAIN db[fk.parent]
  BY <1>1, <1>2, <1>4 DEF RefIntegrity
<1>6. v \notin Gone(fk.parent)
  <2>1. SUFFICES ASSUME v \in Gone(fk.parent) PROVE FALSE
    OBVIOUS
  <2>2. fk.parent = t /\ v = k
    BY <2>1 DEF Doomed, CascadesEndAtOnce
  <2>3. fk.action # NoAction
    BY <2>2, <1>2 DEF Blocked, Referencing
  <2>4. fk.action # Cascade
    BY <2>2, <1>2 DEF Doomed
  <2>5. fk.action # SetNull
    BY <2>2, <1>1, <1>2, <1>3 DEF ClearedRow
  <2>6. QED BY <2>3, <2>4, <2>5 DEF LaidOutFor
<1>7. QED BY <1>2, <1>4, <1>5, <1>6

-----------------------------------------------------------------------------
(***************************************************************************)
(* What the statements leave of the tables, row by row.                    *)
(***************************************************************************)

\* An INSERT of a row that is not there adds it and changes nothing else.
LEMMA InsertAddsOneRow ==
  ASSUME NEW db, NEW t \in DOMAIN db, NEW k, NEW row, k \notin DOMAIN db[t]
  PROVE  /\ DOMAIN InsertRow(db, t, k, row) = DOMAIN db
         /\ \A u \in DOMAIN db \ {t} : InsertRow(db, t, k, row)[u] = db[u]
         /\ DOMAIN InsertRow(db, t, k, row)[t] = DOMAIN db[t] \cup {k}
         /\ InsertRow(db, t, k, row)[t][k] = row
         /\ \A x \in DOMAIN db[t] : InsertRow(db, t, k, row)[t][x] = db[t][x]
BY DEF InsertRow

\* An UPDATE of a row that is there changes that row.
LEMMA UpdateChangesOneRow ==
  ASSUME NEW db, NEW t \in DOMAIN db, NEW k \in DOMAIN db[t], NEW row
  PROVE  /\ DOMAIN UpdateRow(db, t, k, row) = DOMAIN db
         /\ \A u \in DOMAIN db \ {t} : UpdateRow(db, t, k, row)[u] = db[u]
         /\ DOMAIN UpdateRow(db, t, k, row)[t] = DOMAIN db[t]
         /\ UpdateRow(db, t, k, row)[t][k] = row
         /\ \A x \in DOMAIN db[t] \ {k} : UpdateRow(db, t, k, row)[t][x] = db[t][x]
BY DEF UpdateRow

\* An INSERT that meets its row, where the schema says so, amounts to an UPDATE.
LEMMA InsertOverRow ==
  ASSUME NEW db, NEW t \in DOMAIN db, NEW k \in DOMAIN db[t], NEW row,
         db[t] = [x \in DOMAIN db[t] |-> db[t][x]]
  PROVE  InsertRow(db, t, k, row) = UpdateRow(db, t, k, row)
<1>1. [x \in DOMAIN db[t] \cup {k} |-> IF x = k THEN row ELSE db[t][x]]
        = [db[t] EXCEPT ![k] = row]
  OBVIOUS
<1>2. QED BY <1>1 DEF InsertRow, UpdateRow

\* Without SET NULL keys, a DELETE leaves the rows that stay as they are.
LEMMA DeleteOnlyTakesAway ==
  ASSUME NEW K, NEW db, NEW t, NEW k, NEW u \in DOMAIN db,
         \A fk \in K : fk.action # SetNull,
         \A x \in DOMAIN db[u] : db[u][x] = [col \in DOMAIN db[u][x] |-> db[u][x][col]]
  PROVE  /\ DOMAIN DeleteRow(K, db, t, k) = DOMAIN db
         /\ DOMAIN DeleteRow(K, db, t, k)[u] = DOMAIN db[u] \ Doomed(K, db, t, k, u)
         /\ \A x \in DOMAIN DeleteRow(K, db, t, k)[u] :
              DeleteRow(K, db, t, k)[u][x] = db[u][x]
<1>1. /\ DOMAIN DeleteRow(K, db, t, k) = DOMAIN db
      /\ DeleteRow(K, db, t, k)[u]
           = [x \in DOMAIN db[u] \ Doomed(K, db, t, k, u) |-> ClearedRow(K, t, k, u, db[u][x])]
  BY DEF DeleteRow
<1>2. ASSUME NEW x \in DOMAIN db[u]
      PROVE  ClearedRow(K, t, k, u, db[u][x]) = [col \in DOMAIN db[u][x] |-> db[u][x][col]]
  BY DEF ClearedRow
<1>3. QED BY <1>1, <1>2

\* What ReferencesIn shows of a database.
LEMMA ReferencesSeen ==
  ASSUME NEW K, NEW db
  PROVE  /\ DOMAIN ReferencesIn(K, db) = DOMAIN db
         /\ \A u \in DOMAIN db :
              /\ DOMAIN ReferencesIn(K, db)[u] = DOMAIN db[u]
              /\ \A x \in DOMAIN db[u] :
                   ReferencesIn(K, db)[u][x] = [col \in Columns(K, u) |-> db[u][x][col]]
         /\ \A fk \in K : fk.child \in DOMAIN db => \A x \in DOMAIN db[fk.child] :
              /\ fk.col \in DOMAIN ReferencesIn(K, db)[fk.child][x]
              /\ ReferencesIn(K, db)[fk.child][x][fk.col] = db[fk.child][x][fk.col]
BY DEF ReferencesIn, Columns

\* A row that is the same looks the same.
LEMMA SameRowSeen ==
  ASSUME NEW K, NEW d, NEW e, NEW u \in DOMAIN d \cap DOMAIN e,
         NEW x \in DOMAIN d[u] \cap DOMAIN e[u], d[u][x] = e[u][x]
  PROVE  ReferencesIn(K, d)[u][x] = ReferencesIn(K, e)[u][x]
BY DEF ReferencesIn

\* Tables with the same rows look the same.
LEMMA SameRowsSeen ==
  ASSUME NEW K, NEW d, NEW e, DOMAIN d = DOMAIN e, NEW u \in DOMAIN d,
         DOMAIN d[u] = DOMAIN e[u], \A x \in DOMAIN d[u] : d[u][x] = e[u][x]
  PROVE  ReferencesIn(K, d)[u] = ReferencesIn(K, e)[u]
BY DEF ReferencesIn

\* Databases whose tables look the same look the same.
LEMMA SameTablesSeen ==
  ASSUME NEW K, NEW d, NEW e, DOMAIN d = DOMAIN e,
         \A u \in DOMAIN d : ReferencesIn(K, d)[u] = ReferencesIn(K, e)[u]
  PROVE  ReferencesIn(K, d) = ReferencesIn(K, e)
<1>1. /\ ReferencesIn(K, d) = [u \in DOMAIN d |-> ReferencesIn(K, d)[u]]
      /\ ReferencesIn(K, e) = [u \in DOMAIN e |-> ReferencesIn(K, e)[u]]
  BY DEF ReferencesIn
<1>2. QED BY <1>1

\* A row that the foreign keys accept refers, as ReferencesIn shows it, to what is there.
LEMMA AcceptedRowSeen ==
  ASSUME NEW K, NEW d, NEW e, NEW t \in DOMAIN e, NEW k \in DOMAIN e[t],
         RowOK(K, d, t, e[t][k]), \A fk \in K : fk.parent \in DOMAIN d
  PROVE  \A fk \in K : fk.child = t =>
           /\ fk.col \in DOMAIN ReferencesIn(K, e)[t][k]
           /\ ReferencesIn(K, e)[t][k][fk.col]
                \in DOMAIN ReferencesIn(K, d)[fk.parent] \cup {Null}
BY ReferencesSeen DEF RowOK

=============================================================================
