--------------------------- MODULE ReferentialStore ---------------------------
(***************************************************************************)
(* What a service promises its clients about the resources it keeps,       *)
(* without tables, statements and handlers.                                *)
(*                                                                         *)
(* A resource has a kind and an id and refers to other resources, through  *)
(* references of three sorts: it goes with the resource that owns it, it   *)
(* is detached when the resource it refers to goes, or it keeps that       *)
(* resource from going.  In one step one resource appears, one changes     *)
(* what it refers to, one goes, or a list that belongs to one is replaced  *)
(* as a whole; everything else stays as it is.                             *)
(*                                                                         *)
(* The services instantiate this module with the columns of their tables   *)
(* for rows, and implement Spec: this is the property KeepsReferences of   *)
(* each of them.                                                           *)
(***************************************************************************)
CONSTANTS
  Kinds,      \* the kinds of resources
  Owns,       \* references: the child goes with its parent
  Detaches,   \* references: cleared when the parent goes
  Blocks,     \* references: while there is one, the parent stays
  Listed,     \* those references of Owns whose children are replaced all at once
  Nothing     \* the target of a reference that refers to nothing

VARIABLE rows   \* rows[kind][id][col] is what the resource refers to through col

References == Owns \cup Detaches \cup Blocks

Live(t) == DOMAIN rows[t]

\* All that resource r of kind t refers to is there.
Settled(t, r) ==
  \A ref \in References : ref.child = t =>
    ref.col \in DOMAIN r /\ r[ref.col] \in Live(ref.parent) \cup {Nothing}

Unchanged(kinds) == \A t \in kinds : rows'[t] = rows[t]

-----------------------------------------------------------------------------
Init == rows = [t \in Kinds |-> [k \in {} |-> Nothing]]

Appear(t, k) ==
  /\ k \notin Live(t)
  /\ DOMAIN rows'[t] = Live(t) \cup {k}
  /\ \A x \in Live(t) : rows'[t][x] = rows[t][x]
  /\ Settled(t, rows'[t][k])
  /\ Unchanged(Kinds \ {t})

Relink(t, k) ==
  /\ k \in Live(t)
  /\ DOMAIN rows'[t] = Live(t)
  /\ \A x \in Live(t) \ {k} : rows'[t][x] = rows[t][x]
  /\ Settled(t, rows'[t][k])
  /\ Unchanged(Kinds \ {t})

\* What goes with resource k of kind t: itself and what it owns.
Goes(t, k, u) ==
  {x \in Live(u) : \/ u = t /\ x = k
                   \/ \E ref \in Owns : /\ ref.child = u /\ ref.parent = t
                                        /\ rows[u][x][ref.col] = k}

Detached(t, k, u, r) ==
  [col \in DOMAIN r |->
     IF \E ref \in Detaches : ref.child = u /\ ref.parent = t /\ ref.col = col /\ r[col] = k
     THEN Nothing ELSE r[col]]

Disappear(t, k) ==
  /\ k \in Live(t)
  /\ \A ref \in Blocks : ref.parent = t =>
       \A x \in Live(ref.child) : rows[ref.child][x][ref.col] # k
  /\ \A u \in Kinds :
       /\ DOMAIN rows'[u] = Live(u) \ Goes(t, k, u)
       /\ \A x \in Live(u) \ Goes(t, k, u) : rows'[u][x] = Detached(t, k, u, rows[u][x])

\* The children of one parent through ref are replaced by others.
Replace(ref, owner) ==
  LET t == ref.child
      others == {x \in Live(t) : rows[t][x][ref.col] # owner} IN
  /\ others \subseteq DOMAIN rows'[t]
  /\ \A x \in DOMAIN rows'[t] :
       IF x \in others
       THEN rows'[t][x] = rows[t][x]
       ELSE rows'[t][x][ref.col] = owner /\ Settled(t, rows'[t][x])
  /\ Unchanged(Kinds \ {t})

Next ==
  \E t \in {u \in Kinds : rows'[u] # rows[u]} :
    \/ \E k \in DOMAIN rows'[t] \ Live(t) : Appear(t, k)
    \/ \E k \in DOMAIN rows'[t] \cap Live(t) : Relink(t, k)
    \/ \E k \in Live(t) \ DOMAIN rows'[t] : Disappear(t, k)
    \/ \E ref \in Listed : /\ ref.child = t
                            /\ \E owner \in Live(ref.parent) : Replace(ref, owner)

Spec == Init /\ [][Next]_rows

-----------------------------------------------------------------------------
(***************************************************************************)
(* What follows for every service that implements Spec: nothing refers to  *)
(* a resource that is not there.                                           *)
(***************************************************************************)
NothingDangles == \A t \in Kinds : \A k \in Live(t) : Settled(t, rows[t][k])

=============================================================================
