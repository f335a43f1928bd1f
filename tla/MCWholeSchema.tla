---------------------------- MODULE MCWholeSchema ----------------------------
(***************************************************************************)
(* Instances for TLC of what passes over the whole schema.  In every       *)
(* behaviour there are dumps, or resets, but not both, and rows come and   *)
(* go in the child and the parent table of one foreign key or, with        *)
(* resets, in a table without a foreign key; all other tables stay empty.  *)
(***************************************************************************)
EXTENDS StateDump, ResetTables, FiniteSets, TLC

CONSTANT MaxChanges   \* bound: rows that come and go while a dump is taken

VARIABLES
  dumping,   \* there are dumps, not resets
  scope      \* the tables that have rows

\* No definition tells one key from another.
Interchangeable == Permutations(Ids)

Pairs == {{fk.child, fk.parent} : fk \in AllKeys}

MCInit ==
  /\ DumpInit /\ ResetInit
  /\ dumping \in BOOLEAN
  /\ scope \in Pairs \cup {{t} : t \in IF dumping THEN {} ELSE Tables \ UNION Pairs}

-----------------------------------------------------------------------------
Changes == UNION {{t} \X (came[t] \cup gone[t]) : t \in Tables}

\* Requests come between two dumps and just before a table of the scope is read.  Reading
\* a table that stays empty commutes with them, and after the last table of the scope they
\* only add to what DumpsAreClosed allows.  A dump that reads neither table is left out.
RequestsMatter ==
  order = <<>> \/ (pos < Len(order) /\ order[pos + 1] \in scope)

MCDump ==
  /\ dumping
  /\ \/ FullState \/ ServiceState \/ ReadTable \/ SendDump
     \/ RequestsMatter /\ RequestDuringDump(scope)
  /\ order' = <<>> \/ \E n \in DOMAIN order' : order'[n] \in scope
  /\ Cardinality(Changes') <= MaxChanges
  /\ UNCHANGED <<resetting, cleared>>

\* A dump that has read both tables is followed no further, unless it is done: sending it
\* leads back to where it began, with the rows there are now.
StillReading == pos = Len(order) \/ \E n \in pos + 1 .. Len(order) : order[n] \in scope

-----------------------------------------------------------------------------
MCReset ==
  /\ ~dumping
  /\ BeginReset \/ ClearTable \/ EndReset \/ Abandon \/ RequestBetweenResets(scope)
  /\ UNCHANGED <<order, pos, seen, came, gone>>

MCNext == (MCDump \/ MCReset) /\ UNCHANGED <<dumping, scope>>

MCSpec == MCInit /\ [][MCNext]_<<dumpVars, resetVars, dumping, scope>>

=============================================================================
