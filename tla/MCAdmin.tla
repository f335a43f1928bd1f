------------------------------ MODULE MCAdmin ------------------------------
(***************************************************************************)
(* Instances of the admin operations for TLC.  In every behaviour some of  *)
(* the clients send requests, and some of those admin requests: one alone, *)
(* one next to an ordinary client, or two.  The process is killed only     *)
(* when one client sends admin requests.  A client alone has all the       *)
(* instance has, two share one VPC, two admin clients without a network.   *)
(***************************************************************************)
EXTENDS AdminProperties, TLC

VARIABLES
  active,   \* the clients that send requests
  acting    \* those among them that send admin requests

mcVars == <<adminVars, active, acting>>

Serial   == \A c, d \in active : c = d
OneAdmin == \A c, d \in acting : c = d

Bounds ==
  /\ Serial \/ \A v, w \in issued \cap Vpcs : v = w
  /\ OneAdmin \/ issued \cap Networks = {}

MCInit == /\ Init
          /\ active \in (SUBSET Clients) \ {{}}
          /\ acting \in (SUBSET (active \cap Admins)) \ {{}}

MCNext ==
  /\ \/ OneAdmin /\ Crash
     \/ \E c \in acting : Arrive(c)
     \/ \E c \in active \ acting : OrdinaryRequest(c)
     \/ \E c \in active : Proceed(c)
  /\ UNCHANGED <<active, acting>>
  /\ Bounds'

MCSpec == MCInit /\ [][MCNext]_mcVars

(***************************************************************************)
(* Strong fairness: a handler may have to wait for the connection again    *)
(* and again, each time another one has it, but the pool hands it to       *)
(* somebody who waits, first come or at random, and passes nobody over for *)
(* ever.                                                                   *)
(***************************************************************************)
MCFairSpec ==
  MCSpec /\ \A c \in Clients : SF_mcVars(Proceed(c) /\ UNCHANGED <<active, acting>>)

Symmetry == Permutations(Vpcs)

-----------------------------------------------------------------------------
\* With one admin client, wherever the process is killed, foreign keys are
\* enforced between admin requests.
OneAdminKeepsEnforcement == OneAdmin => EnforcementResumes

\* With one admin client, wherever the process is killed, Restore puts nothing but
\* the snapshot in place, unless the kill was in the middle of taking it.
OneAdminRestoresTheSnapshot == [][OneAdmin => RestoresTheSnapshotThereIs]_mcVars

\* One request at a time, no private network outlives its VPC, not even through a
\* reset that works with foreign keys off, a restore, or a kill.
SerialNetworksHaveTheirVpc == Serial => NetworksHaveTheirVpc

\* One request at a time, a reset that succeeds leaves nothing behind.
SerialResetWipesAllState == [][Serial => ResetWipesAllState]_mcVars

\* One request at a time, a restore that succeeds brings the snapshot back, also
\* after kills; a snapshot whose VACUUM was killed is excepted.
SerialRestoreBringsSnapshotBack == [][Serial => RestoreBringsSnapshotBack]_mcVars

=============================================================================
