----------------------------- MODULE SiteWorkers -----------------------------
(***************************************************************************)
(* What the handlers of one site promise each other about its Workers, and *)
(* nothing of how: a version's Worker is uploaded once, the site's route   *)
(* moves only to versions that have one, routers are led only to a version *)
(* that the route has at that moment, and a Worker is deleted only when    *)
(* neither the route nor a router leads to it.  Deployment.tla, where the  *)
(* handlers overlap and compensate, and WorkerCleanup.tla, where rollbacks *)
(* and cleanup runs meet them, both implement this.                        *)
(***************************************************************************)
CONSTANT Versions

VARIABLES
  expected,   \* the versions whose Worker is still to be uploaded
  kept,       \* the versions that have their Worker
  active,     \* D1: the version of the site's route
  shown       \* the versions to which a router may dispatch a visitor

siteVars == <<expected, kept, active, shown>>

Upload(v) ==
  /\ v \in expected
  /\ expected' = expected \ {v}
  /\ kept' = kept \cup {v}
  /\ UNCHANGED <<active, shown>>

\* The request stops before its upload.
GiveUp(v) ==
  /\ v \in expected
  /\ expected' = expected \ {v}
  /\ UNCHANGED <<kept, active, shown>>

\* A deployment, a rollback, or a compensation that goes back.
Activate(v) ==
  /\ v \in kept
  /\ active' = v
  /\ UNCHANGED <<expected, kept, shown>>

\* The pointer is written or cleared, and caches expire.
Show ==
  /\ shown' \subseteq shown \cup {active}
  /\ UNCHANGED <<expected, kept, active>>

Delete(v) ==
  /\ v \in kept \ ({active} \cup shown)
  /\ kept' = kept \ {v}
  /\ UNCHANGED <<expected, active, shown>>

\* The route may have been published already.
SiteInit ==
  /\ active \in kept /\ shown \subseteq {active}
  /\ expected \in SUBSET Versions /\ kept \in SUBSET (Versions \ expected)

SiteNext ==
  \/ \E v \in Versions : Upload(v) \/ GiveUp(v) \/ Activate(v) \/ Delete(v)
  \/ Show

SiteSpec == SiteInit /\ [][SiteNext]_siteVars
=============================================================================
