-------------------------- MODULE MCWorkerCleanup --------------------------
(* TLC instance of WorkerCleanup.                                          *)
EXTENDS WorkerCleanup, TLC

Symmetry == Permutations(Deployments) \cup Permutations(Runners)

\* Bound: a run stops, or loses the record of what it deleted, only while one of
\* the deployments has not begun.
FaultyRunsMeetOneDeployment ==
  (stops = 0 /\ unrecorded = {}) \/ \E d \in Deployments : At(d, "upload")

=============================================================================
