---------------------------- MODULE MCDeployment ----------------------------
(* TLC instance of Deployment.  The deployments are interchangeable.       *)
EXTENDS Deployment, TLC

\* Every row that the sessions can commit: each commits at most two, one of
\* them to compensate the other.
MCRoutes == [gen : 1..(1 + 2 * Cardinality(Deployments)),
             pol : 1..(1 + 2 * Cardinality(PolicyChanges)),
             ver : Versions]

DeploymentSymmetry == Permutations(Deployments)
=============================================================================
