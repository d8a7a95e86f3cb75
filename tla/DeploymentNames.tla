--------------------------- MODULE DeploymentNames ---------------------------
(* What the record of a deployment and the site's variables have in common. *)

CONSTANTS
  Deploys,  \* deployments; each brings a version of its own
  First,    \* the version that is active to begin with
  Nobody    \* no request; also where there is no value
=============================================================================
