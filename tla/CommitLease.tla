----------------------------- MODULE CommitLease -----------------------------
(***************************************************************************)
(* What the commit lock of a site promises to the callbacks that run under *)
(* it: as long as a callback's signal has not aborted, nobody else takes   *)
(* the lock, so that one callback at most is healthy.  SiteCommitLock.tla, *)
(* with its clocks, renewals and delays, implements this, and so does the  *)
(* lock of Deployment.tla, which has none of them.                         *)
(***************************************************************************)
CONSTANTS
  Sessions,       \* calls of withSiteCommitLock
  None

VARIABLES
  holder,         \* the session that took the lock last, None once it is given back
  healthy         \* the sessions whose callback runs and has not been aborted

leaseVars == <<holder, healthy>>

LeaseInit == holder = None /\ healthy = {}

\* The callback starts at once or later.
Take(s) == healthy = {} /\ holder' = s /\ healthy' \subseteq {s}

Start(s) == holder = s /\ healthy' = healthy \cup {s} /\ UNCHANGED holder

\* The callback returns, is aborted, or stops.
Leave(s) == healthy' = healthy \ {s} /\ UNCHANGED holder

GiveBack == healthy = {} /\ holder' = None /\ UNCHANGED healthy

LeaseNext == GiveBack \/ \E s \in Sessions : Take(s) \/ Start(s) \/ Leave(s)

LeaseSpec == LeaseInit /\ [][LeaseNext]_leaseVars
=============================================================================
