-------------------------- MODULE PublishedRoute --------------------------
(***************************************************************************)
(* What a router may observe of one hostname, and nothing else: the        *)
(* snapshot the hostname resolves to, or None.  RoutePointer.tla, the      *)
(* protocol of the Durable Object that owns the hostname, implements it.   *)
(***************************************************************************)
EXTENDS Integers

CONSTANTS
  Sites,          \* site identities (siteId together with its routeId)
  None            \* no snapshot is published

\* A snapshot: its owner, its (routeGeneration, policyVersion) and whether
\* it says that the route is deleted (routeStatus deleted, runtime disabled).
Published == [site : Sites, gen : Nat, pol : Nat, status : {"serving", "deleted"}]

VARIABLE visible

\* (a.gen, a.pol) is lexicographically greater than (b.gen, b.pol).
IsAhead(a, b) == a.gen > b.gen \/ (a.gen = b.gen /\ a.pol > b.pol)

Init == visible = None

\* An owner moves its own route forward, never backward; another owner takes
\* the hostname only when nothing is published or the route is deleted.
Publish ==
  /\ visible' \in Published
  /\ \/ visible = None
     \/ visible.site = visible'.site /\ ~IsAhead(visible, visible')
     \/ visible.site # visible'.site /\ visible.status = "deleted"

Withdraw == visible # None /\ visible' = None

Next == Publish \/ Withdraw

Spec == Init /\ [][Next]_visible
=============================================================================
