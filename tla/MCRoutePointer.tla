-------------------------- MODULE MCRoutePointer --------------------------
(* TLC instance of RoutePointer under three regimes, one of them chosen at *)
(* the beginning and each with bounds of its own:                          *)
(*   "late"  two identities own the hostname in turn, one further          *)
(*           generation each, and requests are delayed without limit;      *)
(*   "turn"  two further generations, one policy version, and requests     *)
(*           end with their site's claim;                                  *)
(*   "owner" one identity keeps the hostname.                              *)
(* The constants of the configuration are the widest of the three.         *)
EXTENDS RoutePointer, TLC

VARIABLE regime

Within(r) ==
  CASE regime = "late" -> r.gen <= 1
    [] regime = "turn" -> r.gen <= 2 /\ r.pol <= 1
    [] regime = "owner" -> \A q \in rows : q.site = r.site

\* A step that keeps the regime, and one whose new route is within its bounds.
Bounded(A) == A /\ UNCHANGED regime
Committed(A) == Bounded(A) /\ \A s \in Sites : route'[s] # route[s] => Within(route'[s])

MCInit == Init /\ regime \in {"late", "turn", "owner"} /\ late = (regime # "turn")

MCNext ==
  \/ \E s \in Sites :
       \/ Committed(CreateSite(s)) \/ Committed(CommitRow(s))
       \/ Committed(DeleteActiveSite(s)) \/ Committed(DeleteInactiveSite(s))
       \/ Bounded(EndReuseHold(s))
  \/ \E r \in rows : Bounded(StartWrite(r))
  \/ Bounded(PersistOwnerFence) \/ Bounded(PutSnapshot)
  \/ Bounded(PutPointer) \/ Bounded(PersistPointer)
  \/ \E r \in rows : Bounded(StartClear(KeyOf(r)))
  \/ Bounded(PutTombstone) \/ Bounded(DeletePointer) \/ Bounded(ConfirmCleared)
  \/ Bounded(EndEarly)

MCSpec == MCInit /\ [][MCNext]_<<vars, regime>>

SiteSymmetry == Permutations(Sites)
=============================================================================
