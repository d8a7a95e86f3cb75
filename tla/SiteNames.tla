----------------------------- MODULE SiteNames -----------------------------
(***************************************************************************)
(* Which site a hostname belongs to, and which one it serves: creation,    *)
(* renaming and deletion of sites (application/sites/*.js and the store's  *)
(* site-lifecycle.js, site-metadata.js, route-activation.js).              *)
(*                                                                         *)
(* The claims, sites and routes are rows of D1 and change in batches; the  *)
(* hostnames' pointers are changed by calls that can fail, or time out and *)
(* be carried out later (RoutePointer.tla has their protocol).  A handler  *)
(* holds its site's commit lock (SiteCommitLock.tla), so at most one works *)
(* on a site; it can stop between any two steps.                           *)
(***************************************************************************)
EXTENDS Integers, Sequences, FiniteSets, PlatformNames

CONSTANTS
  None,           \* no record
  Unreachable,    \* hostnames whose pointer calls always fail
  MaxGeneration,  \* bound on route_generation
  MaxStops        \* bound on handlers that stop half-way, and on late calls

ASSUME NamesAssumption == MaxGeneration \in Nat

VARIABLES
  site,       \* sites and site_routes: one record per site
  claim,      \* hostname_claims: one record per hostname
  pointer,    \* what the hostname's pointer leads to
  tombstone,  \* the Durable Object's record of the last clear
  work,       \* the handler that holds the site's lock, and where it is
  queue,      \* the sites by slug_routing_reconcile_attempted_at
  late,       \* writes that timed out and are still under way
  stops,
  abandoned   \* history: sites whose deletion ended before the hostname knew

rows == <<site, claim>>
edge == <<pointer, tombstone, late>>
namesVars == <<site, claim, pointer, tombstone, work, queue, late, stops, abandoned>>

\* A claim is "active", held until the rename's cleanup is done ("pending"),
\* held until a time ("held"), or free for the next owner: released, or held
\* until a time that has passed.
Claim(s, status) == [owner |-> s, status |-> status]

Live(s) == site[s].state = "live"
Idle(s) == work[s] = None
At(s, kind, step) == ~Idle(s) /\ work[s].kind = kind /\ work[s].step = step
Begin(s, w) == work' = [work EXCEPT ![s] = w]
Job(kind, step, todo, before) ==
  [kind |-> kind, step |-> step, todo |-> todo, at |-> None, failed |-> FALSE, before |-> before]
Step(s, step) == work' = [work EXCEPT ![s].step = step]
Finish(s) == work' = [work EXCEPT ![s] = None]

\* listSiteRetiringHostnameClaims
Retiring(s) == {h \in Hostnames : claim[h] = Claim(s, "pending")}

\* What a deletion reads before it begins.
Before(s) ==
  [row |-> site[s],
   claims |-> [h \in Hostnames |-> IF claim[h].owner = s THEN claim[h] ELSE None]]

\* The row of site_routes as the pointer protocol sees it.
RouteOf(s) == [site |-> s, gen |-> site[s].gen, live |-> Live(s)]

----------------------------------------------------------------------------
(* Calls to the hostname's Durable Object.                                 *)

Accepts(h, r) ==
  /\ pointer[h] # None =>
       IF pointer[h].site = r.site THEN pointer[h].gen <= r.gen ELSE ~pointer[h].live
  /\ tombstone[h] # None /\ tombstone[h].site = r.site => tombstone[h].gen < r.gen

\* A snapshot and the pointer to it are written.
Publish(h, r) ==
  /\ h \notin Unreachable /\ Accepts(h, r)
  /\ pointer' = [pointer EXCEPT ![h] = r]
  /\ tombstone' = [tombstone EXCEPT ![h] = None]
  /\ UNCHANGED late

\* The answer is an error: nothing happened, or it has not happened yet.
PublishFails(h, r) ==
  /\ \/ UNCHANGED <<late, stops>>
     \/ stops < MaxStops /\ late' = late \cup {[host |-> h, row |-> r]} /\ stops' = stops + 1
  /\ UNCHANGED <<pointer, tombstone>>

\* clearPointer: refused when the pointer is another owner's or is newer.
Clears(h, s) ==
  /\ h \notin Unreachable
  /\ pointer[h] # None => pointer[h].site = s /\ pointer[h].gen <= site[s].gen
  /\ tombstone[h] # None => tombstone[h].site = s /\ tombstone[h].gen <= site[s].gen

Clear(h, s) ==
  /\ Clears(h, s)
  /\ pointer' = [pointer EXCEPT ![h] = None]
  /\ tombstone' = [tombstone EXCEPT ![h] = [site |-> s, gen |-> site[s].gen]]
  /\ UNCHANGED late

ClearOrNot(h, s) == Clear(h, s) \/ UNCHANGED edge

LateWrite(w) ==
  /\ w \in late
  /\ IF Accepts(w.host, w.row)
     THEN /\ pointer' = [pointer EXCEPT ![w.host] = w.row]
          /\ tombstone' = [tombstone EXCEPT ![w.host] = None]
     ELSE UNCHANGED <<pointer, tombstone>>
  /\ late' = late \ {w}
  /\ UNCHANGED <<rows, work, queue, stops, abandoned>>

----------------------------------------------------------------------------
(* Creation and deployment.                                                *)

Reusable(h) == claim[h].status = "free"

\* createSite: claim, site and route in one batch, each with its guard.
CreateSite(s, h) ==
  /\ site[s].state = "none"
  /\ Reusable(h)
  /\ \A t \in Sites : Live(t) => site[t].host # h
  /\ claim' = [claim EXCEPT ![h] = Claim(s, "active")]
  /\ site' = [site EXCEPT ![s].state = "live", ![s].host = h]
  /\ UNCHANGED <<edge, work, queue, stops, abandoned>>

\* A deployment or a policy change commits a further route ...
CommitRoute(s) ==
  /\ Live(s) /\ Idle(s)
  /\ site[s].gen < MaxGeneration
  /\ site' = [site EXCEPT ![s].gen = @ + 1, ![s].active = TRUE]
  /\ Begin(s, Job("deploy", "publish", {}, None))
  /\ UNCHANGED <<claim, edge, queue, stops, abandoned>>

\* ... and publishes it, or leaves the hostname as it was and says so.
PublishRoute(s) ==
  /\ At(s, "deploy", "publish")
  /\ \/ Publish(site[s].host, RouteOf(s)) /\ UNCHANGED stops
     \/ PublishFails(site[s].host, RouteOf(s))
  /\ Finish(s)
  /\ UNCHANGED <<rows, queue, abandoned>>

----------------------------------------------------------------------------
(* Renaming.                                                               *)

\* Slip: the hostname that the site leaves is held for a time right away.
RetireAtOnce(s, h) ==
  claim' = [claim EXCEPT ![h] = Claim(s, "active"), ![site[s].host] = Claim(s, "held")]

\* The new hostname becomes the site's, the old one stays held.
MoveClaims(s, h) ==
  claim' = [claim EXCEPT ![h] = Claim(s, "active"), ![site[s].host] = Claim(s, "pending")]

\* commitSiteMetadata: a hostname that is free, or that the site itself has left.
CommitRename(s, h) ==
  /\ Live(s) /\ Idle(s)
  /\ h # site[s].host
  /\ site[s].gen < MaxGeneration
  /\ Reusable(h) \/ claim[h].owner = s
  /\ \A t \in Sites \ {s} : Live(t) => site[t].host # h
  /\ MoveClaims(s, h)
  /\ site' = [site EXCEPT ![s].host = h, ![s].gen = @ + 1, ![s].rev = @ + 1]
  /\ queue' = <<s>> \o SelectSeq(queue, LAMBDA t : t # s)
  /\ Begin(s, Job("sync", "repair", {}, None))
  /\ UNCHANGED <<edge, stops, abandoned>>

\* Slip: the attempt is not recorded, the site stays at the head.
StayFirst(s) == UNCHANGED queue

MarkAttempted(s) == queue' = Append(SelectSeq(queue, LAMBDA t : t # s), s)

Unsynced(s) == Live(s) /\ site[s].synced # site[s].rev

\* reconcileSiteMetadataRouting, with a limit of one candidate: the site that
\* was tried least recently.
Reconcile(s) ==
  /\ Unsynced(s) /\ Idle(s)
  /\ \A i \in DOMAIN queue : Unsynced(queue[i]) /\ queue[i] # s =>
       \E j \in DOMAIN queue : j < i /\ queue[j] = s
  /\ \A t \in Sites : ~Idle(t) => work[t].kind # "sync"
  /\ MarkAttempted(s)
  /\ Begin(s, Job("sync", "repair", {}, None))
  /\ UNCHANGED <<rows, edge, stops, abandoned>>

\* synchronizeRouting: the new hostname is published first ...
Repair(s) ==
  /\ At(s, "sync", "repair")
  /\ Publish(site[s].host, RouteOf(s))
  /\ work' = [work EXCEPT ![s].step = "retire", ![s].todo = Retiring(s)]
  /\ UNCHANGED <<rows, queue, stops, abandoned>>

RepairFails(s) ==
  /\ At(s, "sync", "repair")
  /\ PublishFails(site[s].host, RouteOf(s))
  /\ Finish(s)
  /\ UNCHANGED <<rows, queue, abandoned>>

\* ... then each hostname left behind is cleared ...
ClearRetired(s) ==
  /\ At(s, "sync", "retire")
  /\ \E h \in work[s].todo :
       /\ Clear(h, s)
       /\ work' = [work EXCEPT ![s].step = "release", ![s].at = h]
  /\ UNCHANGED <<rows, queue, stops, abandoned>>

ClearRetiredFails(s) ==
  /\ At(s, "sync", "retire")
  /\ \E h \in work[s].todo :
       /\ ClearOrNot(h, s)
       /\ work' = [work EXCEPT ![s].todo = @ \ {h}, ![s].failed = TRUE]
  /\ UNCHANGED <<rows, queue, stops, abandoned>>

\* ... and then its claim is held for a time only (completeSiteSlugRelease).
ReleaseSlug(s) ==
  /\ At(s, "sync", "release")
  /\ claim' = [claim EXCEPT ![work[s].at] = Claim(s, "held")]
  /\ work' = [work EXCEPT ![s].step = "retire", ![s].todo = @ \ {work[s].at}]
  /\ UNCHANGED <<site, edge, queue, stops, abandoned>>

ReleaseSlugFails(s) ==
  /\ At(s, "sync", "release")
  /\ work' = [work EXCEPT ![s].step = "retire", ![s].todo = @ \ {work[s].at}, ![s].failed = TRUE]
  /\ UNCHANGED <<rows, edge, queue, stops, abandoned>>

\* markSiteSlugRoutingSynced, unless a hostname is still to be cleared.
MarkSynced(s) ==
  /\ At(s, "sync", "retire") /\ work[s].todo = {}
  /\ IF work[s].failed \/ Retiring(s) # {}
     THEN UNCHANGED site
     ELSE site' = [site EXCEPT ![s].synced = site[s].rev]
  /\ Finish(s)
  /\ UNCHANGED <<claim, edge, queue, stops, abandoned>>

----------------------------------------------------------------------------
(* Deletion.                                                               *)

BeginDelete(s) ==
  /\ Live(s) /\ Idle(s) /\ site[s].gen < MaxGeneration
  /\ Begin(s, Job("delete", "retire", Retiring(s), Before(s)))
  /\ UNCHANGED <<rows, edge, queue, stops, abandoned>>

ClearBeforeDelete(s) ==
  /\ At(s, "delete", "retire")
  /\ \E h \in work[s].todo : Clear(h, s) /\ work' = [work EXCEPT ![s].todo = @ \ {h}]
  /\ UNCHANGED <<rows, queue, stops, abandoned>>

\* The pointer of a route that is not active is cleared as well.
ClearInactive(s) ==
  /\ At(s, "delete", "retire") /\ work[s].todo = {}
  /\ \/ site[s].active /\ UNCHANGED edge
     \/ ~site[s].active /\ Clear(site[s].host, s)
  /\ Step(s, "commit")
  /\ UNCHANGED <<rows, queue, stops, abandoned>>

\* A pointer is not cleared, or the actor may no longer do this: nothing is deleted.
DeleteRefused(s) ==
  /\ At(s, "delete", "retire") \/ At(s, "delete", "commit")
  /\ \E h \in Hostnames :
       /\ h \in work[s].todo \cup {site[s].host}
       /\ IF work[s].step = "retire" THEN ClearOrNot(h, s) ELSE UNCHANGED edge
  /\ Finish(s)
  /\ UNCHANGED <<rows, queue, stops, abandoned>>

\* deleteSite: the site, its route and its claims in one batch.
CommitDelete(s) ==
  /\ At(s, "delete", "commit")
  /\ site' = [site EXCEPT ![s].state = "deleted", ![s].gen = @ + 1, ![s].active = FALSE]
  /\ claim' = [h \in Hostnames |-> IF claim[h] \in {Claim(s, "active"), Claim(s, "pending")}
                                   THEN Claim(s, "held") ELSE claim[h]]
  /\ IF site[s].active THEN Step(s, "publish") ELSE Finish(s)
  /\ UNCHANGED <<edge, queue, stops, abandoned>>

\* The deleted route of an active site is published, and then cleared if that works.
PublishDeleted(s) ==
  /\ At(s, "delete", "publish")
  /\ Publish(site[s].host, RouteOf(s))
  /\ Step(s, "settle")
  /\ UNCHANGED <<rows, queue, stops, abandoned>>

\* If not, the console's command restores at once, the others only when the
\* pointer cannot be cleared either.
PublishDeletedFails(s) ==
  /\ At(s, "delete", "publish")
  /\ PublishFails(site[s].host, RouteOf(s))
  /\ \E next \in {"withdraw", "restore"} : Step(s, next)
  /\ UNCHANGED <<rows, queue, abandoned>>

Withdraw(s) ==
  /\ At(s, "delete", "withdraw")
  /\ \/ Clear(site[s].host, s) /\ Finish(s)
     \/ ClearOrNot(site[s].host, s) /\ Step(s, "restore")
  /\ UNCHANGED <<rows, queue, stops, abandoned>>

\* restoreSiteDeleteIfCurrent: the route as a new commit, the claims as they
\* were, of those that are still the site's.
Restore(s) ==
  /\ At(s, "delete", "restore")
  /\ site' = [site EXCEPT ![s] = [work[s].before.row EXCEPT !.gen = site[s].gen + 1]]
  /\ claim' = [h \in Hostnames |->
                 IF work[s].before.claims[h] # None /\ claim[h].owner = s
                 THEN work[s].before.claims[h] ELSE claim[h]]
  /\ Step(s, "republish")
  /\ UNCHANGED <<edge, queue, stops, abandoned>>

RestoreFails(s) ==
  /\ At(s, "delete", "restore")
  /\ Step(s, "settle")
  /\ UNCHANGED <<rows, edge, queue, stops, abandoned>>

Republish(s) ==
  /\ At(s, "delete", "republish")
  /\ \/ Publish(site[s].host, RouteOf(s)) /\ UNCHANGED stops /\ Finish(s)
     \/ PublishFails(site[s].host, RouteOf(s)) /\ Step(s, "settle")
  /\ UNCHANGED <<rows, queue, abandoned>>

\* The hostname has been told: by the deleted route or by a clear.
Told(s) ==
  LET h == site[s].host
  IN \/ pointer'[h] = RouteOf(s)
     \/ tombstone'[h] # None /\ tombstone'[h].site = s /\ tombstone'[h].gen >= site[s].gen - 1

Abandon(s) == abandoned' = IF ~Live(s) /\ ~Told(s) THEN abandoned \cup {s} ELSE abandoned

\* The last clear is best effort.
Settle(s) ==
  /\ At(s, "delete", "settle")
  /\ ClearOrNot(site[s].host, s)
  /\ Finish(s)
  /\ Abandon(s)
  /\ UNCHANGED <<rows, queue, stops>>

\* The invocation ends, and its lock runs out.
Stop(s) ==
  /\ ~Idle(s) /\ stops < MaxStops
  /\ stops' = stops + 1
  /\ Finish(s)
  /\ UNCHANGED <<rows, edge, queue>>
  /\ Abandon(s)

\* The reuse hold is longer than any call is delayed and any handler works.
EndHold(h) ==
  /\ claim[h].status = "held"
  /\ Idle(claim[h].owner)
  /\ \A w \in late : w.host # h
  /\ claim' = [claim EXCEPT ![h].status = "free"]
  /\ UNCHANGED <<site, edge, work, queue, stops, abandoned>>

----------------------------------------------------------------------------
NamesInit ==
  /\ site = [s \in Sites |-> [state |-> "none", host |-> None, gen |-> 0, active |-> FALSE,
                              rev |-> 1, synced |-> 1]]
  /\ claim = [h \in Hostnames |-> Claim(None, "free")]
  /\ pointer = [h \in Hostnames |-> None]
  /\ tombstone = [h \in Hostnames |-> None]
  /\ work = [s \in Sites |-> None]
  /\ queue = <<>>
  /\ late = {}
  /\ stops = 0
  /\ abandoned = {}

Lifecycle(s) == (\E h \in Hostnames : CreateSite(s, h)) \/ CommitRoute(s) \/ PublishRoute(s) \/ Stop(s)

Synchronise(s) ==
  \/ Repair(s) \/ RepairFails(s) \/ ClearRetired(s) \/ ClearRetiredFails(s)
  \/ ReleaseSlug(s) \/ ReleaseSlugFails(s) \/ MarkSynced(s)

Delete(s) ==
  \/ BeginDelete(s) \/ ClearBeforeDelete(s) \/ ClearInactive(s) \/ DeleteRefused(s)
  \/ CommitDelete(s) \/ PublishDeleted(s) \/ PublishDeletedFails(s) \/ Withdraw(s)
  \/ Restore(s) \/ RestoreFails(s) \/ Republish(s) \/ Settle(s)

NamesNext ==
  \/ \E s \in Sites : Lifecycle(s) \/ Synchronise(s) \/ Delete(s) \/ Reconcile(s)
                      \/ \E h \in Hostnames : CommitRename(s, h)
  \/ \E w \in late : LateWrite(w)
  \/ \E h \in Hostnames : EndHold(h)

NamesSpec == NamesInit /\ [][NamesNext]_namesVars

\* A handler that has the lock goes on, the cron comes back every fifteen
\* minutes, and a call that is tried again and again gets through, to a
\* hostname that can be reached.
NamesFairSpec ==
  /\ NamesSpec
  /\ \A s \in Sites :
       /\ WF_namesVars(Synchronise(s)) /\ WF_namesVars(Delete(s)) /\ WF_namesVars(PublishRoute(s))
       /\ SF_namesVars(Reconcile(s))
       /\ SF_namesVars(Repair(s)) /\ SF_namesVars(ReleaseSlug(s)) /\ SF_namesVars(ClearRetired(s))

----------------------------------------------------------------------------
(* Properties                                                              *)

NamesTypeOK ==
  /\ \A s \in Sites :
       /\ site[s].state \in {"none", "live", "deleted"}
       /\ site[s].gen \in 0..(MaxGeneration + 1) /\ site[s].synced <= site[s].rev
       /\ site[s].state # "none" => site[s].host \in Hostnames
  /\ \A h \in Hostnames :
       \/ claim[h] = Claim(None, "free")
       \/ claim[h].owner \in Sites /\ claim[h].status \in {"active", "pending", "held", "free"}

\* A live site owns its hostname, and nobody owns an active claim on a
\* hostname that is not his: whatever was renamed, deleted, restored or
\* created at the same time (createSite, commitSiteMetadata, deleteSite,
\* restoreSiteDeleteIfCurrent).
LiveSiteOwnsItsHostname ==
  /\ \A s \in Sites : Live(s) => claim[site[s].host] = Claim(s, "active")
  /\ \A h \in Hostnames :
       claim[h].status = "active" =>
         LET s == claim[h].owner IN Live(s) /\ site[s].host = h

\* A hostname serves a live route of a site only while the site's claim on it
\* is active or waits for the rename's cleanup: it is never held for a time,
\* free, or somebody else's before the pointer is withdrawn.  Excepted are a
\* deletion that is under way and one that ended without telling the
\* hostname, which the handler reports or did not live to report.
TrafficFollowsClaims ==
  \A h \in Hostnames :
    pointer[h] # None /\ pointer[h].live =>
      LET s == pointer[h].site
      IN \/ claim[h] \in {Claim(s, "active"), Claim(s, "pending")}
         \/ s \in abandoned
         \/ ~Live(s) /\ ~Idle(s)

\* Both: a hostname is whose claim it is, in D1 and in what is served.
HostnamesFollowClaims == LiveSiteOwnsItsHostname /\ TrafficFollowsClaims

\* A hostname that the site has to clear and never will: it cannot be
\* reached, or its Durable Object remembers another site's clear.
Stuck(s) ==
  \/ site[s].host \in Unreachable
  \/ \E h \in Retiring(s) : ~Clears(h, s)
  \/ ~Accepts(site[s].host, RouteOf(s))

\* A rename's routing settles, whatever stops and fails on the way, also when
\* another site's never does: the cron takes the sites in turn.
RenameSettles == \A s \in Sites : Unsynced(s) ~> ~Unsynced(s) \/ Stuck(s)
=============================================================================
