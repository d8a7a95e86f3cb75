--------------------------- MODULE RoutePointer ---------------------------
(***************************************************************************)
(* The publication protocol of one hostname                                *)
(* (apps/pages-api/src/route-snapshot.js).  The Durable Object             *)
(* RoutePointerDO serialises the writes and clears of the hostname's       *)
(* pointer.  Each of them reads the KV namespace and its own storage,      *)
(* decides, and then performs several storage calls; any of them can fail  *)
(* and the object can be evicted between any two.                          *)
(*                                                                         *)
(* The callers are the handlers of the sites that own the hostname, one    *)
(* after the other: a request carries a row of site_routes that was        *)
(* committed some time ago.  The owners' rows only grow (Deployment.tla    *)
(* says how they are committed and when that can fail).                    *)
(***************************************************************************)
EXTENDS Integers, FiniteSets

CONSTANTS
  Sites,           \* identities: a siteId with its routeId
  MaxGeneration,   \* bound on routeGeneration
  MaxPolicy,       \* bound on policyVersion
  None             \* an absent value

ASSUME RoutePointerAssumption ==
  /\ MaxGeneration \in Nat
  /\ MaxPolicy \in Nat \ {0}

\* The part of a route that names its immutable snapshot: routeSnapshotKey.
Key == [site : Sites, gen : 0..MaxGeneration, pol : 1..MaxPolicy]

\* A committed row of site_routes.  "serving" stands for every status but
\* "deleted", which also has runtime = "disabled".
Row == [site : Sites, gen : 0..MaxGeneration, pol : 1..MaxPolicy,
        status : {"serving", "deleted"}]

\* What the Durable Object keeps under 'pointer': the last pointer written,
\* or the tombstone of the last clear.
DurablePointer == [site : Sites, gen : 0..MaxGeneration, pol : 1..MaxPolicy,
                   cleared : BOOLEAN]

WriteSteps == {"fence", "snapshot", "pointer", "durable"}
ClearSteps == {"tombstone", "delete", "confirm"}
Operation == [step : WriteSteps, row : Row, fenced : BOOLEAN]
             \cup [step : ClearSteps, expected : Key]

ASSUME NoneAssumption ==
  /\ None \notin Sites
  /\ None \notin [site : Sites, gen : Nat, pol : Nat]
  /\ None \notin [gen : Nat, pol : Nat, kind : {"pointer", "bare", "tombstone"}]
  /\ None \notin Key
  /\ None \notin Row
  /\ None \notin DurablePointer
  /\ None \notin Operation

VARIABLES
  late,        \* may a request outlive its site's claim on the hostname? (never changes)
  route,       \* D1: the newest site_routes row of each site, None before it exists
  rows,        \* D1: every row ever committed for this hostname
  claimant,    \* D1: the site whose hostname claim is active or held
  stored,      \* KV: status in the snapshot stored under each key
  pointer,     \* KV: the hostname's route pointer
  durable,     \* Durable Object storage
  op,          \* the operation the Durable Object is running
  withdrawn,   \* history: the last clear acknowledged to each site
  overtaken    \* history: sites that another owner has fenced since then

authority == <<late, route, rows, claimant>>
kv == <<stored, pointer>>
history == <<withdrawn, overtaken>>
vars == <<late, route, rows, claimant, stored, pointer, durable, op, withdrawn, overtaken>>

KeyOf(r) == [site |-> r.site, gen |-> r.gen, pol |-> r.pol]

\* The whole of PointerState / clearedPointerTombstone for a route.
DurableFor(r, isCleared) ==
  [site |-> r.site, gen |-> r.gen, pol |-> r.pol, cleared |-> isCleared]

\* routeTupleIsAhead
Ahead(a, b) == a.gen > b.gen \/ (a.gen = b.gen /\ a.pol > b.pol)

----------------------------------------------------------------------------
(* The decisions of the Durable Object.                                    *)

\* Slip: the published route need not be deleted.
ReplaceAnyOwner(existing, r) ==
  /\ pointer # None
  /\ pointer.site # r.site
  /\ existing # None =>
       \/ existing.site = pointer.site
       \/ existing.site = r.site /\ ~Ahead(existing, r)

\* Slip: the candidate may not have fenced the hostname already.
ReplaceWithoutResuming(existing, r) ==
  /\ pointer # None
  /\ stored[pointer] = "deleted"
  /\ pointer.site # r.site
  /\ existing # None => existing.site = pointer.site

\* deletedRouteAllowsOwnerReplacement: the published snapshot is a deleted
\* route of somebody else, and the durable state is not a third owner's or a
\* newer route of the candidate's owner.
OwnerReplacementAllowed(existing, r) ==
  /\ pointer # None
  /\ stored[pointer] = "deleted"
  /\ pointer.site # r.site
  /\ existing # None =>
       \/ existing.site = pointer.site
       \/ existing.site = r.site /\ ~Ahead(existing, r)

\* Slip: only the owner of the published pointer is compared.
PublishedOwnerAccepts(r) ==
  pointer # None => stored[pointer] # "absent" /\ pointer.site = r.site

\* assertPointerIsNotStale and assertKvPointerOwnerMatches on the KV pointer.
PublishedPointerAccepts(r) ==
  pointer # None =>
    /\ ~Ahead(pointer, r)
    /\ stored[pointer] # "absent"
    /\ pointer.site = r.site

\* readRouteSnapshotState(...).state = 'exact'
IsExact(r) == pointer = KeyOf(r) /\ stored[KeyOf(r)] = r.status

\* assertPointerWriteAllowed
WriteAllowed(r) ==
  LET replacing == OwnerReplacementAllowed(durable, r)
  IN /\ replacing \/ PublishedPointerAccepts(r)
     /\ durable # None =>
          IF durable.cleared THEN durable.site = r.site => Ahead(r, durable)
          ELSE IF IsExact(r)
               THEN durable.site = r.site \/ stored[KeyOf(durable)] = "deleted"
               ELSE replacing \/ (durable.site = r.site /\ ~Ahead(durable, r))

\* pointerOwnerFenceRequired: must the durable state change hands before the
\* KV pointer does?
OwnerFenceRequired(r) ==
  IF durable # None
  THEN durable.cleared \/ durable.site # r.site
  ELSE pointer # None /\ stored[pointer] # "absent" /\ pointer.site # r.site

\* assertRoutePointerIsNotStale, the second look of writeRouteSnapshotUnlocked.
StillNotStale(r) ==
  OwnerReplacementAllowed(None, r) \/ PublishedPointerAccepts(r)

\* Slip: the durable state may be newer than the route to clear.
DurableOwnerCanClear(e) ==
  durable # None =>
    /\ durable.cleared \/ stored[KeyOf(durable)] # "absent"
    /\ durable.site = e.site

\* durablePointerCanBeCleared
DurableCanBeCleared(e) ==
  durable # None =>
    /\ durable.cleared \/ stored[KeyOf(durable)] # "absent"
    /\ durable.site = e.site
    /\ ~Ahead(durable, e)

\* pointedSnapshotMatchesIdentity and routePointerCanBeCleared on the KV pointer.
PublishedCanBeCleared(e) ==
  pointer # None =>
    /\ stored[pointer] # "absent"
    /\ pointer.site = e.site
    /\ ~Ahead(pointer, e)

----------------------------------------------------------------------------
(* The owners of the hostname, in D1.                                      *)

\* createSite: a hostname nobody claims gets a new site and its initial
\* route, generation 0 and policy 1.
CreateSite(s) ==
  /\ claimant = None
  /\ route[s] = None
  /\ LET initial == [site |-> s, gen |-> 0, pol |-> 1, status |-> "serving"]
     IN /\ route' = [route EXCEPT ![s] = initial]
        /\ rows' = rows \cup {initial}
  /\ claimant' = s
  /\ UNCHANGED <<late, kv, durable, op, history>>

\* The row of the hostname's owner is committed one generation (activation)
\* or one policy version (policy change) further.
CommitRow(s) ==
  /\ claimant = s
  /\ route[s].status = "serving"
  /\ \E next \in { [route[s] EXCEPT !.gen = @ + 1], [route[s] EXCEPT !.pol = @ + 1] } :
       /\ next \in Row
       /\ route' = [route EXCEPT ![s] = next]
       /\ rows' = rows \cup {next}
  /\ UNCHANGED <<late, claimant, kv, durable, op, history>>

\* deleteSite: the row becomes deleted, one generation further, and the claim
\* is held.  The handler publishes the deleted row of an active route.
DeletedRow(s) == [route[s] EXCEPT !.gen = @ + 1, !.status = "deleted"]

DeletableRow(s) ==
  /\ claimant = s
  /\ route[s].status = "serving"
  /\ route[s].gen < MaxGeneration

DeleteActiveSite(s) ==
  /\ DeletableRow(s)
  /\ route' = [route EXCEPT ![s] = DeletedRow(s)]
  /\ rows' = rows \cup {DeletedRow(s)}
  /\ UNCHANGED <<late, claimant, kv, durable, op, history>>

\* For a route that is not active the handler clears the pointer first, and
\* publishes nothing after the deletion.
DeleteInactiveSite(s) ==
  /\ DeletableRow(s)
  /\ op = None
  /\ withdrawn[s] = KeyOf(route[s])
  /\ route' = [route EXCEPT ![s] = DeletedRow(s)]
  /\ UNCHANGED <<late, rows, claimant, kv, durable, op, history>>

\* The reuse hold ends.  The deletion of an active route had reached the
\* hostname by then: its handler saw the deleted snapshot published or the
\* clear acknowledged, and otherwise restored the site.
EndReuseHold(s) ==
  /\ claimant = s
  /\ route[s].status = "deleted"
  /\ op = None
  /\ route[s] \in rows =>
       pointer = KeyOf(route[s]) \/ withdrawn[s] = KeyOf(route[s])
  /\ claimant' = None
  /\ UNCHANGED <<late, route, rows, kv, durable, op, history>>

\* A row whose request can still arrive.
Requested(r) == r \in rows /\ (late \/ r.site = claimant)

----------------------------------------------------------------------------
(* POST /write                                                             *)

StartWrite(r) ==
  /\ op = None
  /\ Requested(r)
  /\ WriteAllowed(r)
  /\ LET fenced == OwnerFenceRequired(r)
     IN op' = [step |-> IF fenced THEN "fence" ELSE "snapshot",
               row |-> r, fenced |-> fenced]
  /\ UNCHANGED <<authority, kv, durable, history>>

At(step) == op # None /\ op.step = step

\* The new owner's pointer reaches the durable state before the KV pointer.
PersistOwnerFence ==
  /\ At("fence")
  /\ durable' = DurableFor(op.row, FALSE)
  /\ op' = [op EXCEPT !.step = "snapshot"]
  /\ overtaken' = overtaken \cup (Sites \ {op.row.site})
  /\ UNCHANGED <<authority, kv, withdrawn>>

\* Slip: the snapshot's key lacks the policy version.
PutSnapshotByGeneration ==
  /\ At("snapshot")
  /\ StillNotStale(op.row)
  /\ stored' = [stored EXCEPT ![[KeyOf(op.row) EXCEPT !.pol = 1]] = op.row.status]
  /\ op' = [op EXCEPT !.step = "pointer"]
  /\ UNCHANGED <<authority, pointer, durable, history>>

PutSnapshot ==
  /\ At("snapshot")
  /\ StillNotStale(op.row)
  /\ stored' = [stored EXCEPT ![KeyOf(op.row)] = op.row.status]
  /\ op' = [op EXCEPT !.step = "pointer"]
  /\ UNCHANGED <<authority, pointer, durable, history>>

\* The commit point a router sees.
PutPointer ==
  /\ At("pointer")
  /\ pointer' = KeyOf(op.row)
  /\ op' = IF op.fenced THEN None ELSE [op EXCEPT !.step = "durable"]
  /\ UNCHANGED <<authority, stored, durable, history>>

\* Without a fence the durable state follows the KV pointer.
PersistPointer ==
  /\ At("durable")
  /\ durable' = DurableFor(op.row, FALSE)
  /\ op' = None
  /\ UNCHANGED <<authority, kv, history>>

----------------------------------------------------------------------------
(* POST /clear                                                             *)

StartClear(e) ==
  /\ op = None
  /\ \E r \in rows : Requested(r) /\ e = KeyOf(r)
  /\ DurableCanBeCleared(e)
  /\ PublishedCanBeCleared(e)
  /\ op' = [step |-> "tombstone", expected |-> e]
  /\ UNCHANGED <<authority, kv, durable, history>>

\* Slip: the pointer is deleted without a tombstone.
SkipTombstone ==
  /\ At("tombstone")
  /\ op' = [op EXCEPT !.step = "delete"]
  /\ UNCHANGED <<authority, kv, durable, history>>

PutTombstone ==
  /\ At("tombstone")
  /\ durable' = DurableFor(op.expected, TRUE)
  /\ op' = [op EXCEPT !.step = "delete"]
  /\ UNCHANGED <<authority, kv, history>>

DeletePointer ==
  /\ At("delete")
  /\ pointer' = None
  /\ op' = [op EXCEPT !.step = "confirm"]
  /\ UNCHANGED <<authority, stored, durable, history>>

ConfirmCleared ==
  /\ At("confirm")
  /\ pointer = None
  /\ op' = None
  /\ withdrawn' = [withdrawn EXCEPT ![op.expected.site] = op.expected]
  /\ overtaken' = overtaken \ {op.expected.site}
  /\ UNCHANGED <<authority, kv, durable>>

\* The operation ends early: the next storage call fails, or the one just
\* made took effect and its answer was lost, or the object is evicted.  The
\* failed put of "durable" is the one the handler swallows.
EndEarly ==
  /\ op # None
  /\ op' = None
  /\ UNCHANGED <<authority, kv, durable, history>>

----------------------------------------------------------------------------
Init ==
  /\ late \in BOOLEAN
  /\ route = [s \in Sites |-> None]
  /\ rows = {}
  /\ claimant = None
  /\ stored = [k \in Key |-> "absent"]
  /\ pointer = None
  /\ durable = None
  /\ op = None
  /\ withdrawn = [s \in Sites |-> None]
  /\ overtaken = {}

Authority == \E s \in Sites : CreateSite(s) \/ CommitRow(s) \/ DeleteActiveSite(s)
                          \/ DeleteInactiveSite(s) \/ EndReuseHold(s)
Write == (\E r \in rows : StartWrite(r)) \/ PersistOwnerFence \/ PutSnapshot \/ PutPointer \/ PersistPointer
Clear == (\E r \in rows : StartClear(KeyOf(r))) \/ PutTombstone \/ DeletePointer \/ ConfirmCleared

Next == Authority \/ Write \/ Clear \/ EndEarly

Spec == Init /\ [][Next]_vars

----------------------------------------------------------------------------
(* Properties                                                              *)

TypeOK ==
  /\ late \in BOOLEAN
  /\ route \in [Sites -> Row \cup {None}]
  /\ rows \subseteq Row
  /\ claimant \in Sites \cup {None}
  /\ stored \in [Key -> {"absent", "serving", "deleted"}]
  /\ pointer \in Key \cup {None}
  /\ durable \in DurablePointer \cup {None}
  /\ op \in Operation \cup {None}
  /\ withdrawn \in [Sites -> Key \cup {None}]
  /\ overtaken \subseteq Sites

\* A router that follows the pointer finds a snapshot, whatever failed on
\* the way: the snapshot is stored before the pointer names it.
PointerResolves == pointer # None => stored[pointer] # "absent"

\* Durable state of one owner over the published pointer of another only
\* when the published route is deleted: neither a fence nor a tombstone is
\* ever planted over a hostname that somebody else is serving.
FenceOnlyOverDeleted ==
  pointer # None /\ durable # None /\ durable.site # pointer.site
    => stored[pointer] = "deleted"

\* After a clear is acknowledged, no route of that site up to the cleared
\* tuple is published again by a delayed write, as long as no other owner
\* has taken the hostname over since.
Revived(s) ==
  /\ withdrawn[s] # None
  /\ pointer # None
  /\ pointer.site = s
  /\ ~Ahead(pointer, withdrawn[s])

ClearedStaysCleared == \A s \in Sites \ overtaken : ~Revived(s)

\* The owner of the hostname is never locked out by what earlier owners or
\* half-done operations left behind: whenever the object is idle, the write
\* of the owner's next generation would be accepted.  Only a request that
\* outlives its site's claim can lock the next owner out.
NextGeneration(s) == [route[s] EXCEPT !.gen = @ + 1]

OwnerIsNotLockedOut ==
  \A s \in Sites :
    ~late /\ claimant = s /\ op = None /\ route[s].status = "serving"
      => WriteAllowed(NextGeneration(s))

\* What a router sees, as PublishedRoute.tla has it.
VisibleRoute ==
  IF pointer = None THEN None
  ELSE [site |-> pointer.site, gen |-> pointer.gen, pol |-> pointer.pol,
        status |-> stored[pointer]]

Router == INSTANCE PublishedRoute WITH visible <- VisibleRoute

\* The protocol implements the abstract hostname: an owner's route only moves
\* forward and a hostname changes hands only over a deleted route, at the
\* granularity of single storage calls.
RouterSpec == Router!Spec

\* The durable state, as SitePointer.tla has it.
DurableKind ==
  IF durable.cleared THEN "tombstone"
  ELSE IF stored[KeyOf(durable)] = "absent" THEN "bare" ELSE "pointer"

OwnerDurable ==
  IF durable = None THEN None
  ELSE [gen |-> durable.gen, pol |-> durable.pol, kind |-> DurableKind]

Owner == INSTANCE SitePointer WITH
  Routes <- Row,
  published <- VisibleRoute,
  durable <- OwnerDurable

\* As long as the hostname has not changed hands, every storage call of the
\* protocol is a possible (part of a) call of SitePointer.tla.
OneOwner == \A r, q \in rows : r.site = q.site

SoleOwnerSpec ==
  /\ Owner!PointerInit
  /\ [][OneOwner => Owner!PointerNext]_<<VisibleRoute, durable, stored>>
=============================================================================
