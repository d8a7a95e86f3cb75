--------------------------- MODULE SiteOwnership ---------------------------
(***************************************************************************)
(* Who may give a site away (transfer-owner.js, authorize-site-mutation.js *)
(* and the batch of site-lifecycle.js), while the people, teams, keys and  *)
(* platform admins that the answer depends on come and go                  *)
(* (manage-team-members.js, manage-team.js, department-metadata.js,        *)
(* identity-repository.js, access-keys.js).                                *)
(*                                                                         *)
(* A transfer is authorized by readings of D1 first.  The batch repeats    *)
(* the question in SQL, so that what changed in between is noticed.  What  *)
(* the router shows is published afterwards: the owner, when it is a user, *)
(* and the policy version.                                                 *)
(***************************************************************************)
EXTENDS Naturals, FiniteSets

CONSTANTS
  Users, Departments,   \* department teams
  Custom,               \* custom teams
  Transfers,            \* requests that give the site away
  Managers,             \* requests that change a team
  FirstOwner,           \* the user or team that owns the site at first
  None,
  MaxChanges,           \* bound on people, keys and admins that come or go
  MaxFaults             \* bound on calls that fail and leases lost

VARIABLES
  employed,   \* users whose employee_status is active
  keyed,      \* users with an access key (or CLI login) that is still good
  admins,     \* platform admins that are not revoked
  live,       \* teams that are active
  role,       \* per team and user: admin, publisher or None
  owner,      \* sites.owner_type / owner_id
  policy,     \* site_routes.policy_version
  published,  \* the hostname's pointer: a user or None, the version, cleared or not
  lease,      \* the transfer that holds the site commit lock
  request,    \* per transfer: how far it is and what it knows
  work,       \* per manager: the change it has checked
  told,       \* per transfer: its answer, None until there is one
  changes, lapses

people == <<employed, keyed, admins>>
teams == <<live, role>>
site == <<owner, policy>>
ownerVars == <<employed, keyed, admins, live, role, owner, policy, published, lease,
               request, work, told, changes, lapses>>

Teams == Departments \cup Custom
Kinds == {"user", "key", "platform_admin"}
NoWork == [op |-> "none", team |-> None, user |-> None]

Shown(o) == IF o \in Users THEN o ELSE None
Snapshot(o, p) == [shows |-> Shown(o), policy |-> p, cleared |-> FALSE]

OwnerInit ==
  /\ employed = Users
  /\ keyed = Users
  /\ admins \in SUBSET Users \ {{}}
  /\ live = Teams
  /\ \E founder \in [Teams -> Users] :
       role = [t \in Teams |-> [u \in Users |-> IF u = founder[t] THEN "admin" ELSE None]]
  /\ owner = FirstOwner
  /\ policy = 1
  /\ published = Snapshot(FirstOwner, 1)
  /\ lease = None
  /\ request = [t \in Transfers |-> [step |-> "new"]]
  /\ work = [m \in Managers |-> NoWork]
  /\ told = [t \in Transfers |-> None]
  /\ changes = 0
  /\ lapses = 0

-----------------------------------------------------------------------------
(* The rule, as the application reads it and as the batch asks it.         *)

\* resolveCurrentActor: a CLI login and a user's access key are good as long
\* as the key and the user are.
ActorIsGood(kind, u) ==
  /\ u \in employed
  /\ kind = "key" => u \in keyed

\* actorCanManageSite, actorCanTransferSiteOwnership and siteOwnerIsActive: a
\* user's own site, or a site of a live team whose admin the actor is.  A
\* platform admin may give any site away.
MayTransfer(kind, u) ==
  IF kind = "platform_admin" THEN u \in admins /\ u \in employed
  ELSE /\ ActorIsGood(kind, u)
       /\ owner = u \/ (owner \in live /\ role[owner][u] = "admin")

\* authorizeSiteTransferTarget: somebody employed, or a live team in which
\* the actor can publish.
TargetAllowed(kind, u, target) ==
  IF target \in Users THEN target \in employed
  ELSE /\ target \in live
       /\ kind # "platform_admin" => role[target][u] \in {"admin", "publisher"}

\* siteMutationAuthorizationStatements and siteTransferInvariantStatements.
BatchAllows(r) ==
  /\ r.expected = owner
  /\ r.policy = policy
  /\ r.target # owner
  /\ IF r.kind = "platform_admin" THEN r.user \in admins \cap employed
     ELSE /\ r.user \in employed
          /\ r.kind = "key" => r.user \in keyed
          /\ \/ owner = r.user
             \/ owner \in live /\ role[owner][r.user] = "admin"
          /\ r.target \in Teams => role[r.target][r.user] \in {"admin", "publisher"}
  /\ r.target \in Users => r.target \in employed
  /\ r.target \in Teams => r.target \in live

Move(t, s) == request' = [request EXCEPT ![t].step = s]
Tell(t, a) ==
  /\ Move(t, "done")
  /\ told' = [told EXCEPT ![t] = a]
  /\ lease' = IF lease = t THEN None ELSE lease

-----------------------------------------------------------------------------
(* Transfers.                                                              *)

\* Slip: the batch takes the readings on trust.
CommitOnTrust(t) ==
  /\ request[t].step = "authorized"
  /\ LET r == request[t] IN
     IF lease = t /\ r.expected = owner /\ r.policy = policy /\ r.target # owner
     THEN /\ owner' = r.target
          /\ policy' = policy + 1
          /\ request' = [request EXCEPT ![t].step = "committed", ![t].policy = policy + 1]
          /\ UNCHANGED <<told, lease>>
     ELSE Tell(t, "refused") /\ UNCHANGED site
  /\ UNCHANGED <<people, teams, published, work, changes, lapses>>

\* The request names a target and remembers the owner its handler has read.
Ask(t) ==
  /\ request[t].step = "new"
  /\ \E kind \in Kinds, u \in Users, target \in Users \cup Teams :
       /\ target # owner
       /\ MayTransfer(kind, u)
       /\ request' = [request EXCEPT ![t] = [step |-> "asked", kind |-> kind, user |-> u,
                        target |-> target, expected |-> owner, policy |-> 0]]
  /\ UNCHANGED <<people, teams, site, published, lease, work, told, changes, lapses>>

\* Under the commit lock everything is read and judged once more.
Authorize(t) ==
  /\ request[t].step = "asked"
  /\ lease = None
  /\ LET r == request[t] IN
     IF /\ MayTransfer(r.kind, r.user)
        /\ r.expected = owner
        /\ TargetAllowed(r.kind, r.user, r.target)
     THEN /\ lease' = t
          /\ request' = [request EXCEPT ![t].step = "authorized", ![t].policy = policy]
          /\ UNCHANGED told
     ELSE Tell(t, "refused")
  /\ UNCHANGED <<people, teams, site, published, work, changes, lapses>>

Commit(t) ==
  /\ request[t].step = "authorized"
  /\ LET r == request[t] IN
     IF lease = t /\ BatchAllows(r)
     THEN /\ owner' = r.target
          /\ policy' = policy + 1
          /\ request' = [request EXCEPT ![t].step = "committed", ![t].policy = policy + 1]
          /\ UNCHANGED <<told, lease>>
     ELSE Tell(t, "refused") /\ UNCHANGED site
  /\ UNCHANGED <<people, teams, published, work, changes, lapses>>

Fault == lapses < MaxFaults /\ lapses' = lapses + 1

\* The batch took effect and its answer was lost, or the site could not be read
\* back: nobody in transfer-owner.js catches that.  The owner has changed, nothing
\* is published or cleared, and the error is that of any failed call.  The
\* version the request brought stays in its record for the properties.
CommitUnanswered(t) ==
  /\ request[t].step = "authorized"
  /\ lease = t /\ BatchAllows(request[t])
  /\ Fault
  /\ owner' = request[t].target
  /\ policy' = policy + 1
  /\ request' = [request EXCEPT ![t].step = "done", ![t].policy = policy + 1]
  /\ told' = [told EXCEPT ![t] = "failed"]
  /\ lease' = None
  /\ UNCHANGED <<people, teams, published, work, changes>>

\* RoutePointer.tla: a pointer only moves forward, and past a tombstone only
\* to a newer route.
PointerAccepts(p) ==
  IF published.cleared THEN p > published.policy ELSE p >= published.policy

Cleared(p) ==
  IF p >= published.policy THEN [shows |-> None, policy |-> p, cleared |-> TRUE]
  ELSE published

\* The pointer's object turns down what is not newer; the answer says so.
Refresh(t) ==
  /\ request[t].step = "committed"
  /\ LET r == request[t] IN
     IF PointerAccepts(r.policy)
     THEN published' = Snapshot(r.target, r.policy) /\ Tell(t, "done")
     ELSE Move(t, "compensating") /\ UNCHANGED <<published, told, lease>>
  /\ UNCHANGED <<people, teams, site, work, changes, lapses>>

\* Reading the route again fails: the pointer is cleared, if that succeeds.
RouteUnread(t) ==
  /\ request[t].step = "committed"
  /\ Fault
  /\ published' \in {published, Cleared(request[t].policy)}
  /\ Tell(t, "repair_required")
  /\ UNCHANGED <<people, teams, site, work, changes>>

\* Slip: a publication that failed is not noticed.
RefreshUnnoticed(t) ==
  /\ request[t].step = "committed"
  /\ Fault
  /\ Tell(t, "done")
  /\ UNCHANGED <<people, teams, site, published, work, changes>>

RefreshFails(t) ==
  /\ request[t].step = "committed"
  /\ Fault
  /\ Move(t, "compensating")
  /\ published' \in {published} \cup
       (IF PointerAccepts(request[t].policy)
        THEN {Snapshot(request[t].target, request[t].policy)} ELSE {})
  /\ UNCHANGED <<people, teams, site, lease, work, told, changes>>

\* restorePreviousOwner: the owner before gets the site back without anybody
\* being asked, if nothing was committed since and the lease is held.
Compensate(t) ==
  /\ request[t].step = "compensating"
  /\ LET r == request[t] IN
     IF lease = t /\ owner = r.target /\ policy = r.policy
     THEN /\ owner' = r.expected
          /\ policy' = policy + 1
          /\ request' = [request EXCEPT ![t].step = "restored", ![t].policy = policy + 1]
          /\ UNCHANGED <<published, told, lease, lapses>>
     ELSE /\ \/ published' = Cleared(r.policy) /\ UNCHANGED lapses
             \/ Fault /\ UNCHANGED published
          /\ Tell(t, "repair_required")
          /\ UNCHANGED site
  /\ UNCHANGED <<people, teams, work, changes>>

\* The restoration fails, or takes effect and fails for the handler: either is
\* caught, and the pointer of the transfer is cleared, if that succeeds.
RestorationFails(t) ==
  /\ request[t].step = "compensating"
  /\ Fault
  /\ LET r == request[t] IN
       /\ published' \in {published, Cleared(r.policy)}
       /\ \/ UNCHANGED site
          \/ /\ lease = t /\ owner = r.target /\ policy = r.policy
             /\ owner' = r.expected
             /\ policy' = policy + 1
  /\ Tell(t, "repair_required")
  /\ UNCHANGED <<people, teams, work, changes>>

\* The pointer of the owner before; failing that, none.
RefreshRestored(t) ==
  /\ request[t].step = "restored"
  /\ PointerAccepts(request[t].policy)
  /\ published' = Snapshot(request[t].expected, request[t].policy)
  /\ Tell(t, "repair_required")
  /\ UNCHANGED <<people, teams, site, work, changes, lapses>>

\* A route that cannot be read again is cleared as the transfer left it.
RestoredUnpublished(t) ==
  /\ request[t].step = "restored"
  /\ \/ /\ Fault
        /\ published' \in {published, Cleared(request[t].policy), Cleared(request[t].policy - 1)}
     \/ /\ ~PointerAccepts(request[t].policy)
        /\ published' \in {published, Cleared(request[t].policy)}
        /\ UNCHANGED lapses
  /\ Tell(t, "repair_required")
  /\ UNCHANGED <<people, teams, site, work, changes>>

\* The lease of a handler that is held up runs out.
LeaseLapses ==
  /\ lease # None
  /\ Fault
  /\ lease' = None
  /\ UNCHANGED <<people, teams, site, published, request, work, told, changes>>

-----------------------------------------------------------------------------
(* People, keys and platform admins.                                       *)

Change == changes < MaxChanges /\ changes' = changes + 1

UserLeaves(u) ==
  /\ Change
  /\ u \in employed
  /\ employed' = employed \ {u}
  /\ UNCHANGED <<keyed, admins, teams, site, published, lease, request, work, told, lapses>>

\* revokeAccessKey, an expiry, or a session version left behind.
KeyEnds(u) ==
  /\ Change
  /\ u \in keyed
  /\ keyed' = keyed \ {u}
  /\ UNCHANGED <<employed, admins, teams, site, published, lease, request, work, told, lapses>>

GrantPlatformAdmin(u) ==
  /\ Change
  /\ u \notin admins
  /\ admins' = admins \cup {u}
  /\ UNCHANGED <<employed, keyed, teams, site, published, lease, request, work, told, lapses>>

\* revokePlatformAdmin: the last active one is not revoked.
RevokePlatformAdmin(u) ==
  /\ Change
  /\ u \in admins
  /\ u \in employed => Cardinality(admins \cap employed) > 1
  /\ admins' = admins \ {u}
  /\ UNCHANGED <<employed, keyed, teams, site, published, lease, request, work, told, lapses>>

-----------------------------------------------------------------------------
(* Teams: a manager's request checks, and acts later.                      *)

AnotherAdmin(team, u) == \E v \in employed \ {u} : role[team][v] = "admin"

CheckMember(m) ==
  /\ work[m] = NoWork
  /\ \E actor \in Users, team \in live, u \in Users, op \in {"admin", "publisher", "remove"} :
       /\ role[team][actor] = "admin" \/ actor \in admins
       /\ op # "admin" /\ role[team][u] = "admin" => AnotherAdmin(team, u)
       /\ work' = [work EXCEPT ![m] = [op |-> op, team |-> team, user |-> u]]
  /\ UNCHANGED <<people, teams, site, published, lease, request, told, changes, lapses>>

\* addTeamMember and removeTeamMember.
ActMember(m) ==
  /\ work[m].op \in {"admin", "publisher", "remove"}
  /\ LET w == work[m] IN
     role' = IF w.op = "remove" THEN [role EXCEPT ![w.team][w.user] = None]
             ELSE IF w.team \in live THEN [role EXCEPT ![w.team][w.user] = w.op]
             ELSE role
  /\ work' = [work EXCEPT ![m].op = "done"]
  /\ UNCHANGED <<people, live, site, published, lease, request, told, changes, lapses>>

\* deleteCustomTeam counts the team's sites and deletes the team later.
CheckDeletion(m) ==
  /\ work[m] = NoWork
  /\ \E actor \in Users, team \in Custom \cap live :
       /\ role[team][actor] = "admin" \/ actor \in admins
       /\ owner # team
       /\ work' = [work EXCEPT ![m] = [op |-> "delete", team |-> team, user |-> None]]
  /\ UNCHANGED <<people, teams, site, published, lease, request, told, changes, lapses>>

ActDeletion(m) ==
  /\ work[m].op = "delete"
  /\ live' = live \ {work[m].team}
  /\ role' = [role EXCEPT ![work[m].team] = [u \in Users |-> None]]
  /\ work' = [work EXCEPT ![m].op = "done"]
  /\ UNCHANGED <<people, site, published, lease, request, told, changes, lapses>>

\* mergeDepartmentTeams: the sites of the source change hands beside every
\* lock, with the policy version they have; its members go along.
MergeDepartments ==
  /\ Change
  /\ \E source \in Departments \cap live : \E target \in (Departments \cap live) \ {source} :
       /\ live' = live \ {source}
       /\ owner' = IF owner = source THEN target ELSE owner
       /\ role' = [role EXCEPT
            ![target] = [u \in Users |-> IF role[source][u] # None THEN role[source][u] ELSE @[u]],
            ![source] = [u \in Users |-> None]]
  /\ UNCHANGED <<people, policy, published, lease, request, work, told, lapses>>

OwnerNext ==
  \/ \E t \in Transfers :
       \/ Ask(t) \/ Authorize(t) \/ Commit(t) \/ CommitUnanswered(t) \/ Refresh(t)
       \/ RouteUnread(t) \/ RefreshFails(t) \/ Compensate(t) \/ RestorationFails(t)
       \/ RefreshRestored(t) \/ RestoredUnpublished(t)
  \/ \E u \in Users : UserLeaves(u) \/ KeyEnds(u) \/ GrantPlatformAdmin(u) \/ RevokePlatformAdmin(u)
  \/ \E m \in Managers : CheckMember(m) \/ ActMember(m) \/ CheckDeletion(m) \/ ActDeletion(m)
  \/ MergeDepartments
  \/ LeaseLapses

OwnershipSpec == OwnerInit /\ [][OwnerNext]_ownerVars

-----------------------------------------------------------------------------
(* Properties.                                                             *)

\* Types: a request that has been authorized knows the route it expects.
OwnershipTypeOK ==
  /\ employed \subseteq Users /\ keyed \subseteq Users /\ admins \subseteq Users
  /\ live \subseteq Teams
  /\ role \in [Teams -> [Users -> {"admin", "publisher", None}]]
  /\ owner \in Users \cup Teams
  /\ policy \in 1 .. 1 + 2 * Cardinality(Transfers)
  /\ published.policy \in 1 .. policy /\ published.shows \in Users \cup {None}
  /\ lease \in Transfers \cup {None}
  /\ \A t \in Transfers : request[t].step = "done" <=> told[t] # None

\* The site is given away only by somebody who may do so at that very moment,
\* and to somebody who may have it, however long ago the request was
\* authorized.  Two changes of hands are nobody's gift: the site goes back to
\* the owner before when its publication failed, and goes along with its
\* department.
AuthorityAtCommit ==
  [][owner' # owner =>
       \/ \E t \in Transfers :
            /\ request[t].step = "authorized"
            /\ owner' = request[t].target
            /\ MayTransfer(request[t].kind, request[t].user)
            /\ TargetAllowed(request[t].kind, request[t].user, request[t].target)
       \/ \E t \in Transfers : request[t].step = "compensating" /\ owner' = request[t].expected
       \/ {owner, owner'} \subseteq Departments]_ownerVars

\* When nothing is under way, routers are shown the owner and the policy of
\* D1, or nothing at all; otherwise some request was told that the pointer has
\* to be repaired.  One case is left: the newest version is that of a transfer
\* whose commit took effect and failed for its handler, which told its caller
\* of a failure; any later transfer makes up for it.
PublishedPolicyBelongsToOwner ==
  (\A t \in Transfers : request[t].step \in {"new", "done"}) =>
    \/ published.cleared
    \/ published = Snapshot(owner, policy)
    \/ \E t \in Transfers : told[t] = "repair_required"
    \/ \E t \in Transfers : told[t] = "failed" /\ request[t].policy = policy
=============================================================================
