------------------------------- MODULE Router -------------------------------
(***************************************************************************)
(* Who gets through the router to a site and to its data (pages-router     *)
(* index.js and access-policy.js, kv-gateway index.js and auth.js).        *)
(*                                                                         *)
(* The router has no state.  It decides with the route that KV shows it,   *)
(* which may have been replaced a while ago; with a site session that a    *)
(* browser brings, signed under some route of the hostname; and it hands   *)
(* out capabilities, which the gateway honours without asking anybody.     *)
(* Routes are published by sites that change their policy, are renamed,    *)
(* deleted, and follow each other on a hostname: the modules of the        *)
(* control plane say how, here each publication is one step.               *)
(***************************************************************************)
EXTENDS Integers, Sequences, FiniteSets, PlatformNames

CONSTANTS
  Policies,          \* records of a mode and the readers it admits
  OldSite, OldHost,  \* a site that is older than the program, and its hostname
  KvDelay,           \* for how long KV may show a pointer that was replaced
  CapabilityTtl,     \* readKvCapabilityTtlSeconds
  Skew,              \* how far the clocks of router and gateway differ
  MaxPublications,   \* bound on published routes
  MaxHours           \* bound on the clock

VARIABLES
  hour,         \* the time
  sites,        \* D1: per site its row, Nobody before it is created
  kv,           \* per hostname: what its pointer led to, oldest first
  published,    \* how many routes were published
  siteSession,  \* a browser's site session, per hostname
  callback,     \* its sign-in callback under way
  held          \* a capability that the router has signed

routerVars == <<hour, sites, kv, published, siteSession, callback, held>>

control == <<sites, kv, published>>

IsLive(s) == sites[s] # Nobody /\ sites[s].live
Leads(h) == kv[h][Len(kv[h])].route

\* buildRouteSnapshot.  Whom a protected site admits is its owner, its ACL or
\* everybody; only the set is kept.  A row from before namespaces has none.
Snapshot(s, row) ==
  [site |-> s, schema |-> 4, slug |-> row.slug,
   space |-> IF row.space = Nobody THEN row.slug ELSE row.space,
   policy |-> row.policy, mode |-> row.mode, readers |-> row.readers, live |-> row.live]

-----------------------------------------------------------------------------
(* The clock, and the routes that are published.                           *)

Hour ==
  /\ hour < MaxHours
  /\ hour' = hour + 1
  /\ UNCHANGED <<control, siteSession, callback, held>>

PutRoute(h, route) ==
  /\ published < MaxPublications
  /\ published' = published + 1
  /\ kv' = [kv EXCEPT ![h] = Append(@, [route |-> route, since |-> hour, n |-> published'])]
  /\ UNCHANGED <<hour, siteSession, callback, held>>

Commit(s, h, row) ==
  /\ sites' = [sites EXCEPT ![s] = row]
  /\ PutRoute(h, Snapshot(s, row))

Create(s, h) ==
  /\ sites[s] = Nobody
  /\ Leads(h) # Nobody => ~Leads(h).live
  /\ \A t \in Sites : IsLive(t) => sites[t].slug # h
  /\ \E p \in Policies :
       Commit(s, h, [slug |-> h, space |-> h, home |-> h, policy |-> 1, live |-> TRUE,
                     mode |-> p.mode, readers |-> p.readers])

\* A deployment keeps the policy, a policy change counts its version up.
Redeploy(s) == IsLive(s) /\ Commit(s, sites[s].slug, sites[s])

ChangePolicy(s) ==
  /\ IsLive(s)
  /\ \E p \in Policies :
       Commit(s, sites[s].slug,
              [sites[s] EXCEPT !.policy = @ + 1, !.mode = p.mode, !.readers = p.readers])

\* commitSiteMetadata writes the namespace down before the name changes.
Rename(s, h) ==
  /\ IsLive(s) /\ Leads(h) = Nobody
  /\ Commit(s, h, [sites[s] EXCEPT !.slug = h,
                     !.space = IF sites[s].space = Nobody THEN sites[s].slug ELSE @])

DeleteSite(s) == IsLive(s) /\ Commit(s, sites[s].slug, [sites[s] EXCEPT !.live = FALSE])

\* A hostname that was left, or whose site is deleted, is cleared some time.
WithdrawRoute(h) ==
  /\ Leads(h) # Nobody
  /\ LET s == Leads(h).site IN ~IsLive(s) \/ sites[s].slug # h
  /\ PutRoute(h, Nobody)
  /\ UNCHANGED sites

-----------------------------------------------------------------------------
(* The decision.                                                           *)

\* What readKvRouteSnapshot may find: the pointer, or one that was replaced
\* less than KvDelay ago, and the snapshot it leads to.  If that is not to be
\* had the request is refused, as it is for a route that is not active.
Visible(h) ==
  {kv[h][i].route : i \in {j \in DOMAIN kv[h] :
                             j = Len(kv[h]) \/ hour < kv[h][j + 1].since + KvDelay}}
  \ {Nobody}

\* evaluateAccessPolicy
Admits(route, session) ==
  \/ route.mode = "anonymous"
  \/ /\ route.mode = "protected" /\ session # Nobody
     /\ session.site = route.site
     /\ session.policy = route.policy
     /\ session.user \in route.readers

\* The router's fetch, up to the dispatch.
Serves(route, session) ==
  /\ route.live
  /\ route.mode = "protected" /\ session # Nobody => hour - session.checked <= Freshness
  /\ Admits(route, session)

-----------------------------------------------------------------------------
(* The callback of a sign-in.  The route is read first, then the auth      *)
(* service is asked who it is, then the session is signed with that route. *)

BeginCallback(h) ==
  /\ callback = Nobody
  /\ \E route \in Visible(h) :
       route.live /\ callback' = [host |-> h, route |-> route]
  /\ UNCHANGED <<hour, control, siteSession, held>>

\* identityFromSiteCode, evaluateAccessPolicy, signSessionJwt.  "signed" is a
\* history: how many routes had been published by then.
FinishCallback(u) ==
  /\ callback # Nobody
  /\ LET route == callback.route
         session == [site |-> route.site, policy |-> route.policy, user |-> u,
                     checked |-> hour, signed |-> published]
     IN siteSession' = IF Admits(route, session)
                    THEN [siteSession EXCEPT ![callback.host] = session] ELSE siteSession
  /\ callback' = Nobody
  /\ UNCHANGED <<hour, control, held>>

\* handleSiteAuthCodeInvalid: the browser is sent back to the auth service.
IdentityFails ==
  /\ callback # Nobody
  /\ callback' = Nobody
  /\ UNCHANGED <<hour, control, siteSession, held>>

-----------------------------------------------------------------------------
(* Data: a request, or the Worker it is dispatched to, gets a capability,  *)
(* and the gateway touches what the capability names.                      *)

\* signKvCapability, for the site's data or for the user's own.  "for" is a
\* history: whom the router admitted.
Sign(h, scope) ==
  /\ \E route \in Visible(h) :
       /\ Serves(route, siteSession[h])
       /\ LET user == IF route.mode = "anonymous" THEN Nobody ELSE siteSession[h].user IN
            /\ scope = "user" => user # Nobody
            /\ held' = [space |-> IF route.schema = 4 THEN route.space ELSE route.slug,
                        site |-> route.site,
                        user |-> IF scope = "user" THEN user ELSE Nobody,
                        issued |-> hour, expires |-> hour + CapabilityTtl, for |-> user]
  /\ UNCHANGED <<hour, control, siteSession, callback>>

\* Slip: a capability is good once it is signed.
CapabilityIsSigned(c, clock) == c.issued <= clock

\* validateClaims
CapabilityIsGood(c, clock) ==
  /\ c.issued <= clock
  /\ clock < c.expires
  /\ c.expires - c.issued <= CapabilityTtl

\* storageKeyForClaims, storageRootPrefixForClaims
Root(c) == [space |-> c.space, site |-> c.site, user |-> c.user]

\* The gateway's fetch: whoever has a capability may ask as often as he likes.
Opens(c) == \E skew \in (-Skew)..Skew : CapabilityIsGood(c, hour + skew)

-----------------------------------------------------------------------------
\* The old site's row and its snapshot are from before namespaces; a site
\* that is created later has one from the start.
RouterInit ==
  /\ hour = 0
  /\ LET row == [slug |-> OldHost, space |-> Nobody, home |-> OldHost, policy |-> 1,
                 live |-> TRUE, mode |-> "protected", readers |-> Users]
         route == [Snapshot(OldSite, row) EXCEPT !.schema = 3]
     IN /\ sites = [s \in Sites |-> IF s = OldSite THEN row ELSE Nobody]
        /\ kv = [h \in Hostnames |->
             <<[route |-> IF h = OldHost THEN route ELSE Nobody, since |-> 0, n |-> 0]>>]
  /\ published = 0
  /\ siteSession = [h \in Hostnames |-> Nobody]
  /\ callback = Nobody
  /\ held = Nobody

RouterNext ==
  \/ Hour
  \/ \E s \in Sites :
       \/ Redeploy(s) \/ ChangePolicy(s) \/ DeleteSite(s)
       \/ \E h \in Hostnames : Create(s, h) \/ Rename(s, h)
  \/ \E h \in Hostnames :
       \/ WithdrawRoute(h) \/ BeginCallback(h)
       \/ \E scope \in {"site", "user"} : Sign(h, scope)
  \/ \E u \in Users : FinishCallback(u)
  \/ IdentityFails

RouterSpec == RouterInit /\ [][RouterNext]_routerVars

-----------------------------------------------------------------------------
RouterTypeOK ==
  /\ hour \in 0..MaxHours /\ published \in 0..MaxPublications
  /\ \A s \in Sites : sites[s] # Nobody => sites[s].slug \in Hostnames
  /\ \A h \in Hostnames :
       /\ siteSession[h] # Nobody => siteSession[h].user \in Users /\ siteSession[h].checked <= hour
       /\ \A i \in 2..Len(kv[h]) : kv[h][i - 1].since <= kv[h][i].since
  /\ held # Nobody => held.site \in Sites /\ held.issued <= hour

\* Whoever a protected route serves has signed in since its policy came into
\* force: not under the site's policy before, nor on the same hostname at a
\* site that was there before, though policies are counted from 1 for each
\* (evaluateAccessPolicy; handleSiteAuthCallback signs with a route that it
\* read before it asked).
SignedInUnderThePolicy ==
  \A h \in Hostnames : \A route \in Visible(h) :
    route.mode = "protected" /\ Serves(route, siteSession[h]) =>
      \E g \in Hostnames : \E i \in DOMAIN kv[g] :
        LET entry == kv[g][i] IN
          /\ entry.route # Nobody
          /\ entry.route.site = route.site /\ entry.route.policy = route.policy
          /\ entry.n <= siteSession[h].signed

\* Data is touched for somebody whom the site's own route admitted a short
\* while ago, whatever was revoked since, renamed, deleted or created in its
\* place; and it is the data that the site has had from its beginning
\* (signKvCapability, verifyCapability, storageKeyForClaims).
DataIsForTheAdmitted ==
  held # Nobody /\ Opens(held) =>
    /\ Root(held).space = sites[held.site].home
    /\ Root(held).user \in {Nobody, held.for}
    /\ \E h \in Hostnames : \E i \in DOMAIN kv[h] :
         LET route == kv[h][i].route IN
           /\ route # Nobody
           /\ route.site = Root(held).site /\ route.live
           /\ IF held.for = Nobody THEN route.mode = "anonymous"
                                   ELSE route.mode = "protected" /\ held.for \in route.readers
           /\ \/ i = Len(kv[h])
              \/ hour < kv[h][i + 1].since + KvDelay + CapabilityTtl + Skew

\* Both: what is served and what is touched follow the policy of a route.
AccessFollowsPolicy == SignedInUnderThePolicy /\ DataIsForTheAdmitted
=============================================================================
