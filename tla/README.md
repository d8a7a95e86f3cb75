# A verification of pages-manager

pages-manager publishes static sites and Workers. Its control plane (`apps/pages-api`) keeps the truth in D1, and
a router (`apps/pages-router`) serves requests from an immutable snapshot that it finds in KV through a pointer per
hostname. Around the two stand a lock per site, a Durable Object per hostname, a provider that stores the Workers,
an auth service (`apps/pages-auth`), a gateway to the sites' data (`apps/kv-gateway`), and a second system that
turns Slack messages into changes of the platform (`apps/gateway`). This directory models where these parts have to
agree: TLA+ modules, TLC runs on small instances, and proofs checked by TLAPS.

    tlc -config MCRoutePointer.cfg MCRoutePointer.tla      # a run
    tlapm RoutePointerProofs.tla                           # a module of proofs

Paths below are relative to the repository; `pages-api` stands for `apps/pages-api/src`.

## 1. Inventory

| Component | State | Operations | Modelled in |
|---|---|---|---|
| Route pointer protocol, `pages-api/route-snapshot.js` | KV: a snapshot per (siteId, routeGeneration, policyVersion), a pointer per hostname. Durable Object: `pointer` (pointer or tombstone), recovery records | `/write`, `/clear`, repair | RoutePointer, PublishedRoute, SitePointer (not repair) |
| Site commit lock, `store/transactions/site-policy.js` | D1 `site_policy_locks`: lock id, fencing token, expiry | acquire, read back, renew, guard a batch, release | SiteCommitLock, SerialCommits, CommitLease |
| Deployment, `transport/public/deploy-site-handler.js`, `application/deployments/*` | D1 `site_routes`, `deployments`, `site_versions`; Workers | upload, verify, activate, publish, compensate, finish | Deployment, SiteWorkers |
| Access policy, `application/sites/update-access-policy.js` | D1 `site_routes.policy_version`, ACL | change, publish, compensate | Deployment |
| Rollback, `rollback-site.js` | as a deployment | choose, activate, publish, restore | WorkerCleanup, DeploymentRecord |
| Cleanup and Worker GC, `infrastructure/cleanup`, `application/governance` | D1 `deployment_resource_cleanup_tasks`, provider | file, lease, look at the route, delete, finish, backfill | WorkerCleanup, SiteWorkers |
| Recovery, `recover-failed-deployments.js`, `reconcile-committed-deployment.js` | D1 `deployments`, markers in KV and in the Durable Object | complete, fail, mark, replay, reconcile | DeploymentRecord |
| Site lifecycle, `site-lifecycle.js`, `site-metadata.js`, `application/sites/*` | D1 `sites`, `hostname_claims` | create, rename, synchronise, delete, restore | SiteNames |
| Ownership, `transfer-owner.js`; teams, people, admins | D1 owners, members, roles, keys | authorize, commit, publish, compensate; manage | SiteOwnership |
| Runtime configuration, `runtime-config-mutation.js`, `runtime-config-sync.js` | D1 variables, generation, its own lock; the Workers' bindings | mutate, sync, commit with a deployment, restore | RuntimeConfig |
| Auth service, `apps/pages-auth` | Durable Objects for OAuth states, codes, sessions, CLI logins; D1 users | authorize, callback, exchange, check, log out, confirm | SignIn, CliLogin |
| Router, `apps/pages-router` | none; cookies and capabilities that it signs | decide on a snapshot, sign in, sign a capability | Router, SignIn |
| Runtime data gateway, `apps/kv-gateway` | the provider's KV | verify a capability, get, put, list | Router, DataList |
| Slack agent, `apps/gateway` | MySQL deliveries, sessions, runs; Redis lease | receive, take a turn, create, start, close | AgentTurns |
| Platform requirements, `apps/gateway`, `packages/workflow-core` | MySQL items and action log | callbacks, webhooks, trigger, follow-up, repair | PlatformDev |
| Worker slots; audit, webhooks, console API; legacy v1; CLI, SDK, skill, console front end; packages; scripts | | | not modelled (section 8) |

How they interact. A deployment reads the site's variables, uploads a Worker, creates a version, takes the site's
commit lock, and under it commits the new row of `site_routes` in one D1 batch that is guarded by the lock and by a
compare-and-set on the row it read. It then calls the Durable Object of the hostname, which writes the snapshot, the
KV pointer and its own state. If that fails, a compensation puts the previous row back as a new generation, publishes
that, and deletes the new Worker; if even that fails it clears the pointer and reports that a repair is required.
Policy changes, transfers, renames and deletions commit and publish the same way. A replaced Worker gets a cleanup
task, which a cron or an admin executes after the drain window *without* the commit lock. What a request could not
finish it leaves as a marker, which later requests replay. The router decides from KV alone; who signed in it
asks the auth service, and only once per freshness interval; data it opens by signing a capability that the gateway
honours without asking anybody. In the Slack agent a message is recorded as a delivery, finds its session, takes the
session's lease, runs the agent, and may create an item that callbacks and webhooks then move.

What is hard about it. No transaction spans D1, KV, the Durable Objects and the provider, so every step can be
the last (a failed call, a lost answer, an eviction, a stopped request). Requests of one site overlap, and those of
different sites meet on a hostname that changes hands. Leases rest on clocks. Most handlers read, call somebody and
write what they read. PROJECT.json lists the hazards, each at its line, with the properties that watch it.

What makes each component correct:

- *Route pointer*: it leads to a stored snapshot; an owner's route never moves back; the hostname changes hands only
  over a deleted route; a cleared route stays cleared; the present owner can always publish.
- *Commit lock*: a callback that has not aborted holds the lock; guarded batches are serial however slow anything is.
- *Deployment and policy*: the active and the published version have their Worker; nobody's success is overwritten;
  snapshots are immutable; in the end routers see D1's row or a repair was reported; every request ends.
- *Rollback and cleanup*: neither a visitor nor a rollback is led to a deleted Worker; a task is run by one at a time
  and never stays running.
- *Recovery*: a failure in doubt keeps its marker and is settled; what is recorded as succeeded was active.
- *Lifecycle*: a live site owns its hostname; what a hostname serves belongs to its claimant; renames settle.
- *Ownership*: only who may give a site away at that moment does; routers are shown the owner of D1.
- *Runtime configuration*: a change that was acknowledged reaches the active Worker; a failed deployment leaves nothing.
- *Sign-in, router and data*: a site closes in bounded time to who left or signed out; a key is for who confirmed it;
  data is touched for the admitted, and is the site's own; a listing is complete.
- *Slack agent*: a message takes effect once; turns of a session exclude each other; nobody develops before the user
  asked for it; repairs are bounded.

## 2. Modules

    PublishedRoute   <-- implemented by --  RoutePointer  -- implements (one owner) -->  SitePointer
                                                                                             ^
                                                                                             | EXTENDS
    SerialCommits    <-- implemented by --  SiteCommitLock  -->  CommitLease  <-- implem. by -- Deployment
                                                                                                  |
    SiteWorkers      <-- implemented by --  WorkerCleanup   and by  ------------------------------+

    MCPipeline  = DeploymentRecord, RuntimeConfig, SiteOwnership, PlatformDev
    MCPlatform  = SiteNames, SignIn, CliLogin, Router, DataList        one variable "part" says which
    MCProgress  = WorkerCleanup, DeploymentRecord, SiteNames           component moves in a behaviour
    MCLeases    = SiteCommitLock, AgentTurns

**RoutePointer** is the protocol of one hostname. `stored` and `pointer` are KV, `durable` is the Durable Object's
storage, `route`, `rows` and `claimant` are D1. The object serialises requests, so one operation `op` runs at a time;
its first action evaluates the whole decision (`WriteAllowed` is `assertPointerWriteAllowed`,
`OwnerReplacementAllowed` is `deletedRouteAllowsOwnerReplacement`, and so on), and each further action is one
storage call: `PersistOwnerFence`, `PutSnapshot`, `PutPointer`, `PersistPointer`; `PutTombstone`, `DeletePointer`,
`ConfirmCleared`. `EndEarly` ends an operation before any call: a failed call, one whose answer was lost (it took
effect and the caller hears of an error), and an eviction look alike from here. A write can carry any row that
was ever committed for the hostname (`rows`): that covers delayed, repeated and reordered requests. `late` says whether it
may also outlive its site's claim; it is chosen once, because what is promised to an owner depends on it. A snapshot is
its key and whether it is deleted; the rest of its content is fixed by the row.

**PublishedRoute** is what a router may see: one variable, moved forward by its owner, taken over only when nothing
or a deleted route is published, or withdrawn.

**SitePointer** is the hostname as its owner's handlers use it: `WriteDone`, `WriteFailed`, `ClearDone`,
`ClearFailed`. It is the interface between RoutePointer, which implements it for one site, and Deployment, which uses it.

**SiteCommitLock** is `withSiteCommitLock`: acquisition with its read back, the chain of renewals and the timeout
beside the callback, guarded batches, release. A statement carries the time its Worker read before sending it
(`stamp`), `skew` is how far a clock is off, and D1 compares the time in the statement with the row when it runs.
Time is an integer; it does not pass a timer of a running Worker that is due, nor the end of an acquisition's longest
delay. **SerialCommits** is the promise of the guard: batches are committed in turns, and a turn that is over is over. **CommitLease** is the promise to the callbacks, which also write where no
row guards: the lock changes hands only while no callback is healthy (runs, and has not been aborted).

**Deployment** is a set of deployments and of policy changes on one site. Each action is one call to D1, to
the provider or to the Durable Object, or the check of the signal between two of them. Of the lock it keeps what
SiteCommitLock shows: it is taken over only when the lease has run out (`LeaseRunsOut`, possible only outside a
callback or after the signal aborted), and guarded batches need it. Both modules implement CommitLease (`LockIsALease`). The restoring UPDATE is guarded by neither the lock
nor the row, as in the code. A batch may take effect and fail for its handler, because its answer is lost or because a
reading after it fails: `ActivationUnanswered` (fault `answer`) and, for a policy change, `PolicyUnanswered` (fault
`readback`), which the code neither publishes nor compensates nor reports.

**WorkerCleanup** follows the Workers of one site. `route` and `published` are D1's and KV's active version, `cached`
the versions some router still has, `offered` the artifact status of `site_versions` (active, retiring, retired),
`tasks` the cleanup tasks, `workers` the provider. Deployments and rollbacks exclude each other by `lock`; a runner picks
a task, takes its lease, looks at the route, marks the version retiring, looks again, deletes, and finishes, one
statement per action, and can fail or stop before each (`StatementFails`, `Stop`); an expired lease gives the task back.
A publication that is reported as failed may have taken effect first (`PublishFails`: a lost answer, or the second check of
the signal). Its compensation restores the route (`Restore`), publishes that (`Rewrite`) or, when either fails, clears the pointer
if it can (`RewriteFails`, `Clear`), and only after a publication that succeeded deletes the new Worker (`Withdraw`);
the catch path deletes it without a look (`Discard`). `withdrawn` remembers the versions that visitors may have seen before
they were taken back.
Faults: `answer` (the provider deletes and its answer is lost), `d1` (a statement fails), `slow` (a run outlives
its lease), `early` (an orphan is filed that somebody still uses).

**SiteWorkers** is what the handlers of a site promise each other about its Workers, in four variables: the versions still to
be uploaded, those that have their Worker, the one that D1 has active, and those that routers are shown. A version becomes
active only while it has its Worker, is shown only while it is active, and its Worker is deleted only while it is neither.
Deployment, where requests overlap and compensate, and WorkerCleanup, where rollbacks and cleanups meet them, look at the
same Workers from two sides and both implement it, so that what each leaves out of the other's keeps the same promises.

**DeploymentRecord** is the row of `deployments`: each request writes its own terminal state, `Readers` (a GET, a
replay of the request) write "succeeded" when the route leads to the version, `Followers` (the next requests of the
site) replay the markers. No write has a condition; `subject` and `before` are what a visitor read before it writes.

**RuntimeConfig** has the variables in D1 (`values`), those that each Worker carries (`bindings`), the commit lock and the
runtime lock as leases that a handler may lose (`Lapse`) and go on, the sync that resolves the active Worker, reads its
bindings, pushes them merged and verifies, and a deployment's readings, two validations, commit and restoration. A change or a
commit may take effect and fail for its caller (`MutateUnanswered`, `CommitUnread`). **DeploymentNames**
declares the deployments that it shares with DeploymentRecord.

**SiteOwnership** has a transfer that is authorized by several readings, commits by a batch that repeats the question
(`MayTransfer`, `TargetAllowed`), publishes, and compensates; users, keys, roles, teams and platform admins come and go. The
batch may take effect and fail for its handler, of the transfer (`CommitUnanswered`) as of its restoration (`RestorationFails`).

**SiteNames** has `claim` and `site` (D1) and each hostname's `pointer` with its `tombstone` (the Durable
Object): creation, renaming with the synchronisation of its retired hostnames, the cron's queue, deletion and its
restoration. A handler stops anywhere; a call that timed out may be carried out later (`LateWrite`).

**SignIn** is a browser's way to a site: the OAuth state, the auth session with its two lifetimes, the site code, the
router's cookie and its freshness. The router's call that consumes a site code has two ends: `SendCode` reads the clock that the
code is judged by, `SiteCallback` stamps the cookie by the clock after the answer. **CliLogin** is a terminal's login: start, the page that a browser shows, the
confirmation, the polling, the key. Both have the Durable Objects' transactions as single actions and what lies between
two calls as separate ones.

**Router** keeps for each hostname the history of what was published (`kv`), of which a router sees any entry not
replaced for longer than `KvDelay` (`Visible`); cookies are signed under a route read before the auth service was asked;
a capability (`held`) opens data (`Opens`, `Root`) until it expires. **DataList** walks the provider's pages in the order
of the stored names, filters by the caller's prefix and cuts answers with cursors; a page is the set of its keys, and `again`
has the keys that a page brought a second time. **PlatformNames** declares the sites,
hostnames and users that SiteNames, SignIn and Router share.

**AgentTurns** is `processSlackEventBody` from the delivery record to the reaction, handler by handler, one statement per
action, with the Redis key (`lease`), the runs and sessions, and the button that closes a session; `overtaken` remembers whose key
somebody else took away. **PlatformDev** is one
item: every request reads the row, moves its copy with `workflow-core`'s state machine, and writes the whole row back.

The MC modules give TLC constants and symmetry sets. The modules ending in `Proofs` hold the theorems. Operators
marked `Slip` are plausible bugs next to the definition they mutate; each property of a passing run has one that
breaks it (listed in PROJECT.json under `mutants`).

## 3. Runs

| Run | Instance | Shows | Distinct states |
|---|---|---|---|
| MCRoutePointer | three regimes: *late*, 2 owners, generations 0..1, policies 1..2, requests of any age; *turn*, 2 owners, generations 0..2, requests end with their site's claim; *owner*, 1 owner, generations 0..3, policies 1..2 | the pointer resolves; fences only over deleted routes; cleared stays cleared; RoutePointer implements PublishedRoute (all); the owner is not locked out (*turn*); every storage call is (part of) a call of SitePointer (as long as the hostname has had one owner, so *owner* goes furthest) | 1.4 M |
| MCLeases | lock: 2 sessions, lease 6, renewal 2, timeout 3, skew 1, delay 1, 9 ticks; turns: 1 message, 2 handlers with 1 trouble and a close at any time, or 3 handlers with neither | a healthy callback owns the row; batches are serial; a message makes one item and starts one worker; turns overlap only after a key was taken away | 1.59 M |
| MCDeployment | 2 deployments, 1 policy change; requests stop, KV calls and compensations fail, a policy batch takes effect unanswered | Workers of the active and published version; failures are reported; successes and snapshots are kept; convergence; every step is one of SiteWorkers | 3.6 M |
| MCDeploymentEnds | 1 deployment, 1 policy change; timeouts, failing renewals and status writes, lost answers | every request ends | 616 k |
| MCWorkerCleanup | 2 deployments, 1 rollback, 2 runners, 2 tasks, 1 stop; publications and compensations that fail with or without effect, failing statements and lost answers | versions in use and on offer keep their Workers; a Worker is drained before it goes; one run of a task at a time; every step is one of SiteWorkers, with the exceptions below | 2.2 M |
| MCPipeline | record: 1 deployment, 1 rollback, 1 reader, 1 follower, 2 lost writes; config: 2 names, 2 writers, 3 deployments (2 with variables of their own), 3 of these 5 requests at a time, 2 lapses and 1 failed or unanswered call when both writers meet a deployment or two requests meet; ownership: 2 users, 2 departments, 1 team, 1 transfer, 1 manager, 1 change, 2 faults (lapses, failed calls, commits that fail past their batch); item: 2 handlers, 3 requests, 1 repair | markers outlive doubt; a recorded success was active; changes reach the Worker; a failed deployment's values are withdrawn; transfers are authorized when they commit and published as committed; no work before the trigger; repairs are bounded | 1.0 M |
| MCProgress | cleanup: 1 deployment, 1 rollback, 1 runner, 2 tasks, 2 stops; record: 1 deployment, 1 rollback, 1 follower; names: 2 sites, 3 hostnames, one never reachable | no task stays running; a failure is settled; a rename settles although another site's does not | 30 k |
| MCPlatform | names: 2 sites, 2 hostnames, generation 2, 2 stops; sign-in: 1 user, 1 browser, 2 sessions, 4 ticks; cli: 2 people, 2 browsers, 1 login, 2 changes; router: 2 sites, 2 hostnames, any readers, 2 publications, 3 ticks; list: 5 keys, pages of 3, 2 pages a call | a live site owns its hostname, and traffic follows claims; a site closes in time; a key is for who confirmed it and dies with its version; a protected page is for who signed in under its policy, data for the admitted; a listing is complete | 1.66 M |
| MCDeploymentRenewal | 1 deployment, failing renewals | *violated*: F1 | |
| MCDeploymentTakeover | 2 deployments, failing renewals | *violated*: F2 | |
| MCDeploymentRollback | 1 deployment, timeouts | *violated*: F3 | |
| AgentTurnsOverlap | 1 message, 2 handlers, no trouble | *violated*: F4 | |

In the runs that combine components each behaviour moves one of them (`part`), so a property of a component means
what it means alone (section 5 has this as theorems); the components meet in the interfaces of section 2. The type
invariants of the components that are not in MCPipeline or MCPlatform are in no run: they are theorems. Nor are
`LockIsALease` and `RequestsGoForward` in a run of this directory, for the same reason.

Why the bounds are enough. *Route pointer*: two identities make every hand-over, a fence left by one over the other, and
(with requests of any age) the return of the first. One generation and one policy step distinguish older, equal,
newer by policy and newer by generation; the other regimes need more generations because a deletion uses one and a fence
must be overtaken by a newer row. *Lock*: two sessions make every takeover, 9 ticks hold a whole lease, a renewal, a
timeout and an acquisition by the other; the durations keep the order of the code's constants (renewal 20 s < timeout 45 s
< lease 60 s) and the margin `LeaseMargin`. *Deployment*: each request commits at most twice (once, and once to compensate),
so `MCRoutes` bounds no behaviour; two deployments and a policy change give every pair of neighbours under the lock.
*Cleanup*: two runners meet on a task, two tasks cover a replacement and the orphan of a failed request, and a rollback can
return to either version. The constraint `FaultyRunsMeetOneDeployment` lets a run stop, or lose the record of what it
deleted, only while one of the two deployments has not begun; without it TLC visits 17.9 M states and finds no violation either, in more
time than the other runs take.
What must eventually happen to a task needs one runner, which stops twice and comes back. *Record*: two records, a stale reader and a follower are every pair of writers of a row.
*Config*: two names show that a sync of one does not drop another; a lapse of each lock lets two syncs and a restoration
interleave; a value that comes back takes two deployments that compare before either replaces and a third request that finds it. *Ownership*: one transfer against every kind of change between its readings and its batch; three kinds
of owner. *Item*: two requests overlap and a third comes on what they left. *Names*: two sites exchange two hostnames,
one of them deleted and created again; a stop in each of two handlers. *Sign-in*: times only matter by their order, and
4 ticks, and codes of one, reach the bound of the property with a router's call of one tick, the longest there is; an SSO that says "left" does what `MarkLeft` does first; a browser has one callback at a time, and a call that never
arrives is a code that was not sent. *CLI*: two people at one browser and one at two. *Router*:
two publications after the first make a route, its successor, and a successor elsewhere. *List*: five keys over
pages of three end a page, an answer and a call at different keys. *Turns*: two handlers of one message, one trouble
each way; the second message of a session behaves as a resent one up to its name.

CHECK_DEADLOCK is off where the model really may stop: bounds are reached, or all requests have ended.

Fairness. `Deployment!FairSpec`: a request that was not stopped makes its next call (the platform bounds every fetch);
nothing is assumed of faults, of `LeaseRunsOut` or of who gets the lock, since a polling acquisition has a deadline. Its
run has no `crash`: a stopped request does not end by itself, that is the business of recovery. `WorkerCleanup!FairSpec`: the
cron comes back and an invocation goes on until it stops, and leases run out; stops and lost answers are bounded, not unfair.
`DeploymentRecord!FairSpec`: only followers are fair, as the markers rely on later requests of the site. `SiteNames!NamesFairSpec`:
a handler that has the lock goes on (weak); the cron and the calls to a reachable hostname are strongly fair, since they
compete for the lock with other requests again and again. MCProgress states the same for its parts.

Exceptions that a property names (history variables of the models) are behaviours the code allows: `overtaken` (RoutePointer:
another owner came and went), `outdated` (a version replaced again while the task of its first replacement is open),
`unrecorded` (a Worker deleted by a run that could not record it), `withdrawn` (a version that was visible before its publication
was reported as failed), `unanswered` and the outcome of that name (a commit that failed for its handler past its batch), `abandoned` (a deletion that ended without telling the
hostname), `raced`, `unrestored` and `hasty` (RuntimeConfig: a deployment that replaced what it had not seen), `Stuck` (a hostname that cannot be cleared), `overtaken` (AgentTurns: a
key that was dropped by a close, cleared by somebody who had read it before its run was recorded, or that ran out before that),
`uncounted` (repairs decided before an earlier one was recorded). Section 6 says more about each.

## 4. Findings

**F1. A deployment that is active loses its Worker.** The handler's catch path deletes the uploaded Worker without
asking whether the route refers to it (`deploy-site-handler.js:387-407`; inside the callback `cleanupIfInactive` does
ask). Three ways lead there with the new version active: the renewal that was in flight when the callback returned fails
(`site-policy.js:142-146`, the run MCDeploymentRenewal); the compensation could not restore the row, kept the Worker on
purpose, and then neither write of the failed state succeeds (`complete-failed-deployment.js:67`; one D1 outage
causes both; `Faults = {"restore", "status"}`); the activation batch took effect and its answer was lost (`route-activation.js:333-351`;
`Faults = {"answer"}`). MCDeployment, which passes, therefore has neither failing renewals nor lost answers nor failing
status writes, and the theorems about Deployment assume the same. Timeouts are left out of both because of F2.

**F2. A slow compensation overwrites the next session.** `restoreSiteRouteIfCurrent` compares one read of the row and
overwrites another (`route-activation.js:440-446`). The compensation must outlast what remained of its lease after the
abort (at least 15 s on a timeout). Then two rows have one (generation, policy) and the snapshot of that tuple is rewritten.

**F3. The commit point is not the last word.** The signal is checked again after the KV commit was acknowledged
(`commit-route-snapshot.js:21`), and D1 is rolled back; the operations document calls the KV pointer the commit
point after which D1 must not be. Routers see the version for a moment; the compensation publishes the restored row.

**F4. A session's agent turns can overlap.** Closing a session lists its runs, fails them, and deletes the session's Redis
key whoever holds it by now (`slack/agent-run-records.js:35-48`). A handler that has set the key and not yet inserted its
run is not in the list: its key goes, the next message takes it, and two turns run. `docs/architecture/slack-agent-runtime.md:621`
promises one. What the code does keep is `TurnsExcludeEachOther`: without a key taken away, turns do not overlap.

## 5. Proofs

For all values of the constants that satisfy the modules' named assumptions (constants are numbers, `None` differs from
everything, sets of requests are disjoint):

- **LeaseProofs.** *Commit lock*: `TypeCorrect`; `HealthyHoldsTheLock`: if `LeaseMargin` (delay + timeout + skew < lease) then
  a callback that has not aborted owns the row. The property is not inductive: it does not say when the row runs out.
  `LeaseInv` adds that an acquisition carries a recent time, that a row just taken is intact and
  expires a lease after that time, that a renewal carries a time since the start, and that
  the row of a healthy callback outlives its timeout: nobody's clock can find it free before the signal aborts. The
  margin in the code is 15 s for delay and skew together. `SerialCommitsImplemented`: the guarded batches implement
  SerialCommits *without* the margin, so also where a lease is far too short: tokens alone suffice. `LeaseRefinement`: with
  the margin the lock implements CommitLease; the step that needs `LeaseInv` is the takeover, which finds nobody healthy. *Agent's turns*, for any messages,
  handlers and troubles: `TurnsTypeCorrect`, with what a handler knows at each place (`TurnsMakeSense`). `TurnsAreExclusive`
  from `KeysInv`: whoever has a run with time left, or is about to insert one, holds the session's key unless somebody took it away;
  the proof found one way to lose it that two handlers do not show (section 6). `MessagesTakeEffectOnce` from
  `EffectInv`: a message with an item has a started worker or one handler that will start it, never both.
- **RoutePointerProofs.** `TypeCorrect`, with `ClaimantHasRoute`. `PointerAlwaysResolves` and
  `FencesOnlyOverDeleted` from `ProtocolInv`, which adds that the write under way is still current with
  what is published (`WriteIsCurrent`: the decision was made several storage calls ago) and that a tombstone about to be
  put is the published owner's (`ClearIsOwn`). `RouterRefinement`: with the same invariant every step is a step of
  PublishedRoute or invisible. `ClearIsFinal`: `ClearInv` says what an acknowledged clear leaves: until another owner
  fences the hostname, the durable state is a tombstone at or beyond the cleared tuple or a pointer beyond it, and so is
  whatever is published or under way. `OwnerNeverLockedOut` is about what is left behind: while requests end with their
  site's claim (`~late`), whoever claims the hostname finds his own state, or a deleted route and no third owner's durable
  state, or a tombstone (`LeftByOthers`). The hard step is the end of a hold: a deletion that publishes nothing left a
  tombstone that refuses every row of the site (`GoneInactive`, from `ClearIsFinal`'s invariant), and `CommittedInv` (a
  snapshot key stands for one committed row, rows only grow) shows that an exact pointer leads to the deleted one.
  `SoleOwnerRefinement`: while the hostname has had one owner, each storage call is (part of) a call of SitePointer;
  `CallInv` keeps what the call found of the durable state when it began.
- **DeploymentProofs**, for any number of deployments and policy changes, with rows of any generation and policy
  (`Routes = AllRoutes`). Three results hold under all faults. `TypeCorrect`. `LeaseRefinement`: the lock in this model
  implements the CommitLease that SiteCommitLock implements, so nothing more is assumed of it; `OneHealthyCallback` says what that
  gives. `RequestsEndInTime`, the safety half of `EveryRequestEnds`: each step of the system takes one request forward
  (`Progress`), or is one of three things that can befall it once, so no request turns in a circle through its compensations.
  The others exclude more and more. `SuccessIsNotOverwritten`, `SnapshotsStay` and `RoutersConverge` hold unless a callback outlives its lease
  (`NoAborts`: with a failed renewal, run MCDeploymentTakeover, snapshots are rewritten); the last for commits that take effect
  unanswered too, which its property names. `FailuresAreReported` also needs every activation to be answered (`AllAnswered`): one that
  took effect unanswered is not compensated. The theorems about Workers also need every status to be written (`MildFaults`: requests stop, and any call to
  KV, the Durable Object, the provider or a compensation's D1 may fail): a failure that cannot be recorded (`Unrecorded`) is
  dealt with again, by a cleanup that deletes the Worker. `CallbackInv`: no signal aborts, so the session in its
  callback holds the lock, the others are outside, and what it has read or committed is the row (`RowsKnown`).
  `UnusedStays`: a version that is neither active nor published, and that no compensation would go back to, comes into use
  only by its own activation. From the two, `VersionsInv`: a deployment that may delete its Worker is out of use or `Unrecorded`, a
  failed one is out of use or was reported, and while statuses are written every version has its Worker or is out of use; this gives `ActiveWorkerIsKept`,
  `PublishedWorkerIsKept` and `FailuresAreReported`. `RoutersConverge` adds that whoever changed the row is
  still at it, or stopped, or reported, or was told of a failure past its own commit (`Followed`); `SuccessIsNotOverwritten` and `SnapshotsStay` follow from
  `RowGrows`, that a row is replaced by a newer one, and `Behind`, that what is published was the row once.
  `SiteRefinement`: step by step, deployments and policy changes implement SiteWorkers. Each step of a request is an upload, a
  deletion, an end, or moves the row or the pointer but not both (`WorkersRest`), and `VersionsInv` says that a row that comes
  back has its Worker and a Worker that goes is out of use. `PromisesKeepWorkers`: whatever implements SiteWorkers leads
  neither D1 nor a router to a Worker that is gone.
- **WorkerCleanupProofs**, for any number of deployments, rollbacks, runners and tasks. `TypeCorrect` and, unless a run
  outlives its lease (`"slow" \notin Faults`), `RunsExcludeEachOther` from `Exclusive`: a runner between taking and finishing
  has its task's lease to itself. With no orphan filed early either, `WorkersAreKept` and `WorkersAreDrained`.
  The cleanup does not take the commit lock, so the argument is about orders: `CleanupInv` consists of what a
  request under the lock has read and chosen (`RequestsInv`: it holds the lock and the route is what it read, activated or restored, a
  version comes into use only by its own deployment, a target is known) and of what stands between a Worker and its deletion (`WorkersInv`: the route, what is offered, and the base of a
  compensation keep their Workers; one open task per version; a version that a run is about to delete is retiring
  and, at the second look, unrouted). The core is the handshake of the two sides: a run marks the version before it looks at
  the route again, and an activation is refused unless the version is marked active, so whichever is first stops the other.
  Without that second look the proof fails at exactly this step. `EdgeInv` adds the pointer and the caches. Since a publication
  may have taken effect before it failed, and its compensation may fail as well, the pointer need not follow the route: `PointerIsSafe` says that
  it leads to the route, or to a version that no task and no deployment about to file one is after, and to the route in any case when a deployment
  withdraws its Worker. `ShownIsKnown`: a version that was never published is in no cache, one that is taken back only as withdrawn;
  a task that is due belongs to a drained version, and only what is due runs.
  `SiteRefinement`, from both invariants: with the exceptions every step of a request, of its failing publication and compensation, and
  of a cleanup run is one of SiteWorkers, the same that Deployment implements.
- **PipelineProofs.** *Record*, for any number of requests, GETs, followers and lost writes: `TypeCorrect`, with what a visitor
  has read of a row by the time it writes. `MarkersAreKept`: a follower about to delete a marker has seen a final state
  (`MarkersInv`), and no write makes a final state unfinal (`FinalStays`). `SuccessesWereActive`: a success is decided when the
  route leads to the version, or led to it; that this was so once is never undone, so it does not matter how late
  the row is written (`SuccessInv`), provided that the version of a record stays (`VersionStays`).
  *Variables*, for any names, writers, deployments, lapses and failures: `ConfigTypeCorrect`. `FailedConfigsAreWithdrawn` from
  `WithdrawalInv`: what a request has read is what D1 held at that generation (`ReadingsAreOfTheirTime`), nobody has read a
  deployment's values before it wrote them (`OwnVariablesAreNew`), and once a failed deployment is done with them, nothing
  that could still be written back holds them, unless its writer had compared too early or its own commit failed past the batch (`FailedLeaveNothing`).
  `ConfigsReachWorkers` from `ReachInv`, which adds what a deployment that holds the commit lock may assume of the route, and a
  Worker of its deployment until it is activated (`VersionsInv`), and `CarriedInv`: as long as nothing happened that voids the
  promise (`Clean`), the routed Worker, and the one that a compensation would go back to, carry D1's variables, or the last
  writer of one of them has not been told yet (`Carries`, `Settled`).
  *Items*, for any number of requests and any limit on repairs: `ItemTypeCorrect`, `WorkIsAskedFor` and `FixesStayBounded`
  from `ItemInv`. A request is what it carries (`Fit`): its stale copy of the row and what it still has to do; before the button
  is pressed no copy says that development was asked for, however often it is written back, and a request on its way to a
  repair has counted fewer than the limit and has its trigger. *The composition*: `PipelineIsItsComponents`: each behaviour
  of `MCSpec` is one of the record's, the variables', the owner's and the item's specification (a step of one leaves the
  variables of the others alone), so each theorem about a component is one about the composition that the run explores;
  `PipelineTypesCorrect` is the type invariant of the whole, from the four of its parts.
- **SiteOwnershipProofs**, for any people, teams and transfers. `AuthorityIsCurrent`: the conditions of the batch imply the
  application's rule at the commit, and nothing but a commit, a compensation and a merge changes the owner.
  `PublishedOwnerIsRight` does not use the lock, which may be lost at any time: the newest policy version is
  published, or the request it belongs to is under way or failed past its commit, or somebody was told (`NewestIsFollowed`); an older request
  is kept from publishing by the pointer only. `OwnershipTypeCorrect`, for finitely many transfers: what a manager's request has
  checked keeps its type until it acts (`TeamsInv`), and a transfer moves the policy version twice at most, when it commits
  and when the site goes back (`CountInv`, by the cardinalities of `Begun` and `Back`).
- **AccessProofs**, about who is let in, for any people, browsers, logins, sites, readers and lifetimes. *CLI*: `KeysStay`:
  the page, the record and the key carry the same pair of a login and a person that was shown it, and the session version
  read for a key is of the past as soon as its user is inactive, so it does not matter when the key is inserted. *Sign-in*
  (`TimesArePositive`: the lifetimes are numbers, the idle one within the absolute one, as `config.js` reads them):
  `SitesCloseInTime`. Each record on the way says how recently its user was active and its browser signed in: an auth
  session is looked up in the same step as D1's status, a code is younger than `CodeTtl` by the clock that the router read before its call,
  and a cookie says when it was checked (`LeaversInv`, `SignOutsInv`); the bound is the sum of the last two and of the time between
  the two clock readings, which the code does not limit. *Router and data* (`RouterConstants`):
  `AccessIsByPolicy`. A hostname's history is in order (`EntriesInv`); the callback and the session name a policy that was published
  before the sign-in, whatever replaced it (`SessionsInv`); a capability was signed by an entry that was visible then, so
  current less than `KvDelay` before (`HeldInv`), and a site's data keeps its place under every row (`HomesInv`). *Listings*: `ListsAreComplete`, for any
  number of keys and any sizes of pages and answers. What was given or is in hand comes from before the position, and of the
  keys before it nothing that stayed is missing (`WalkInv`); a page is asked for no longer than the room that is left, so that
  nothing it brings is cut off (`NothingIsCutOff`). *The composition*: `PlatformIsItsComponents` and `PlatformTypesCorrect`, as for the
  pipeline, with the names of SiteNamesProofs.
- **SiteNamesProofs**, for any sites and hostnames. `HostnamesAreFollowed`: the traffic half is not inductive, because what
  makes it true lies in the past of a hostname. `Sealed` says it: a dead route or a tombstone stands there that no live
  route still under way can pass. `SealsInv` says who must have sealed a hostname (`MustBeSealed`): the owner of a claim
  that is held or free, a rename that is about to release one, a deletion before its batch. `LateInv`: a call that is
  late is always of the claim's owner, since a claim is freed only when none is left. `JobsInv` keeps what a deletion has
  read before true until it restores it. `NamesTypeCorrect` adds how far a site's generation can get: whoever begins leaves
  room for what follows (`RoomOf`).

Every invariant and every action property that a passing run checks is thus stated by a theorem. What is only model-checked
is liveness: `RenameSettles`, `NoTaskIsStranded`, `FailureIsSettled` and `EveryRequestEnds` (out of the prover's reach, as is
ENABLED; of the last the safety half is proved). None of the modules needs a recursive operator.

## 6. Assumptions of the model, and what was observed

- D1 batches are atomic and serial; a Durable Object runs one request at a time and its storage puts are atomic.
- RoutePointer reads KV as it was last written. The object is KV's only writer, but KV is eventually consistent, and a
  stale read by the object itself before a decision is not modelled. What routers see late is: Router (`Visible`) and
  WorkerCleanup (`cached`).
- RoutePointer reuses a hostname only after its deletion reached it. SiteNames justifies this (`HostnamesFollowClaims`) but for
  `abandoned` deletions, and for a reuse hold configured as 0 (its default is 300 s).
- In Deployment the `restore` fault takes all D1 calls of a compensation. Runtime configuration, the transfer a deployment
  carries and the office network are left out of the callback; the previous Worker's cleanup is WorkerCleanup's. A policy change that
  changes nothing returns before its batch (`site-policy.js:179-186`) and is left out.
- WorkerCleanup leaves out what F1 is about: an activation that takes effect unanswered and a renewal that fails after the callback;
  both lead to the catch path with the new version active, and are Deployment's.
- RuntimeConfig: a mutation that fails before its batch and whose release of the runtime lock fails too leaves the lock taken until its
  lease ends. The model has a lock held by somebody else (refusals), not this way to it.

Observed while modelling. Each is what the code does; the models have it, by an exception named in a property, as a fault
that a run leaves out, or as a behaviour that no property is about.

*Pointer.* The tombstone is a single slot: the next owner's fence replaces it, and a write of the first owner that was delayed
until the second was cleared too is accepted (`route-snapshot.js:350`, `:491-495`).

*Workers.* A delete whose answer is lost, with a failing state update after it, leaves a version on offer without its Worker.
An open task is not renewed when its version is replaced a second time, so its drain window is over early
(`docs/operations/consistency-and-state.md:136` asks for one after each replacement). Two tasks of one version are
not excluded from each other. A finish is not conditional on the runner. A version whose publication took effect before
it failed loses its Worker at once, without a drain window (`deploy-site-handler.js:330-338`), while caches may lead to it; it has the same
root as F3. A backfill can file what a request under way has
just uploaded. The restoration after a failed publication does not ask whether its version is still on offer.

*Records.* A lost "succeeded" is corrected only when somebody asks while the route still leads to the version. A GET reports
success before the pointer is written. A deployment that was rolled back can be recorded as succeeded later
(`consistency-and-state.md:134`). A failed deployment's webhook can be sent twice.

*Configuration.* The last validation comes before the commit lock, so a deployment can activate a value replaced meanwhile
(`raced`). Commit and restoration compare and then replace (`commit-runtime-config.js:34-50`,
`restore-runtime-config.js:13-24`). With two deployments that bring variables, a restoration can therefore bring back the
values of another deployment that has failed and taken them back meanwhile (`hasty`; the proof of the withdrawal
failed at this step, and TLC then showed the behaviour). A stale restoration leaves the failed deployment's values
(`unrestored`). When
both leases are lost, two syncs reach a Worker in the other order than D1.

*Names and routing.* A deletion that ends between its batch and the publication leaves the hostname served
(`delete-site.js:92`). A policy change while a rename's cleanup is pending is published under the new hostname only; the
old one goes on with the old policy. `docs/operations/consistency-and-state.md:51-60` describes tiers of freshness that
the router, which reads KV only, does not distinguish. A capability from a router whose clock is ahead is refused until
the gateway catches up (`nbf`), in spite of the allowed skew.

*People.* `deleteCustomTeam` counts the team's sites and deletes later. Two admins of a team can remove each other, and the
last platform admin can go in a race (`identity-repository.js:58-73`). A merge of departments moves sites without a new
policy version. The auth cookie is not issued again, so a refresh never extends it (`session-record.js:29`).

*Past a commit.* A D1 batch that took effect, and whose answer or following reading is lost, is a plain failure to its handler in
three places. A transfer's read-back (`site-lifecycle.js:867-875`) throws outside every `try` of `transfer-owner.js` (59-78): the owner and the
policy version are committed, nothing is published or cleared, and the caller hears of no repair, although one reading later the
pointer is cleared so that "a transient authority read failure cannot keep serving the previous owner's policy"
(`transfer-owner.js:83-84`). A policy change (`site-policy.js:258-264`, `update-access-policy.js:48-57`) stays unpublished in the same way. A
deployment's variables (`commit-runtime-config.js:42-59`, `deployment-upload-stage.js:424-431`) stay in D1 although it failed. In each
case the next change of the kind makes up for it.

*Slack agent.* Whoever finds a session's key taken reads its run, and clears the key if that run is not recorded yet
(`agent-runs.js:231-239`); a handler that records its run in between works on without its key, and a third one takes the
session. An error in an answer that is returned without being awaited passes the handler's catch, so the run stays
running until its lease ends. The "busy" answer marks a delivery as processed while the first handler may still fail: the
message is lost. A crash between the creation of an item and the start of its worker leaves it unstarted. A stale session
object reopens a closed session. The stale-callback filter runs before the state machine's bridges, so a `pr_created`
callback for an item that is still queued is dropped with its pull request, and a merge is ignored or refused then. A
whole-row write can undo the user's trigger (`platform-dev.js:201-212`). Two repairs decided at once exceed the limit by one.

## 7. Plan

Done since the plan was first written: rollback and cleanup with proofs, recovery, site lifecycle, ownership, runtime
configuration, router and data, sign-in, CLI login, the Slack agent and platform requirements, the proofs about
Deployment, its record, variables and items, ownership, sign-in, CLI login, router, data and listings, hostnames, and the
agent's turns, the abstract site and the abstract lease that two models each implement, and the compositions. Left, in this order:

1. *Operations.* The transfer that a deployment carries; repair of a pointer; takeover of a v1 claim; secrets apart from
   variables; the cleanup of managed resources; the console's login codes.
2. *Stale reads of the Durable Object itself* in RoutePointer.

## 8. Not modelled, and why

Worker slots are retired: they are read and emptied by single guarded statements. Audit, webhooks and the console API are
reports, single statements and best-effort deliveries that no other part reads back. Legacy v1 (`apps/server`,
`apps/worker`) is only maintained, and v2 meets it through hostname claims. CLI, SDK, skill and console are clients: argument
handling and rendering. The shared packages are codecs, helpers and client libraries; the scripts and the manifests run the
platform, not the program. Of the Slack agent, the retired publishing jobs, questions about the repository, memories, the
model provider and the rendering of answers are left out: they keep no state that other parts depend on, or only
text. In the modelled parts, validation of inputs, formats, headers, the IP allow list and the office-net check are left out,
as decisions taken from one request alone. Together these are more than half of the repository's lines; most of the
rest that no definition maps to is parsing, rendering and SQL text around the modelled statements.
