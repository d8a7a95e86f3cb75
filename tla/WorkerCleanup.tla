--------------------------- MODULE WorkerCleanup ---------------------------
(***************************************************************************)
(* How the Workers of one site come and go: a deployment uploads one, a    *)
(* rollback returns to an earlier one, and cleanup tasks delete those that *)
(* were replaced (application/deployments/rollback-site.js,                *)
(* cleanup-previous-resources.js, application/governance and               *)
(* infrastructure/cleanup/deployment-cleanup-runtime.js).                  *)
(*                                                                         *)
(* Deployments and rollbacks exclude each other by the site's commit lock  *)
(* (SiteCommitLock.tla).  The cleanup does not take it: it marks the       *)
(* version as retiring and looks at the route again, while an activation   *)
(* is refused unless the version is marked active.                         *)
(***************************************************************************)
EXTENDS Integers, Sequences, FiniteSets

CONSTANTS
  Deployments,  \* requests to deploy; each uploads the Worker of its version
  Rollbacks,    \* requests to roll back
  Runners,      \* invocations that execute cleanup tasks: the cron and the admin
  Initial,      \* the version that is active to begin with
  None,
  MaxTasks,     \* bound on the number of tasks
  MaxStops,     \* bound on the number of runs that stop half-way
  Faults

Versions == Deployments \cup {Initial}
Requests == Deployments \cup Rollbacks

\* answer: a Worker is deleted and the provider's answer is lost; slow: a run
\* outlives CLEANUP_TASK_LOCK_SECONDS; early: an orphan is filed that a request
\* under way or a router's cache still refers to; d1: a statement of a run fails.
FaultKinds == {"answer", "slow", "early", "d1"}

ASSUME WorkerCleanupAssumption ==
  /\ Deployments \cap Rollbacks = {} /\ Requests \cap Runners = {} /\ Initial \notin Requests
  /\ None \notin Versions \cup Requests \cup Nat
  /\ MaxTasks \in Nat /\ MaxStops \in Nat
  /\ Faults \subseteq FaultKinds

VARIABLES
  route,      \* D1: the active version of the site's route
  offered,    \* D1: site_versions.artifact_availability, "none" without a row
  succeeded,  \* D1: the versions whose deployment succeeded
  tasks,      \* D1: deployment_resource_cleanup_tasks
  published,  \* KV: the version that the pointer leads to
  cached,     \* routers: versions that a cached snapshot may still lead to
  workers,    \* provider: the versions whose Worker exists
  lock,       \* the request that holds the site's commit lock
  pc,         \* where each request and each runner is
  base,       \* the route that a request read under the lock
  target,     \* the version that a request activates
  running,    \* the task that a runner executes
  stops,      \* how many runs stopped half-way
  outdated,   \* history: versions replaced while a task of an earlier replacement was open
  unrecorded, \* history: versions whose Worker a run deleted without recording that
  withdrawn   \* history: versions that were published and taken back by their deployment

d1 == <<route, offered, succeeded, tasks>>
edge == <<published, cached>>
requests == <<lock, base, target>>
history == <<outdated, unrecorded, withdrawn>>
vars == <<d1, edge, workers, requests, pc, running, stops, history>>

At(p, step) == pc[p] = step
Go(p, step) == pc' = [pc EXCEPT ![p] = step]

Open(t) == tasks[t].status # "succeeded"
OpenTasks(v) == {t \in DOMAIN tasks : tasks[t].ver = v /\ Open(t)}

\* A task, filed for a Worker and, when it has a row, for its version.
Task(v, due) ==
  [ver |-> v, known |-> offered[v] # "none", due |-> due, status |-> "pending", lease |-> "none"]

\* File the task, or nothing: every insertion is best effort.
File(v, due) == \/ Len(tasks) < MaxTasks /\ tasks' = Append(tasks, Task(v, due))
                \/ UNCHANGED tasks

----------------------------------------------------------------------------
(* Deployments and rollbacks.                                              *)

Upload(d) ==
  /\ At(d, "upload")
  /\ workers' = workers \cup {d}
  /\ Go(d, "version")
  /\ UNCHANGED <<d1, edge, requests, running, stops, history>>

CreateVersion(d) ==
  /\ At(d, "version")
  /\ \/ offered' = [offered EXCEPT ![d] = "active"] /\ Go(d, "lock")
     \/ UNCHANGED offered /\ Go(d, "discard")
  /\ UNCHANGED <<route, succeeded, tasks, edge, workers, requests, running, stops, history>>

\* validate-rollback-version.js
Validate(r, v) == offered[v] = "active" /\ v \in succeeded

Choose(r) ==
  /\ At(r, "choose")
  /\ \E v \in Versions :
       /\ Validate(r, v)
       /\ target' = [target EXCEPT ![r] = v]
  /\ Go(r, "lock")
  /\ UNCHANGED <<d1, edge, workers, lock, base, running, stops, history>>

\* The lock is taken and the route is read under it.
Prepare(q) ==
  /\ At(q, "lock")
  /\ lock = None
  /\ lock' = q
  /\ base' = [base EXCEPT ![q] = route]
  /\ Go(q, "activate")
  /\ UNCHANGED <<d1, edge, workers, target, running, stops, history>>

\* The UPDATE of site_routes requires artifact_availability = 'active'.
MayActivate(v) == offered[v] = "active"

\* A task for the version is open, or its replacement is about to file one.
Condemned(v) ==
  OpenTasks(v) # {} \/ \E d \in Deployments : base[d] = v /\ pc[d] \in {"complete", "enqueue"}

\* The route moves from one version to another.
Reroute(v, w) ==
  /\ route' = w
  /\ outdated' = IF Condemned(v) THEN outdated \cup {v} ELSE outdated

Activate(q) ==
  /\ At(q, "activate")
  /\ MayActivate(target[q])
  /\ Reroute(base[q], target[q])
  /\ Go(q, "publish")
  /\ UNCHANGED <<offered, succeeded, tasks, edge, workers, requests, running, stops,
                 unrecorded, withdrawn>>

\* The activation is refused, or the lock is not healthy, or a call failed.
ActivationFails(q) ==
  /\ At(q, "activate")
  /\ lock' = None
  /\ Go(q, IF q \in Deployments THEN "discard" ELSE "done")
  /\ UNCHANGED <<d1, edge, workers, base, target, running, stops, history>>

\* The pointer leads to a version, or to none.  Routers that cached it keep the
\* version that they know.
Lead(v) ==
  /\ published' = v
  /\ cached' = (cached \cup {published}) \ {v, None}

Release(q, step) == lock' = None /\ Go(q, step)

Publish(q) ==
  /\ At(q, "publish")
  /\ Lead(target[q])
  /\ Release(q, "complete")
  /\ UNCHANGED <<d1, workers, base, target, running, stops, history>>

\* commit-route-snapshot.js reports a failure: a call failed, its answer was lost,
\* or the lock was no longer healthy after the pointer had been written.
PublishFails(q) ==
  /\ At(q, "publish")
  /\ Lead(target[q]) \/ UNCHANGED edge
  /\ Go(q, "restore")
  /\ UNCHANGED <<d1, workers, requests, running, stops, history>>

\* The route is restored as it was, whatever has become of that version; or the
\* restoration fails, with or without effect.
Restore(q) ==
  /\ At(q, "restore")
  /\ \/ Reroute(target[q], base[q]) /\ Go(q, "rewrite")
     \/ Reroute(target[q], base[q]) /\ Go(q, "clear")
     \/ UNCHANGED <<route, outdated>> /\ Go(q, "clear")
  /\ UNCHANGED <<offered, succeeded, tasks, edge, workers, requests, running, stops,
                 unrecorded, withdrawn>>

\* A deployment goes on to its Worker; a rollback brought none.
WithdrawNext(q) ==
  IF q \in Deployments THEN Go(q, "withdraw") /\ UNCHANGED lock ELSE Release(q, "done")

\* writeRestored: the pointer leads to the restored version again.
Rewrite(q) ==
  /\ At(q, "rewrite")
  /\ Lead(base[q])
  /\ WithdrawNext(q)
  /\ withdrawn' = IF published = q THEN withdrawn \cup {q} ELSE withdrawn
  /\ UNCHANGED <<d1, workers, base, target, running, stops, outdated, unrecorded>>

\* Slip: nobody asks whether the restored version was published.
RewriteIsNotAsked(q) ==
  /\ At(q, "rewrite")
  /\ Lead(base[q]) \/ UNCHANGED edge
  /\ WithdrawNext(q)
  /\ UNCHANGED <<d1, workers, base, target, running, stops, history>>

\* writeRestored returns false, whether or not the pointer was written.
RewriteFails(q) ==
  /\ At(q, "rewrite")
  /\ Lead(base[q]) \/ UNCHANGED edge
  /\ Go(q, "clear")
  /\ UNCHANGED <<d1, workers, requests, running, stops, history>>

\* clearCurrent, best effort: the pointer is cleared, or stays.  The Worker is kept.
Clear(q) ==
  /\ At(q, "clear")
  /\ Lead(None) \/ UNCHANGED edge
  /\ Release(q, "done")
  /\ UNCHANGED <<d1, workers, base, target, running, stops, history>>

\* cleanupIfInactive, best effort: the new Worker goes at once, unless the
\* route leads to it.
Withdraw(d) ==
  /\ At(d, "withdraw")
  /\ workers' = workers \/ (route # d /\ workers' = workers \ {d})
  /\ Release(d, "done")
  /\ UNCHANGED <<d1, edge, base, target, running, stops, history>>

\* recover-activation-failure.js: the new Worker goes, best effort, after the
\* lock was released.
Discard(d) ==
  /\ At(d, "discard")
  /\ workers' \in {workers, workers \ {d}}
  /\ Go(d, "done")
  /\ UNCHANGED <<d1, edge, requests, running, stops, history>>

Complete(q) ==
  /\ At(q, "complete")
  /\ succeeded' = IF q \in Deployments THEN succeeded \cup {q} ELSE succeeded
  /\ Go(q, IF q \in Deployments /\ base[q] # target[q] THEN "enqueue" ELSE "done")
  /\ UNCHANGED <<route, offered, tasks, edge, workers, requests, running, stops, history>>

\* Slip: the task is due at once.
EnqueueDue(d) ==
  /\ At(d, "enqueue")
  /\ File(base[d], TRUE)
  /\ Go(d, "done")
  /\ UNCHANGED <<route, offered, succeeded, edge, workers, requests, running, stops, history>>

\* cleanup-previous-resources.js: due after the drain window.
Enqueue(d) ==
  /\ At(d, "enqueue")
  /\ File(base[d], FALSE)
  /\ Go(d, "done")
  /\ UNCHANGED <<route, offered, succeeded, edge, workers, requests, running, stops, history>>

----------------------------------------------------------------------------
(* Routers, time, and the filing of orphans.                               *)

CacheExpires(v) ==
  /\ v \in cached
  /\ cached' = cached \ {v}
  /\ UNCHANGED <<d1, published, workers, requests, pc, running, stops, history>>

\* The drain window is chosen longer than the routers' caches live: a version
\* that is replaced now is in none when the window of its task is over.
DrainWindowEnds(t) ==
  /\ ~tasks[t].due
  /\ tasks[t].ver \notin cached
  /\ tasks' = [tasks EXCEPT ![t].due = TRUE]
  /\ UNCHANGED <<route, offered, succeeded, edge, workers, requests, pc, running, stops, history>>

\* A request is under way that brought this Worker or may return to it.
InUse(v) == \E q \in Requests :
  /\ pc[q] \notin {"upload", "choose", "done"}
  /\ q = v \/ base[q] = v \/ target[q] = v

\* backfill-worker-orphans.js: the administrator files a Worker that no
\* active route and no open task refers to; the task is due at once.
Backfill(v) ==
  /\ v \in workers /\ route # v /\ OpenTasks(v) = {}
  /\ "early" \in Faults \/ (~InUse(v) /\ v \notin cached /\ published # v)
  /\ File(v, TRUE)
  /\ UNCHANGED <<route, offered, succeeded, edge, workers, requests, pc, running, stops, history>>

----------------------------------------------------------------------------
(* A runner executes a task.                                               *)

\* Slip: a running task is never taken up again.
CanRunOnce(t) == tasks[t].due /\ tasks[t].status \in {"pending", "failed"}

\* canRunDeploymentCleanupTask, and the condition of the UPDATE that locks it.
CanRun(t) ==
  /\ tasks[t].due
  /\ \/ tasks[t].status \in {"pending", "failed"}
     \/ tasks[t].status = "running" /\ tasks[t].lease = "over"

\* The task is read and the route looked at for the first time.
Pick(e) ==
  /\ At(e, "idle")
  /\ \E t \in DOMAIN tasks :
       /\ CanRun(t)
       /\ route # tasks[t].ver
       /\ running' = [running EXCEPT ![e] = t]
  /\ Go(e, "take")
  /\ UNCHANGED <<d1, edge, workers, requests, stops, history>>

Rest(e) == Go(e, "idle") /\ running' = [running EXCEPT ![e] = None]

\* Slip: the task is taken whatever its status is by now.
TakeAnyway(e) ==
  /\ At(e, "take")
  /\ tasks' = [tasks EXCEPT ![running[e]].status = "running", ![running[e]].lease = "held"]
  /\ Go(e, "retire")
  /\ UNCHANGED <<route, offered, succeeded, edge, workers, requests, running, stops, history>>

Take(e) ==
  /\ At(e, "take")
  /\ IF CanRun(running[e])
     THEN /\ tasks' = [tasks EXCEPT ![running[e]].status = "running", ![running[e]].lease = "held"]
          /\ Go(e, "retire") /\ UNCHANGED running
     ELSE Rest(e) /\ UNCHANGED tasks
  /\ UNCHANGED <<route, offered, succeeded, edge, workers, requests, stops, history>>

Mark(e, state) ==
  offered' = IF tasks[running[e]].known THEN [offered EXCEPT ![tasks[running[e]].ver] = state]
             ELSE offered

Retire(e) ==
  /\ At(e, "retire")
  /\ Mark(e, "retiring")
  /\ Go(e, "recheck")
  /\ UNCHANGED <<route, succeeded, tasks, edge, workers, requests, running, stops, history>>

\* Slip: the route is not looked at a second time.
RecheckNothing(e) ==
  /\ At(e, "recheck")
  /\ Go(e, "delete")
  /\ UNCHANGED <<d1, edge, workers, requests, running, stops, history>>

Recheck(e) ==
  /\ At(e, "recheck")
  /\ Go(e, IF route = tasks[running[e]].ver THEN "offer" ELSE "delete")
  /\ UNCHANGED <<d1, edge, workers, requests, running, stops, history>>

Unrecorded(e) == unrecorded' = unrecorded \cup {tasks[running[e]].ver}

\* A Worker that is gone already counts as deleted (404).
DeleteWorker(e) ==
  /\ At(e, "delete")
  /\ \/ workers' = workers \ {tasks[running[e]].ver} /\ Go(e, "retired") /\ UNCHANGED unrecorded
     \/ Go(e, "offer") /\ UNCHANGED <<workers, unrecorded>>
     \/ /\ "answer" \in Faults
        /\ workers' = workers \ {tasks[running[e]].ver}
        /\ Unrecorded(e)
        /\ Go(e, "offer")
  /\ UNCHANGED <<d1, edge, requests, running, stops, outdated, withdrawn>>

\* The version is offered again, and the task has failed.
Offer(e) ==
  /\ At(e, "offer")
  /\ Mark(e, "active") \/ ("d1" \in Faults /\ UNCHANGED offered)
  /\ Go(e, "fail")
  /\ UNCHANGED <<route, succeeded, tasks, edge, workers, requests, running, stops, history>>

MarkRetired(e) ==
  /\ At(e, "retired")
  /\ \/ Mark(e, "retired") /\ Go(e, "succeed") /\ UNCHANGED unrecorded
     \/ "d1" \in Faults /\ Go(e, "fail") /\ Unrecorded(e) /\ UNCHANGED offered
  /\ UNCHANGED <<route, succeeded, tasks, edge, workers, requests, running, stops,
                 outdated, withdrawn>>

\* finishDeploymentResourceCleanupTask does not ask who runs the task now.
Close(e, result) ==
  tasks' = [tasks EXCEPT ![running[e]].status = result, ![running[e]].lease = "none"]

Succeed(e) ==
  /\ At(e, "succeed")
  /\ \/ Close(e, "succeeded") /\ Rest(e) /\ UNCHANGED unrecorded
     \/ "d1" \in Faults /\ Go(e, "fail") /\ Unrecorded(e) /\ UNCHANGED <<tasks, running>>
  /\ UNCHANGED <<route, offered, succeeded, edge, workers, requests, stops, outdated, withdrawn>>

Fail(e) ==
  /\ At(e, "fail")
  /\ Close(e, "failed") \/ ("d1" \in Faults /\ UNCHANGED tasks)
  /\ Rest(e)
  /\ UNCHANGED <<route, offered, succeeded, edge, workers, requests, stops, history>>

\* A statement of the run fails before the Worker is deleted.
StatementFails(e) ==
  /\ "d1" \in Faults
  /\ pc[e] \in {"retire", "recheck"}
  /\ Go(e, IF At(e, "retire") THEN "fail" ELSE "offer")
  /\ UNCHANGED <<d1, edge, workers, requests, running, stops, history>>

\* The invocation ends without a trace.
Stop(e) ==
  /\ ~At(e, "idle") /\ stops < MaxStops
  /\ stops' = stops + 1
  /\ IF pc[e] \in {"retired", "succeed"} THEN Unrecorded(e) ELSE UNCHANGED unrecorded
  /\ Rest(e)
  /\ UNCHANGED <<d1, edge, workers, requests, outdated, withdrawn>>

Executing(t) == \E e \in Runners : running[e] = t /\ ~At(e, "take")

LeaseEnds(t) ==
  /\ tasks[t].status = "running" /\ tasks[t].lease = "held"
  /\ "slow" \in Faults \/ ~Executing(t)
  /\ tasks' = [tasks EXCEPT ![t].lease = "over"]
  /\ UNCHANGED <<route, offered, succeeded, edge, workers, requests, pc, running, stops, history>>

----------------------------------------------------------------------------
Init ==
  /\ route = Initial /\ published = Initial /\ cached = {}
  /\ offered = [v \in Versions |-> IF v = Initial THEN "active" ELSE "none"]
  /\ succeeded = {Initial} /\ workers = {Initial}
  /\ tasks = << >>
  /\ lock = None
  /\ base = [q \in Requests |-> None]
  /\ target = [q \in Requests |-> IF q \in Deployments THEN q ELSE None]
  /\ running = [e \in Runners |-> None]
  /\ pc = [p \in Requests \cup Runners |->
             IF p \in Deployments THEN "upload" ELSE IF p \in Rollbacks THEN "choose" ELSE "idle"]
  /\ stops = 0 /\ outdated = {} /\ unrecorded = {} /\ withdrawn = {}

Request(q) ==
  \/ Prepare(q) \/ Activate(q) \/ ActivationFails(q) \/ Publish(q) \/ PublishFails(q)
  \/ Restore(q) \/ Rewrite(q) \/ RewriteFails(q) \/ Clear(q) \/ Complete(q)
Deploy(d) == Upload(d) \/ CreateVersion(d) \/ Withdraw(d) \/ Discard(d) \/ Enqueue(d)

Execute(e) ==
  \/ Take(e) \/ Retire(e) \/ Recheck(e) \/ DeleteWorker(e) \/ Offer(e) \/ MarkRetired(e)
  \/ Succeed(e) \/ Fail(e)

Next ==
  \/ \E q \in Requests : Request(q)
  \/ \E d \in Deployments : Deploy(d)
  \/ \E r \in Rollbacks : Choose(r)
  \/ \E v \in Versions : CacheExpires(v) \/ Backfill(v)
  \/ \E t \in DOMAIN tasks : DrainWindowEnds(t) \/ LeaseEnds(t)
  \/ \E e \in Runners : Pick(e) \/ Execute(e) \/ StatementFails(e) \/ Stop(e)

Spec == Init /\ [][Next]_vars

\* The cron comes back, an invocation goes on until it stops, and time passes.
FairSpec ==
  /\ Spec
  /\ \A e \in Runners : WF_vars(Pick(e)) /\ WF_vars(Execute(e))
  /\ \A t \in 1 .. MaxTasks : WF_vars(t \in DOMAIN tasks /\ LeaseEnds(t))

----------------------------------------------------------------------------
(* Properties                                                              *)

Records == [ver : Versions, known : BOOLEAN, due : BOOLEAN,
            status : {"pending", "running", "failed", "succeeded"},
            lease : {"none", "held", "over"}]

TypeOK ==
  /\ route \in Versions /\ published \in Versions \cup {None} /\ cached \subseteq Versions
  /\ offered \in [Versions -> {"none", "active", "retiring", "retired"}]
  /\ succeeded \subseteq Versions /\ workers \subseteq Versions
  /\ outdated \cup unrecorded \subseteq Versions /\ withdrawn \subseteq Deployments
  /\ tasks \in Seq(Records)
  /\ Len(tasks) <= MaxTasks
  /\ lock \in Requests \cup {None}
  /\ base \in [Requests -> Versions \cup {None}] /\ target \in [Requests -> Versions \cup {None}]
  /\ running \in [Runners -> DOMAIN tasks \cup {None}]
  /\ stops \in 0 .. MaxStops

\* Whatever cleanup runs do beside deployments and rollbacks, the version that
\* D1 routes to keeps its Worker.  Two kinds of versions are out of this: those
\* replaced while a task of an earlier replacement was open, and those that were offered
\* again because a run deleted the Worker and could not record it.
ActiveWorkerExists == route \in workers \cup outdated \cup unrecorded

\* A version that a rollback would accept has its Worker, with the same exceptions.
OfferedWorkerExists ==
  \A v \in succeeded : offered[v] = "active" => v \in workers \cup outdated \cup unrecorded

\* Both: neither a visitor nor a rollback is led to a Worker that was deleted.
VersionsKeepTheirWorkers == ActiveWorkerExists /\ OfferedWorkerExists

\* The Worker of a replaced version is deleted only when no router's cache and
\* no pointer leads to it any more, with the same exceptions; and a deployment
\* whose publication failed leaves no pointer to the Worker that it withdraws.  A
\* cache may have it from a publication that took effect before it failed.
DrainedBeforeDeletion ==
  /\ published # None => published \in workers \cup outdated \cup unrecorded
  /\ cached \subseteq workers \cup outdated \cup unrecorded \cup withdrawn

\* No two invocations are between taking a task and finishing it.
OneRunAtATime ==
  \A e, f \in Runners :
    e # f /\ running[e] # None /\ running[e] = running[f] => At(e, "take") \/ At(f, "take")

Status(t) == IF t \in DOMAIN tasks THEN tasks[t].status ELSE "none"

\* A task whose run stopped is taken up again: none stays running, unless the
\* route has come back to its version.
NoTaskIsStranded ==
  \A t \in 1 .. MaxTasks :
    Status(t) = "running" ~> Status(t) # "running" \/ route = tasks[t].ver

\* The Workers of the site, as SiteWorkers.tla has them.
Site == INSTANCE SiteWorkers WITH
  expected <- {d \in Deployments : At(d, "upload")},
  kept <- workers,
  active <- route,
  shown <- (cached \cup {published}) \ {None}

\* Deployments, rollbacks, and the cleanup that runs beside them implement the
\* site, as long as no version is of the kinds excepted above: a run or a failed
\* deployment deletes no Worker that D1, the pointer or a cache leads to, no
\* request activates a version whose Worker is gone, and none is uploaded again.
CleanupKeepsPromises ==
  /\ Site!SiteInit
  /\ [][outdated' \cup unrecorded' \cup withdrawn' = {} => [Site!SiteNext]_(Site!siteVars)]_vars
=============================================================================
