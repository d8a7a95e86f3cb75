----------------------------- MODULE Deployment -----------------------------
(***************************************************************************)
(* Deployments and access policy changes of one site, under way at the     *)
(* same time: upload, commit in D1 under the site's commit lock,           *)
(* publication in KV, compensation, and the terminal state                 *)
(* (apps/pages-api/src/transport/public/deploy-site-handler.js from the    *)
(* verified upload on, and application/sites/update-access-policy.js).     *)
(*                                                                         *)
(* The commit lock is taken from SiteCommitLock.tla: it is lost to another *)
(* session only after the callback's signal aborted (both modules          *)
(* implement CommitLease.tla), and guarded batches need it                 *)
(* (CommitsAreSerial).  The hostname's pointer is SitePointer.tla.         *)
(***************************************************************************)
EXTENDS SitePointer, FiniteSets

CONSTANTS
  Deployments,     \* requests to deploy; each uploads a version and its Worker
  PolicyChanges,   \* requests to change the access policy
  Initial,         \* the version that is active to begin with
  Faults           \* which faults happen, besides failing KV and DO calls

Sessions == Deployments \cup PolicyChanges
Versions == Deployments \cup {Initial}

\* crash: a request stops; timeout: a callback outlives SITE_COMMIT_TIMEOUT_MS;
\* renewal: a lease renewal fails; restore: the D1 calls of a compensation
\* fail; status: the deployment's terminal state cannot be written; answer: an
\* activation takes effect and D1's answer is lost; readback: a change of the
\* policy takes effect, and its answer is lost or the route cannot be read after it.
FaultKinds == {"crash", "timeout", "renewal", "restore", "status", "answer", "readback"}

ASSUME DeploymentAssumption ==
  /\ Deployments \cap PolicyChanges = {}
  /\ Initial \notin Sessions
  /\ None \notin Sessions
  /\ Faults \subseteq FaultKinds
  /\ \A r \in Routes : r.gen \in Nat /\ r.pol \in Nat /\ r.ver \in Versions

VARIABLES
  row,             \* D1: the site's row of site_routes
  lock,            \* D1: the holder of the commit lock, and whether its lease ran out
  status,          \* D1: the status of each deployment
  workers,         \* provider: the versions whose Worker exists
  pc,              \* where each session is
  base,            \* the row a session read under the lock
  mine,            \* the row it committed
  seen,            \* the row it read last
  outcome,         \* what its callback returned
  aborted,         \* has its signal aborted?
  lost,            \* did a renewal of its lease fail?
  repair           \* sessions that reported that a repair is required

pointer == <<published, durable>>
signals == <<aborted, lost>>
memory == <<base, mine, seen, outcome>>
vars == <<pointer, row, lock, status, workers, pc, memory, signals, repair>>

At(s, step) == pc[s] = step
Go(s, step) == pc' = [pc EXCEPT ![s] = step]

\* The callback ends, and withSiteCommitLock goes on with what it returned.
Leave(s, result) == Go(s, "leave") /\ outcome' = [outcome EXCEPT ![s] = result]

Outside == {"upload", "version", "acquire", "leave", "failing", "fail", "complete", "done", "crashed"}
InCallback(s) == pc[s] \notin Outside

----------------------------------------------------------------------------
(* The commit lock.                                                        *)

\* Slip: the lock is taken over whether its lease ran out or not.
SeizeLock(s, step) ==
  /\ At(s, "acquire")
  /\ lock' = [holder |-> s, expired |-> FALSE]
  /\ Go(s, step)
  /\ UNCHANGED <<pointer, row, status, workers, memory, signals, repair>>

AcquireLock(s, step) ==
  /\ At(s, "acquire")
  /\ lock.holder = None \/ lock.expired
  /\ lock' = [holder |-> s, expired |-> FALSE]
  /\ Go(s, step)
  /\ UNCHANGED <<pointer, row, status, workers, memory, signals, repair>>

\* Slip: the polling has no deadline.
PollForever(s, step) ==
  /\ At(s, "acquire")
  /\ lock.holder # None /\ ~lock.expired
  /\ UNCHANGED vars

LockRefused(s, step) ==
  /\ At(s, "acquire")
  /\ lock.holder # None /\ ~lock.expired
  /\ Go(s, step)
  /\ UNCHANGED <<pointer, row, lock, status, workers, memory, signals, repair>>

\* The batch's time was read before the statement runs: just after the lease
\* ran out the guard can still hold, once another session took over never.
GuardHolds(s) == lock.holder = s
GuardFails(s) == lock.holder # s \/ lock.expired

Timeout(s) ==
  /\ "timeout" \in Faults
  /\ InCallback(s) /\ ~aborted[s]
  /\ aborted' = [aborted EXCEPT ![s] = TRUE]
  /\ UNCHANGED <<pointer, row, lock, status, workers, pc, memory, lost, repair>>

\* A renewal in flight when the callback returns is waited for.
RenewalFails(s) ==
  /\ "renewal" \in Faults
  /\ InCallback(s) \/ At(s, "leave")
  /\ ~lost[s]
  /\ aborted' = [aborted EXCEPT ![s] = TRUE]
  /\ lost' = [lost EXCEPT ![s] = TRUE]
  /\ UNCHANGED <<pointer, row, lock, status, workers, pc, memory, repair>>

LeaseRunsOut(s) ==
  /\ lock = [holder |-> s, expired |-> FALSE]
  /\ ~InCallback(s) \/ aborted[s]
  /\ lock' = [lock EXCEPT !.expired = TRUE]
  /\ UNCHANGED <<pointer, row, status, workers, pc, memory, signals, repair>>

\* releaseSiteCommitLock, best effort; then a failed renewal is thrown even
\* though the callback returned.
ReleaseLock(s, next) ==
  /\ At(s, "leave")
  /\ lock' \in IF lock.holder = s THEN {lock, [holder |-> None, expired |-> FALSE]} ELSE {lock}
  /\ Go(s, next)
  /\ UNCHANGED <<pointer, row, status, workers, memory, signals, repair>>

Crash(s) ==
  /\ "crash" \in Faults
  /\ pc[s] \notin {"done", "crashed"}
  /\ Go(s, "crashed")
  /\ UNCHANGED <<pointer, row, lock, status, workers, memory, signals, repair>>

----------------------------------------------------------------------------
(* A deployment up to its publication.                                     *)

Upload(d) ==
  /\ At(d, "upload")
  /\ workers' = workers \cup {d}
  /\ Go(d, "version")
  /\ UNCHANGED <<pointer, row, lock, status, memory, signals, repair>>

\* createSiteVersion and the status updates around it.
CreateVersion(d) ==
  /\ At(d, "version")
  /\ \E next \in {"acquire", "failing"} : Go(d, next)
  /\ UNCHANGED <<pointer, row, lock, status, workers, memory, signals, repair>>

\* The latest row is read under the lock and becomes the expected row.
PrepareActivation(d) ==
  /\ At(d, "prepare")
  /\ base' = [base EXCEPT ![d] = row]
  /\ \/ Go(d, "health") /\ UNCHANGED outcome
     \/ Leave(d, "error")
  /\ UNCHANGED <<pointer, row, lock, status, workers, mine, seen, signals, repair>>

\* assertHealthy, just before the batch is sent.
CheckHealth(d, ok, failed) ==
  IF aborted[d] THEN failed ELSE Go(d, ok) /\ UNCHANGED outcome

CheckBeforeBatch(d) ==
  /\ At(d, "health")
  /\ CheckHealth(d, "activate", Leave(d, "error"))
  /\ UNCHANGED <<pointer, row, lock, status, workers, base, mine, seen, signals, repair>>

\* commitDeploymentActivation: compare-and-set on the expected row.
ActivatedRow(d) == [gen |-> base[d].gen + 1, pol |-> base[d].pol, ver |-> d]

CommitActivation(d) ==
  /\ At(d, "activate")
  /\ GuardHolds(d)
  /\ row = base[d]
  /\ row' = ActivatedRow(d)
  /\ mine' = [mine EXCEPT ![d] = ActivatedRow(d)]
  /\ Go(d, "publish")
  /\ UNCHANGED <<pointer, lock, status, workers, base, seen, outcome, signals, repair>>

\* The batch took effect, and to the handler it failed: it is an error like any
\* other, told apart for Converged alone.
ActivationUnanswered(d) ==
  /\ "answer" \in Faults
  /\ At(d, "activate")
  /\ GuardHolds(d)
  /\ row = base[d]
  /\ row' = ActivatedRow(d)
  /\ mine' = [mine EXCEPT ![d] = ActivatedRow(d)]
  /\ Leave(d, "unanswered")
  /\ UNCHANGED <<pointer, lock, status, workers, base, seen, signals, repair>>

\* ROUTE_ACTIVATION_CONFLICT returns null, a lost lease throws.
ActivationRefused(d) ==
  /\ At(d, "activate")
  /\ \/ GuardFails(d)
     \/ row # base[d]
  /\ \E result \in {"null", "error"} :
       /\ result = "error" => GuardFails(d)
       /\ Leave(d, result)
  /\ UNCHANGED <<pointer, row, lock, status, workers, base, mine, seen, signals, repair>>

\* commit-route-snapshot.js: the signal is checked before and after the call.
CheckBeforePublish(d) ==
  /\ At(d, "publish")
  /\ CheckHealth(d, "write", Go(d, "restore") /\ UNCHANGED outcome)
  /\ UNCHANGED <<pointer, row, lock, status, workers, base, mine, seen, signals, repair>>

Publish(d) ==
  /\ At(d, "write")
  /\ \/ WriteDone(mine[d]) /\ Go(d, "published")
     \/ WriteFailed(mine[d]) /\ Go(d, "restore")
  /\ UNCHANGED <<row, lock, status, workers, memory, signals, repair>>

CheckAfterPublish(d) ==
  /\ At(d, "published")
  /\ IF aborted[d] THEN Go(d, "restore") /\ UNCHANGED outcome ELSE Leave(d, "route")
  /\ UNCHANGED <<pointer, row, lock, status, workers, base, mine, seen, signals, repair>>

----------------------------------------------------------------------------
(* The compensation of a failed publication: recover-route-snapshot.js.    *)

\* restoreSiteRouteIfCurrent compares the version and the generation of the
\* row it reads, not the policy version ...
IsStillMine(d) == row.ver = mine[d].ver /\ row.gen = mine[d].gen

ReadForRestore(d) ==
  /\ At(d, "restore")
  /\ seen' = [seen EXCEPT ![d] = row]
  /\ Go(d, IF IsStillMine(d) THEN "overwrite" ELSE "rewrite")
  /\ UNCHANGED <<pointer, row, lock, status, workers, base, mine, outcome, signals, repair>>

Newest(a, b) == IF a > b THEN a ELSE b

\* ... and then overwrites whatever the row is by then: routeRestoredAsNewCommit
\* of the row it had read.
\* Slip: the restored row keeps the newest generation.
RestoredInPlace(d) ==
  [gen |-> Newest(base[d].gen, seen[d].gen), pol |-> seen[d].pol, ver |-> base[d].ver]

RestoredRow(d) ==
  [gen |-> Newest(base[d].gen, seen[d].gen) + 1, pol |-> seen[d].pol, ver |-> base[d].ver]

OverwriteRow(d) ==
  /\ At(d, "overwrite")
  /\ row' = RestoredRow(d)
  /\ Go(d, "reread")
  /\ UNCHANGED <<pointer, lock, status, workers, memory, signals, repair>>

Reread(d) ==
  /\ At(d, "reread")
  /\ seen' = [seen EXCEPT ![d] = row]
  /\ Go(d, "rewrite")
  /\ UNCHANGED <<pointer, row, lock, status, workers, base, mine, outcome, signals, repair>>

\* One of the D1 calls fails: there is no restored row, and the pointer of
\* the failed row is cleared.
RestoreFails(d) ==
  /\ "restore" \in Faults
  /\ pc[d] \in {"restore", "overwrite", "reread"}
  /\ seen' = [seen EXCEPT ![d] = mine[d]]
  /\ Go(d, "clear")
  /\ UNCHANGED <<pointer, row, lock, status, workers, base, mine, outcome, signals, repair>>

\* Slip: a failure to publish the restored row is ignored.
PublishRestoredBestEffort(d) ==
  /\ At(d, "rewrite")
  /\ WriteDone(seen[d]) \/ WriteFailed(seen[d])
  /\ Go(d, "compare")
  /\ UNCHANGED <<row, lock, status, workers, memory, signals, repair>>

\* writeRestored: the snapshot of the restored row, or of the row that
\* another session committed meanwhile.
PublishRestored(d) ==
  /\ At(d, "rewrite")
  /\ \/ WriteDone(seen[d]) /\ Go(d, "compare")
     \/ WriteFailed(seen[d]) /\ Go(d, "clear")
  /\ UNCHANGED <<row, lock, status, workers, memory, signals, repair>>

\* Slip: nobody hears of it.
ClearSilently(d) ==
  /\ At(d, "clear")
  /\ ClearDone(seen[d]) \/ ClearFailed(seen[d])
  /\ Go(d, "record")
  /\ UNCHANGED <<row, lock, status, workers, memory, signals, repair>>

\* clearCurrent, and the report that a repair is required.
ClearAndReport(d) ==
  /\ At(d, "clear")
  /\ ClearDone(seen[d]) \/ ClearFailed(seen[d])
  /\ repair' = repair \cup {d}
  /\ Go(d, "record")
  /\ UNCHANGED <<row, lock, status, workers, memory, signals>>

\* cleanupIfInactive reads the row before it deletes the Worker.
CompareWorker(d) ==
  /\ At(d, "compare")
  /\ Go(d, IF row.ver = d THEN "record" ELSE "delete")
  /\ UNCHANGED <<pointer, row, lock, status, workers, memory, signals, repair>>

DeleteIfInactive(d) ==
  /\ At(d, "delete")
  /\ workers' \in {workers, workers \ {d}}
  /\ Go(d, "record")
  /\ UNCHANGED <<pointer, row, lock, status, memory, signals, repair>>

\* finalizeFailedDeployment inside the callback.
RecordFailure(d) ==
  /\ At(d, "record")
  /\ \/ status' = [status EXCEPT ![d] = "failed"] /\ Leave(d, "handled")
     \/ "status" \in Faults /\ UNCHANGED status /\ Leave(d, "error")
  /\ UNCHANGED <<pointer, row, lock, workers, base, mine, seen, signals, repair>>

----------------------------------------------------------------------------
(* The end of a deployment.                                                *)

Acquire(d) == AcquireLock(d, "prepare") \/ LockRefused(d, "failing")

\* Slip: a failure that the callback has dealt with is dealt with again.
ReleaseAndCleanup(d) ==
  ReleaseLock(d, IF outcome[d] = "route" /\ ~lost[d] THEN "complete" ELSE "failing")

Release(d) ==
  ReleaseLock(d, IF lost[d] THEN "failing"
                 ELSE IF outcome[d] = "route" THEN "complete"
                 ELSE IF outcome[d] = "handled" THEN "done"
                 ELSE "failing")

\* recover-activation-failure.js: the uploaded Worker is deleted.
CleanupWorker(d) ==
  /\ At(d, "failing")
  /\ workers' \in {workers, workers \ {d}}
  /\ Go(d, "fail")
  /\ UNCHANGED <<pointer, row, lock, status, memory, signals, repair>>

\* A status that cannot be written leaves the deployment as it was.
Finish(d, step, result) ==
  /\ At(d, step)
  /\ \/ status' = [status EXCEPT ![d] = result]
     \/ "status" \in Faults /\ UNCHANGED status
  /\ Go(d, "done")
  /\ UNCHANGED <<pointer, row, lock, workers, memory, signals, repair>>

Fail(d) == Finish(d, "fail", "failed")
Complete(d) == Finish(d, "complete", "succeeded")

----------------------------------------------------------------------------
(* A change of the access policy.                                          *)

ReadPolicy(p) ==
  /\ At(p, "read")
  /\ base' = [base EXCEPT ![p] = row]
  /\ Go(p, "change")
  /\ UNCHANGED <<pointer, row, lock, status, workers, mine, seen, outcome, signals, repair>>

\* updateSiteAccessPolicy: the same compare-and-set, one policy version further.
CommitPolicy(p, step, next) ==
  /\ At(p, step)
  /\ GuardHolds(p)
  /\ row = base[p]
  /\ row' = [row EXCEPT !.pol = @ + 1]
  /\ mine' = [mine EXCEPT ![p] = row']
  /\ Go(p, next)
  /\ UNCHANGED <<pointer, lock, status, workers, base, seen, outcome, signals, repair>>

\* updateSiteAccessPolicy throws past its batch.  Nobody catches that of a
\* change: what is committed is neither published nor compensated, and no repair
\* is reported.  A compensation that throws is reported, whatever it has done.
PolicyUnanswered(p) ==
  /\ "readback" \in Faults
  /\ pc[p] \in {"change", "rechange"}
  /\ GuardHolds(p)
  /\ row = base[p]
  /\ row' = [row EXCEPT !.pol = @ + 1]
  /\ mine' = [mine EXCEPT ![p] = row']
  /\ repair' = IF At(p, "rechange") THEN repair \cup {p} ELSE repair
  /\ Leave(p, "unanswered")
  /\ UNCHANGED <<pointer, lock, status, workers, base, seen, signals>>

\* A change that is refused, or that D1 fails, has done nothing; a compensation
\* leaves the committed policy unpublished.
PolicyRefused(p) ==
  /\ pc[p] \in {"change", "rechange"}
  /\ repair' = IF At(p, "rechange") THEN repair \cup {p} ELSE repair
  /\ Leave(p, "error")
  /\ UNCHANGED <<pointer, row, lock, status, workers, base, mine, seen, signals>>

\* refreshActive
PublishPolicy(p) ==
  /\ At(p, "publish")
  /\ \/ WriteDone(mine[p]) /\ Leave(p, "route")
     \/ WriteFailed(mine[p]) /\ Go(p, "compensate") /\ UNCHANGED outcome
  /\ UNCHANGED <<row, lock, status, workers, base, mine, seen, signals, repair>>

\* compensatePolicy: the old policy becomes one more version of the row, unless
\* the row is another by now or cannot be read.
ReadForCompensation(p) ==
  /\ At(p, "compensate")
  /\ base' = [base EXCEPT ![p] = row]
  /\ \/ row = mine[p] /\ Go(p, "rechange") /\ UNCHANGED <<outcome, repair>>
     \/ Leave(p, "error") /\ repair' = repair \cup {p}
  /\ UNCHANGED <<pointer, row, lock, status, workers, mine, seen, signals>>

\* Slip: only the first publication is reported when it fails.
PublishCompensationSilently(p) ==
  /\ At(p, "republish")
  /\ WriteDone(mine[p]) \/ WriteFailed(mine[p])
  /\ Leave(p, "error")
  /\ UNCHANGED <<row, lock, status, workers, base, mine, seen, signals, repair>>

PublishCompensation(p) ==
  /\ At(p, "republish")
  /\ \/ WriteDone(mine[p]) /\ UNCHANGED repair
     \/ WriteFailed(mine[p]) /\ repair' = repair \cup {p}
  /\ Leave(p, "error")
  /\ UNCHANGED <<row, lock, status, workers, base, mine, seen, signals>>

----------------------------------------------------------------------------
FirstRow == [gen |-> 1, pol |-> 1, ver |-> Initial]

Init ==
  /\ row = FirstRow
  /\ published = FirstRow
  /\ durable = DurableOf(FirstRow, "pointer")
  /\ lock = [holder |-> None, expired |-> FALSE]
  /\ status = [d \in Deployments |-> "running"]
  /\ workers = {Initial}
  /\ pc = [s \in Sessions |-> IF s \in Deployments THEN "upload" ELSE "acquire"]
  /\ base = [s \in Sessions |-> None]
  /\ mine = [s \in Sessions |-> None]
  /\ seen = [s \in Sessions |-> None]
  /\ outcome = [s \in Sessions |-> "none"]
  /\ aborted = [s \in Sessions |-> FALSE]
  /\ lost = [s \in Sessions |-> FALSE]
  /\ repair = {}

Activate(d) == Upload(d) \/ CreateVersion(d) \/ Acquire(d) \/ PrepareActivation(d)
  \/ CheckBeforeBatch(d) \/ CommitActivation(d) \/ ActivationRefused(d)
  \/ CheckBeforePublish(d) \/ Publish(d) \/ CheckAfterPublish(d)

Compensate(d) == ReadForRestore(d) \/ OverwriteRow(d) \/ Reread(d) \/ PublishRestored(d)
  \/ ClearAndReport(d) \/ CompareWorker(d) \/ DeleteIfInactive(d) \/ RecordFailure(d)

End(d) == Release(d) \/ CleanupWorker(d) \/ Fail(d) \/ Complete(d)

Deploy(d) == Activate(d) \/ Compensate(d) \/ End(d)

ChangePolicy(p) ==
  \/ AcquireLock(p, "read") \/ LockRefused(p, "done")
  \/ ReadPolicy(p) \/ CommitPolicy(p, "change", "publish") \/ PolicyUnanswered(p)
  \/ PolicyRefused(p)
  \/ PublishPolicy(p) \/ ReadForCompensation(p)
  \/ CommitPolicy(p, "rechange", "republish") \/ PublishCompensation(p)
  \/ ReleaseLock(p, "done")

Fault(s) == Timeout(s) \/ RenewalFails(s) \/ LeaseRunsOut(s) \/ Crash(s)

Next ==
  \/ \E d \in Deployments : Deploy(d) \/ RestoreFails(d) \/ ActivationUnanswered(d)
  \/ \E p \in PolicyChanges : ChangePolicy(p)
  \/ \E s \in Sessions : Fault(s)

Spec == Init /\ [][Next]_vars

\* A request that does not stop makes its next call.
FairSpec ==
  /\ Spec
  /\ \A d \in Deployments : WF_vars(Deploy(d))
  /\ \A p \in PolicyChanges : WF_vars(ChangePolicy(p))

----------------------------------------------------------------------------
(* Properties                                                              *)

SessionSteps == Outside \cup
  {"prepare", "health", "activate", "publish", "write", "published", "restore",
   "overwrite", "reread", "rewrite", "clear", "compare", "delete", "record",
   "read", "change", "compensate", "rechange", "republish"}

TypeOK ==
  /\ row \in Routes
  /\ published \in Routes \cup {None}
  /\ durable \in Durables \cup {None}
  /\ lock \in [holder : Sessions \cup {None}, expired : BOOLEAN]
  /\ status \in [Deployments -> {"running", "failed", "succeeded"}]
  /\ workers \subseteq Versions
  /\ pc \in [Sessions -> SessionSteps]
  /\ base \in [Sessions -> Routes \cup {None}]
  /\ mine \in [Sessions -> Routes \cup {None}]
  /\ seen \in [Sessions -> Routes \cup {None}]
  /\ outcome \in [Sessions -> {"none", "route", "null", "error", "handled", "unanswered"}]
  /\ aborted \in [Sessions -> BOOLEAN]
  /\ lost \in [Sessions -> BOOLEAN]
  /\ repair \subseteq Sessions

\* The Worker of the version that D1 says is active exists: compensation and
\* cleanup delete the Worker of a version only while it is not active, and no
\* compensation goes back to a version whose Worker is gone.
ActiveWorkerExists == row.ver \in workers

\* The same for the version that the routers dispatch to.
PublishedWorkerExists == published # None => published.ver \in workers

\* A deployment that is recorded as failed while its version is the active
\* one has reported that a repair is required.
FailedActiveIsReported ==
  \A d \in Deployments : status[d] = "failed" /\ row.ver = d => d \in repair

\* A committed row is replaced only by a session that read this very row, or
\* by the compensation of the deployment that committed its version: nobody
\* overwrites the success of another.
Replaced(s) ==
  \/ At(s, "activate") /\ base[s] = row
  \/ pc[s] \in {"change", "rechange"} /\ base[s] = row
  \/ At(s, "overwrite") /\ row.ver = s

SuccessIsKept == [][row' # row => \E s \in Sessions : Replaced(s)]_vars

\* The snapshot of one (routeGeneration, policyVersion) is never rewritten
\* with other content.
SameTuple(a, b) == a.gen = b.gen /\ a.pol = b.pol

SnapshotsAreImmutable ==
  [][published # None /\ published' # None /\ SameTuple(published, published')
       => published' = published]_vars

\* When no request is under way and none stopped or reported a repair, the
\* routers see the row of D1, with one exception: the row is that of a request
\* whose commit took effect and failed for its handler, which told its caller of a
\* failure and nobody of a repair.  Any later change of the site makes up for it.
Converged ==
  (\A s \in Sessions : pc[s] \in {"upload", "version", "acquire", "done"}) /\ repair = {}
    => \/ published = row
       \/ \E s \in Sessions : outcome[s] = "unanswered" /\ mine[s] = row

\* Once the publication of a deployment's row is acknowledged, the commit
\* point that routers see, the deployment does not roll the row back.
CommitPointIsFinal ==
  [][\A d \in Deployments : At(d, "published") => ~At(d, "restore")']_vars

\* Every request comes to an end, whatever fails on the way.
EveryRequestEnds == \A s \in Sessions : <>(pc[s] = "done")

\* How far a request has come.
Progress(step) ==
  CASE step = "upload" -> 1      [] step = "version" -> 2    [] step = "acquire" -> 3
    [] step = "prepare" -> 4     [] step = "read" -> 4       [] step = "health" -> 5
    [] step = "change" -> 5      [] step = "activate" -> 6   [] step = "publish" -> 7
    [] step = "write" -> 8       [] step = "compensate" -> 8 [] step = "published" -> 9
    [] step = "rechange" -> 9    [] step = "restore" -> 10   [] step = "republish" -> 10
    [] step = "overwrite" -> 11  [] step = "reread" -> 12    [] step = "rewrite" -> 13
    [] step = "clear" -> 14      [] step = "compare" -> 15   [] step = "delete" -> 16
    [] step = "record" -> 17     [] step = "leave" -> 18     [] step = "failing" -> 19
    [] step = "fail" -> 20       [] step = "complete" -> 20  [] step = "done" -> 21
    [] step = "crashed" -> 22

\* What befalls a session at most once: it is aborted, a renewal fails, its
\* lease runs out.
BefallsOnce(s) ==
  \/ ~aborted[s] /\ aborted'[s]
  \/ ~lost[s] /\ lost'[s]
  \/ lock = [holder |-> s, expired |-> FALSE] /\ lock' = [holder |-> s, expired |-> TRUE]

\* The safety half of EveryRequestEnds: no step of any request goes back, or
\* leaves everything where it was.  Whatever fails, a request comes to its end
\* after a bounded number of steps, unless it stops being run.
RequestsGoForward ==
  [][\E s \in Sessions :
       /\ \A t \in Sessions \ {s} : pc'[t] = pc[t]
       /\ Progress(pc'[s]) > Progress(pc[s]) \/ (pc'[s] = pc[s] /\ BefallsOnce(s))]_vars

\* What is shown and deleted beside deployments and policy changes, as
\* SiteWorkers.tla has it.
Shown == IF published = None THEN {} ELSE {published.ver}

Site == INSTANCE SiteWorkers WITH
  expected <- {d \in Deployments : At(d, "upload")},
  kept <- workers,
  active <- row.ver,
  shown <- Shown

\* Deployments and policy changes, whichever of them overlap and whatever they
\* compensate, implement the site: they go back only to versions that have
\* their Worker, publish only what is active at that moment, and delete no Worker that
\* is active or published.
WorkersArePromised == Site!SiteSpec

\* The lock as the callbacks see it.
Callbacks == INSTANCE CommitLease WITH
  holder <- lock.holder,
  healthy <- {s \in Sessions : InCallback(s) /\ ~aborted[s]}

\* What is assumed here of the lock is no more than SiteCommitLock.tla
\* implements: it changes hands only while no callback is healthy.
LockIsALease == Callbacks!LeaseSpec
=============================================================================
