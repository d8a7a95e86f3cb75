------------------------ MODULE WorkerCleanupProofs ------------------------
(***************************************************************************)
(* Theorems about the cleanup of Workers, for any number of requests,      *)
(* runners and tasks, up to the refinement of the abstract SiteWorkers.    *)
(***************************************************************************)
EXTENDS WorkerCleanup, TLAPS

\* Where a runner is before, and while, it has a task to itself.
Phases == {"idle", "take", "retire", "recheck", "delete", "offer", "retired", "succeed", "fail"}
Runs(e) == pc[e] \notin {"idle", "take"}

\* Where a request has the lock, has read a route, and has a version to activate.
Locked == {"activate", "publish", "restore", "rewrite", "clear", "withdraw"}
Based == Locked \cup {"complete", "enqueue"}
Aimed == {"lock", "complete"} \cup Locked

\* What TypeOK leaves open: where everybody is, that a run has a task, that a
\* request to activate has a version, and that what is replaced was active.
Places ==
  /\ DOMAIN pc = Requests \cup Runners
  /\ \A e \in Runners : pc[e] \in Phases /\ (running[e] = None <=> pc[e] = "idle")
  /\ \A q \in Requests : pc[q] \in Based => base[q] # None
  /\ \A q \in Requests : pc[q] \in Aimed => target[q] # None
  /\ \A d \in Deployments : target[d] # None

\* The type invariant becomes inductive with the places.
TypeInv == TypeOK /\ Places

\* The actions of a runner do not move a request, and the other way round.
LEMMA GoMovesOne ==
  ASSUME TypeInv, NEW p \in Requests \cup Runners, NEW step, Go(p, step)
  PROVE  /\ DOMAIN pc' = Requests \cup Runners
         /\ pc'[p] = step
         /\ \A x \in Requests \cup Runners : x # p => pc'[x] = pc[x]
BY DEF Go, TypeInv, Places

\* Tasks are filed at the end of the sequence, or not at all.
LEMMA FileKeepsTasks ==
  ASSUME TypeInv, NEW v \in Versions, NEW due \in BOOLEAN, File(v, due)
  PROVE  /\ tasks' \in Seq(Records)
         /\ Len(tasks') <= MaxTasks
         /\ DOMAIN tasks \subseteq DOMAIN tasks'
         /\ \A t \in DOMAIN tasks : tasks'[t] = tasks[t]
<1> USE DEF TypeInv, TypeOK
<1>1. CASE UNCHANGED tasks
  BY <1>1
<1>2. CASE Len(tasks) < MaxTasks /\ tasks' = Append(tasks, Task(v, due))
  <2>1. Task(v, due) \in Records
    BY DEF Task, Records
  <2>2. Len(tasks') = Len(tasks) + 1 /\ tasks' \in Seq(Records)
    BY <1>2, <2>1
  <2>3. \A t \in DOMAIN tasks : tasks'[t] = tasks[t]
    BY <1>2
  <2> QED
    BY <1>2, <2>2, <2>3, WorkerCleanupAssumption
<1> QED
  BY <1>1, <1>2 DEF File

\* The initial state has its types.
LEMMA TypeInvInit == Init => TypeInv
<1> SUFFICES ASSUME Init PROVE TypeInv
  OBVIOUS
<1>1. TypeOK
  BY WorkerCleanupAssumption DEF Init, TypeOK, Versions, Requests
<1>2. Places
  BY WorkerCleanupAssumption
  DEF Init, Places, Phases, Requests, Versions, Locked, Based, Aimed
<1> QED
  BY <1>1, <1>2 DEF TypeInv

\* A step of a deployment or a rollback keeps the types.
LEMMA RequestKeepsTypes ==
  ASSUME TypeInv, NEW q \in Requests, Request(q)
  PROVE  TypeInv'
<1> USE WorkerCleanupAssumption
<1> USE DEF TypeInv, TypeOK, Places, At, Go, d1, edge, requests, history, Versions, Requests,
           Locked, Based, Aimed, Reroute, Lead, Release
<1>1. CASE Prepare(q)
  BY <1>1 DEF Prepare
<1>2. CASE Activate(q)
  BY <1>2 DEF Activate
<1>3. CASE ActivationFails(q)
  BY <1>3 DEF ActivationFails
<1>4. CASE Publish(q)
  BY <1>4 DEF Publish
<1>5. CASE PublishFails(q)
  BY <1>5 DEF PublishFails
<1>6. CASE Complete(q)
  BY <1>6 DEF Complete
<1>7. CASE Restore(q)
  BY <1>7 DEF Restore
<1>8. CASE Rewrite(q)
  BY <1>8 DEF Rewrite, WithdrawNext
<1>9. CASE RewriteFails(q)
  BY <1>9 DEF RewriteFails
<1>10. CASE Clear(q)
  BY <1>10 DEF Clear
<1> QED
  BY <1>1, <1>2, <1>3, <1>4, <1>5, <1>6, <1>7, <1>8, <1>9, <1>10 DEF Request

\* So does a step that only deployments take, or the choice of a version.
LEMMA DeployKeepsTypes ==
  ASSUME TypeInv, NEW d \in Deployments, Deploy(d)
  PROVE  TypeInv'
<1> USE WorkerCleanupAssumption
<1> USE DEF TypeInv, TypeOK, Places, At, Go, d1, edge, requests, history, Versions, Requests,
           Locked, Based, Aimed, Release
<1>1. CASE Upload(d)
  BY <1>1 DEF Upload
<1>2. CASE CreateVersion(d)
  BY <1>2 DEF CreateVersion
<1>3. CASE Discard(d)
  BY <1>3 DEF Discard
<1>4. CASE Enqueue(d)
  <2>1. base[d] \in Versions /\ File(base[d], FALSE)
    BY <1>4 DEF Enqueue
  <2>2. /\ tasks' \in Seq(Records)
        /\ Len(tasks') <= MaxTasks
        /\ DOMAIN tasks \subseteq DOMAIN tasks'
    BY <2>1, FileKeepsTasks
  <2>3. TypeOK'
    BY <1>4, <2>2 DEF Enqueue
  <2> QED
    BY <1>4, <2>3 DEF Enqueue
<1>5. CASE Withdraw(d)
  BY <1>5 DEF Withdraw
<1> QED
  BY <1>1, <1>2, <1>3, <1>4, <1>5 DEF Deploy

LEMMA ChooseKeepsTypes ==
  ASSUME TypeInv, NEW r \in Rollbacks, Choose(r)
  PROVE  TypeInv'
BY WorkerCleanupAssumption
DEF Choose, Validate, TypeInv, TypeOK, Places, At, Go, d1, edge, history, Versions, Requests,
    Locked, Based, Aimed

\* Routers and the administrator keep the types.
LEMMA VersionStepsKeepTypes ==
  ASSUME TypeInv, NEW v \in Versions, CacheExpires(v) \/ Backfill(v)
  PROVE  TypeInv'
<1> USE DEF TypeInv, TypeOK, Places, d1, edge, requests, history
<1>1. CASE CacheExpires(v)
  BY <1>1 DEF CacheExpires
<1>2. CASE Backfill(v)
  <2>1. /\ tasks' \in Seq(Records)
        /\ Len(tasks') <= MaxTasks
        /\ DOMAIN tasks \subseteq DOMAIN tasks'
    BY <1>2, FileKeepsTasks DEF Backfill
  <2> QED
    BY <1>2, <2>1 DEF Backfill
<1> QED
  BY <1>1, <1>2

\* Whatever is written to a field of a task, the tasks keep their types.
LEMMA TaskChangesKeepTypes ==
  ASSUME TypeInv, NEW t \in DOMAIN tasks, NEW record \in Records,
         tasks' = [tasks EXCEPT ![t] = record]
  PROVE  tasks' \in Seq(Records) /\ DOMAIN tasks' = DOMAIN tasks /\ Len(tasks') = Len(tasks)
BY DEF TypeInv, TypeOK

\* Time keeps the types.
LEMMA TimeKeepsTypes ==
  ASSUME TypeInv, NEW t \in DOMAIN tasks, DrainWindowEnds(t) \/ LeaseEnds(t)
  PROVE  TypeInv'
<1>1. tasks[t] \in Records
  BY DEF TypeInv, TypeOK
<1>2. CASE DrainWindowEnds(t)
  <2>1. tasks' = [tasks EXCEPT ![t] = [tasks[t] EXCEPT !.due = TRUE]]
    BY <1>2 DEF DrainWindowEnds
  <2>2. [tasks[t] EXCEPT !.due = TRUE] \in Records
    BY <1>1 DEF Records
  <2>3. tasks' \in Seq(Records) /\ DOMAIN tasks' = DOMAIN tasks /\ Len(tasks') = Len(tasks)
    BY <2>1, <2>2, TaskChangesKeepTypes
  <2> QED
    BY <1>2, <2>3 DEF DrainWindowEnds, TypeInv, TypeOK, Places, d1, edge, requests, history
<1>3. CASE LeaseEnds(t)
  <2>1. tasks' = [tasks EXCEPT ![t] = [tasks[t] EXCEPT !.lease = "over"]]
    BY <1>3 DEF LeaseEnds
  <2>2. [tasks[t] EXCEPT !.lease = "over"] \in Records
    BY <1>1 DEF Records
  <2>3. tasks' \in Seq(Records) /\ DOMAIN tasks' = DOMAIN tasks /\ Len(tasks') = Len(tasks)
    BY <2>1, <2>2, TaskChangesKeepTypes
  <2> QED
    BY <1>3, <2>3 DEF LeaseEnds, TypeInv, TypeOK, Places, d1, edge, requests, history
<1> QED
  BY <1>2, <1>3

\* A task that is taken or closed has a status and a lease of its type.
LEMMA StatusChangesKeepTypes ==
  ASSUME TypeInv, NEW t \in DOMAIN tasks,
         NEW status \in {"running", "failed", "succeeded"}, NEW lease \in {"none", "held"},
         tasks' = [tasks EXCEPT ![t].status = status, ![t].lease = lease]
  PROVE  tasks' \in Seq(Records) /\ DOMAIN tasks' = DOMAIN tasks /\ Len(tasks') = Len(tasks)
<1> DEFINE record == [tasks[t] EXCEPT !.status = status, !.lease = lease]
<1>1. tasks[t] \in Records
  BY DEF TypeInv, TypeOK
<1>2. record \in Records
  BY <1>1 DEF Records
<1>3. tasks' = [tasks EXCEPT ![t] = record]
  OBVIOUS
<1> QED
  BY <1>2, <1>3, TaskChangesKeepTypes

\* A version whose availability is written has one of the states.
LEMMA MarkKeepsTypes ==
  ASSUME TypeInv, NEW e \in Runners, running[e] \in DOMAIN tasks,
         NEW state \in {"active", "retiring", "retired"}, Mark(e, state)
  PROVE  offered' \in [Versions -> {"none", "active", "retiring", "retired"}]
BY DEF Mark, TypeInv, TypeOK

\* A runner keeps the types.
LEMMA RunnerKeepsTypes ==
  ASSUME TypeInv, NEW e \in Runners, Pick(e) \/ Execute(e) \/ StatementFails(e) \/ Stop(e)
  PROVE  TypeInv'
<1> USE WorkerCleanupAssumption
<1>1. running[e] # None => running[e] \in DOMAIN tasks /\ tasks[running[e]].ver \in Versions
  <2> SUFFICES ASSUME running[e] # None
               PROVE  running[e] \in DOMAIN tasks /\ tasks[running[e]].ver \in Versions
    OBVIOUS
  <2>1. running[e] \in DOMAIN tasks
    BY DEF TypeInv, TypeOK
  <2>2. tasks[running[e]] \in Records
    BY <2>1 DEF TypeInv, TypeOK
  <2> QED
    BY <2>1, <2>2 DEF Records
<1>2. pc[e] # "idle" => running[e] \in DOMAIN tasks /\ tasks[running[e]].ver \in Versions
  BY <1>1 DEF TypeInv, Places
<1>3. None \notin DOMAIN tasks
  BY DEF TypeInv, TypeOK
<1> USE DEF Rest, At, Go, d1, edge, requests, history, Phases
<1>4. CASE Pick(e)
  BY <1>3, <1>4 DEF Pick, TypeInv, TypeOK, Places
<1>5. CASE Take(e)
  <2>1. CASE CanRun(running[e])
    <3>1. tasks' \in Seq(Records) /\ DOMAIN tasks' = DOMAIN tasks /\ Len(tasks') = Len(tasks)
      BY <1>2, <1>5, <2>1, StatusChangesKeepTypes DEF Take
    <3> QED
      BY <1>5, <2>1, <3>1 DEF Take, TypeInv, TypeOK, Places
  <2>2. CASE ~CanRun(running[e])
    BY <1>5, <2>2 DEF Take, TypeInv, TypeOK, Places
  <2> QED
    BY <2>1, <2>2
<1>6. CASE Retire(e)
  <2>1. offered' \in [Versions -> {"none", "active", "retiring", "retired"}]
    BY <1>2, <1>6, MarkKeepsTypes DEF Retire
  <2> QED
    BY <1>6, <2>1 DEF Retire, TypeInv, TypeOK, Places
<1>7. CASE Recheck(e)
  BY <1>7 DEF Recheck, TypeInv, TypeOK, Places
<1>8. CASE DeleteWorker(e)
  BY <1>2, <1>8 DEF DeleteWorker, Unrecorded, TypeInv, TypeOK, Places
<1>9. CASE Offer(e)
  <2>1. offered' \in [Versions -> {"none", "active", "retiring", "retired"}]
    BY <1>2, <1>9, MarkKeepsTypes DEF Offer, TypeInv, TypeOK
  <2> QED
    BY <1>9, <2>1 DEF Offer, TypeInv, TypeOK, Places
<1>10. CASE MarkRetired(e)
  <2>1. offered' \in [Versions -> {"none", "active", "retiring", "retired"}]
    BY <1>2, <1>10, MarkKeepsTypes DEF MarkRetired, TypeInv, TypeOK
  <2> QED
    BY <1>2, <1>10, <2>1 DEF MarkRetired, Unrecorded, TypeInv, TypeOK, Places
<1>11. CASE Succeed(e)
  <2>1. tasks' \in Seq(Records) /\ DOMAIN tasks' = DOMAIN tasks /\ Len(tasks') = Len(tasks)
    BY <1>2, <1>11, StatusChangesKeepTypes DEF Succeed, Close, TypeInv, TypeOK
  <2> QED
    BY <1>2, <1>11, <2>1 DEF Succeed, Unrecorded, TypeInv, TypeOK, Places
<1>12. CASE Fail(e)
  <2>1. tasks' \in Seq(Records) /\ DOMAIN tasks' = DOMAIN tasks /\ Len(tasks') = Len(tasks)
    BY <1>2, <1>12, StatusChangesKeepTypes DEF Fail, Close, TypeInv, TypeOK
  <2> QED
    BY <1>12, <2>1 DEF Fail, TypeInv, TypeOK, Places
<1>13. CASE StatementFails(e)
  BY <1>13 DEF StatementFails, TypeInv, TypeOK, Places
<1>14. CASE Stop(e)
  BY <1>2, <1>14 DEF Stop, Unrecorded, TypeInv, TypeOK, Places
<1> QED
  BY <1>4, <1>5, <1>6, <1>7, <1>8, <1>9, <1>10, <1>11, <1>12, <1>13, <1>14 DEF Execute

\* Every step keeps the types.
LEMMA TypeInvNext == TypeInv /\ [Next]_vars => TypeInv'
<1> SUFFICES ASSUME TypeInv, [Next]_vars PROVE TypeInv'
  OBVIOUS
<1>1. CASE UNCHANGED vars
  BY <1>1 DEF vars, TypeInv, TypeOK, Places, d1, edge, requests, history
<1>2. CASE Next
  BY <1>2, RequestKeepsTypes, DeployKeepsTypes, ChooseKeepsTypes, VersionStepsKeepTypes,
     TimeKeepsTypes, RunnerKeepsTypes
  DEF Next
<1> QED
  BY <1>1, <1>2

\* Every variable of the cleanup keeps its type (deployment-cleanup-runtime.js
\* and the requests beside it).
THEOREM TypeCorrect == Spec => []TypeOK
<1>1. TypeInv => TypeOK
  BY DEF TypeInv
<1> QED
  BY <1>1, TypeInvInit, TypeInvNext, PTL DEF Spec

-----------------------------------------------------------------------------
(* One run of a task at a time.                                            *)

\* A runner between taking its task and finishing it has the task's lease, and
\* the task to itself.
Exclusive ==
  /\ \A e \in Runners : Runs(e) =>
       tasks[running[e]].status = "running" /\ tasks[running[e]].lease = "held"
  /\ \A e, f \in Runners : e # f /\ Runs(e) /\ Runs(f) => running[e] # running[f]

\* A runner that runs has a task.
LEMMA RunsATask ==
  ASSUME TypeInv, NEW e \in Runners, pc[e] # "idle"
  PROVE  running[e] \in DOMAIN tasks
BY DEF TypeInv, TypeOK, Places

\* As long as the runners stay where they are, and the tasks they run as well.
LEMMA ExclusiveStays ==
  ASSUME TypeInv, Exclusive, UNCHANGED running,
         \A e \in Runners : pc'[e] = pc[e],
         \A e \in Runners : Runs(e) =>
           /\ tasks'[running[e]].status = tasks[running[e]].status
           /\ tasks'[running[e]].lease = tasks[running[e]].lease
  PROVE  Exclusive'
BY DEF Exclusive, Runs

\* A runner goes on with its task, or rests; the tasks of others stay.
LEMMA ExclusiveGoesOn ==
  ASSUME TypeInv, Exclusive, NEW e \in Runners,
         \A f \in Runners \ {e} : pc'[f] = pc[f] /\ running'[f] = running[f],
         \A f \in Runners \ {e} : Runs(f) => tasks'[running[f]] = tasks[running[f]],
         pc'[e] \notin {"idle", "take"} =>
           Runs(e) /\ running'[e] = running[e] /\ tasks'[running[e]] = tasks[running[e]]
  PROVE  Exclusive'
BY DEF Exclusive, Runs

LEMMA RequestKeepsExclusive ==
  ASSUME TypeInv, Exclusive, NEW q \in Requests,
         Request(q) \/ (q \in Deployments /\ Deploy(q)) \/ (q \in Rollbacks /\ Choose(q))
  PROVE  Exclusive'
<1>1. UNCHANGED running
  BY DEF Request, Deploy, Prepare, Activate, ActivationFails, Publish, PublishFails, Restore,
         Rewrite, RewriteFails, Clear, Complete, Upload, CreateVersion, Withdraw, Discard,
         Enqueue, Choose
<1>2. \E step : Go(q, step)
  BY DEF Request, Deploy, Prepare, Activate, ActivationFails, Publish, PublishFails, Restore,
         Rewrite, RewriteFails, Clear, Complete, Upload, CreateVersion, Withdraw, Discard,
         Enqueue, Choose, Release, WithdrawNext
<1>3. \A e \in Runners : pc'[e] = pc[e]
  BY <1>2, GoMovesOne, WorkerCleanupAssumption DEF Requests
<1>4. \A t \in DOMAIN tasks : tasks'[t] = tasks[t]
  <2>1. CASE UNCHANGED tasks
    BY <2>1
  <2>2. CASE q \in Deployments /\ Enqueue(q)
    <3>1. base[q] \in Versions /\ File(base[q], FALSE)
      BY <2>2 DEF Enqueue, At, TypeInv, TypeOK, Places, Based, Requests
    <3> QED
      BY <3>1, FileKeepsTasks
  <2> QED
    BY <2>1, <2>2
    DEF Request, Deploy, Prepare, Activate, ActivationFails, Publish, PublishFails, Restore,
        Rewrite, RewriteFails, Clear, Complete, Upload, CreateVersion, Withdraw, Discard,
        Choose, d1
<1> QED
  BY <1>1, <1>3, <1>4, ExclusiveStays, RunsATask DEF Runs

\* Nor do routers, the administrator and time disturb it: a lease that can run
\* out under its run is what "slow" stands for.
LEMMA OthersKeepExclusive ==
  ASSUME TypeInv, Exclusive, "slow" \notin Faults,
         \/ \E v \in Versions : CacheExpires(v) \/ Backfill(v)
         \/ \E t \in DOMAIN tasks : DrainWindowEnds(t) \/ LeaseEnds(t)
  PROVE  Exclusive'
<1>1. CASE \E v \in Versions : CacheExpires(v)
  BY <1>1, ExclusiveStays DEF CacheExpires, d1
<1>2. ASSUME NEW v \in Versions, Backfill(v) PROVE Exclusive'
  <2>1. \A t \in DOMAIN tasks : tasks'[t] = tasks[t]
    BY <1>2, FileKeepsTasks DEF Backfill
  <2> QED
    BY <1>2, <2>1, ExclusiveStays, RunsATask DEF Backfill, Runs
<1>3. ASSUME NEW t \in DOMAIN tasks, DrainWindowEnds(t) PROVE Exclusive'
  <2>1. \A u \in DOMAIN tasks : /\ tasks'[u].status = tasks[u].status
                                /\ tasks'[u].lease = tasks[u].lease
    <3>1. tasks[t] \in Records
      BY DEF TypeInv, TypeOK
    <3>2. tasks' = [tasks EXCEPT ![t] = [tasks[t] EXCEPT !.due = TRUE]]
      BY <1>3 DEF DrainWindowEnds
    <3>3. /\ [tasks[t] EXCEPT !.due = TRUE].status = tasks[t].status
          /\ [tasks[t] EXCEPT !.due = TRUE].lease = tasks[t].lease
      BY <3>1 DEF Records
    <3> QED
      BY <3>2, <3>3 DEF TypeInv, TypeOK
  <2> QED
    BY <1>3, <2>1, ExclusiveStays, RunsATask DEF DrainWindowEnds, Runs
<1>4. ASSUME NEW t \in DOMAIN tasks, LeaseEnds(t) PROVE Exclusive'
  <2>1. ~Executing(t)
    BY <1>4 DEF LeaseEnds
  <2>2. \A e \in Runners : Runs(e) => running[e] # t
    BY <2>1 DEF Executing, Runs, At
  <2>3. \A e \in Runners : Runs(e) => tasks'[running[e]] = tasks[running[e]]
    BY <1>4, <2>2, RunsATask DEF LeaseEnds, Runs, TypeInv, TypeOK
  <2> QED
    BY <1>4, <2>3, ExclusiveStays DEF LeaseEnds
<1> QED
  BY <1>1, <1>2, <1>3, <1>4

\* A runner takes a task only when nobody has it, and touches no other's.
LEMMA RunnerKeepsExclusive ==
  ASSUME TypeInv, Exclusive, NEW e \in Runners,
         Pick(e) \/ Execute(e) \/ StatementFails(e) \/ Stop(e)
  PROVE  Exclusive'
<1>1. \A f \in Runners \ {e} : pc'[f] = pc[f] /\ running'[f] = running[f]
  <2>1. \E step : Go(e, step)
    BY DEF Pick, Execute, StatementFails, Stop, Take, Retire, Recheck, DeleteWorker, Offer,
           MarkRetired, Succeed, Fail, Rest
  <2>2. UNCHANGED running \/ \E x : running' = [running EXCEPT ![e] = x]
    BY DEF Pick, Execute, StatementFails, Stop, Take, Retire, Recheck, DeleteWorker, Offer,
           MarkRetired, Succeed, Fail, Rest
  <2> QED
    BY <2>1, <2>2, GoMovesOne DEF TypeInv, TypeOK
<1>2. CASE Take(e) /\ CanRun(running[e])
  <2> DEFINE t == running[e]
  <2>1. t \in DOMAIN tasks /\ tasks[t] \in Records
    BY <1>2, RunsATask DEF Take, At, TypeInv, TypeOK
  <2>2. ~(tasks[t].status = "running" /\ tasks[t].lease = "held")
    BY <1>2 DEF CanRun
  <2>3. \A f \in Runners : Runs(f) => running[f] # t
    BY <2>2 DEF Exclusive
  <2>4. /\ tasks'[t].status = "running" /\ tasks'[t].lease = "held"
        /\ \A u \in DOMAIN tasks \ {t} : tasks'[u] = tasks[u]
    <3> DEFINE record == [tasks[t] EXCEPT !.status = "running", !.lease = "held"]
    <3>1. tasks' = [tasks EXCEPT ![t] = record]
      BY <1>2 DEF Take
    <3>2. record.status = "running" /\ record.lease = "held"
      BY <2>1 DEF Records
    <3> QED
      BY <2>1, <3>1, <3>2 DEF TypeInv, TypeOK
  <2>5. running'[e] = t
    BY <1>2 DEF Take
  <2> QED
    BY <1>1, <2>3, <2>4, <2>5, RunsATask DEF Exclusive, Runs
<1>3. CASE Pick(e) \/ (Take(e) /\ ~CanRun(running[e]))
  <2>1. pc'[e] \in {"idle", "take"} /\ UNCHANGED tasks
    BY <1>3, GoMovesOne DEF Pick, Take, Rest, d1
  <2> QED
    BY <1>1, <2>1, ExclusiveGoesOn
<1>4. CASE \/ Retire(e) \/ Recheck(e) \/ DeleteWorker(e) \/ Offer(e) \/ MarkRetired(e)
           \/ StatementFails(e)
  <2>1. Runs(e) /\ UNCHANGED <<tasks, running>>
    BY <1>4 DEF Retire, Recheck, DeleteWorker, Offer, MarkRetired, StatementFails, Runs, At, d1
  <2> QED
    BY <1>1, <2>1, ExclusiveGoesOn
<1>5. CASE Succeed(e) \/ Fail(e)
  <2>1. Runs(e)
    BY <1>5 DEF Succeed, Fail, Runs, At
  <2>2. \A f \in Runners \ {e} : Runs(f) => tasks'[running[f]] = tasks[running[f]]
    <3>1. CASE UNCHANGED tasks
      BY <3>1
    <3>2. CASE Close(e, "succeeded") \/ Close(e, "failed")
      BY <2>1, <3>2, RunsATask DEF Close, Exclusive, Runs, TypeInv, TypeOK
    <3> QED
      BY <1>5, <3>1, <3>2 DEF Succeed, Fail
  <2>3. pc'[e] = "idle" \/ UNCHANGED <<tasks, running>>
    BY <1>5, GoMovesOne DEF Succeed, Fail, Rest
  <2> QED
    BY <1>1, <2>1, <2>2, <2>3, ExclusiveGoesOn
<1>6. CASE Stop(e)
  <2>1. pc'[e] = "idle" /\ UNCHANGED tasks
    BY <1>6, GoMovesOne DEF Stop, Rest, d1
  <2> QED
    BY <1>1, <2>1, ExclusiveGoesOn
<1> QED
  BY <1>2, <1>3, <1>4, <1>5, <1>6 DEF Execute

LEMMA ExclusiveNext ==
  ASSUME TypeInv, Exclusive, "slow" \notin Faults, [Next]_vars
  PROVE  Exclusive'
<1>1. CASE UNCHANGED vars
  BY <1>1, ExclusiveStays DEF vars, d1
<1>2. CASE Next
  BY <1>2, RequestKeepsExclusive, OthersKeepExclusive, RunnerKeepsExclusive
  DEF Next, Requests
<1> QED
  BY <1>1, <1>2

\* Unless a run outlives its lease, no two runs of one task overlap, however
\* many runners there are and wherever they stop (canRunDeploymentCleanupTask,
\* markDeploymentResourceCleanupRunning).
THEOREM RunsExcludeEachOther ==
  ASSUME "slow" \notin Faults
  PROVE  Spec => []OneRunAtATime
<1>1. Init => TypeInv /\ Exclusive
  <2>1. Init => Exclusive
    BY WorkerCleanupAssumption DEF Init, Exclusive, Runs, Requests
  <2> QED
    BY <2>1, TypeInvInit
<1>2. TypeInv /\ Exclusive /\ [Next]_vars => (TypeInv /\ Exclusive)'
  BY TypeInvNext, ExclusiveNext
<1>3. TypeInv /\ Exclusive => OneRunAtATime
  BY DEF TypeInv, Places, Exclusive, Runs, OneRunAtATime, At
<1> QED
  BY <1>1, <1>2, <1>3, PTL DEF Spec
-----------------------------------------------------------------------------
(* The Workers of the versions.                                            *)

\* The lock belongs to whoever is about to activate, to publish, or to undo it;
\* only its holder moves the route.
LockHeld ==
  \A q \in Requests :
    /\ pc[q] \in Locked <=> lock = q
    /\ pc[q] \in {"activate", "rewrite", "withdraw"} => route = base[q]
    /\ pc[q] \in {"publish", "restore"} => route = target[q]
    /\ pc[q] = "clear" => route \in {base[q], target[q]}

\* A version is active, or replaced by a request, no sooner than its deployment
\* has activated it; a deployment that has failed may have left it active.
ActiveIsKnown ==
  \A d \in Deployments :
    /\ route = d => pc[d] \in {"publish", "restore", "clear", "complete", "enqueue", "done"}
    /\ route = d => offered[d] # "none"
    /\ \A q \in Requests : base[q] = d =>
         pc[d] \in {"complete", "enqueue", "done"} /\ offered[d] # "none"

\* A rollback returns to a version that succeeded, a deployment activates its own.
TargetsAreKnown ==
  /\ \A r \in Rollbacks : target[r] # None => target[r] \in succeeded
  /\ \A d \in Deployments : target[d] = d
  /\ Initial \in succeeded /\ offered[Initial] # "none"

\* Where a deployment has its Worker to itself.
Bringing == {"version", "lock"} \cup Locked

\* A deployment has its Worker from the upload to the end of its activation,
\* and a row from there on; meanwhile there is no task for it.
Uploaded ==
  \A d \in Deployments :
    /\ d \in succeeded => pc[d] \in {"enqueue", "done"}
    /\ pc[d] = "enqueue" => d \in succeeded
    /\ pc[d] = "upload" => d \notin workers
    /\ pc[d] \in {"upload", "version"} => offered[d] = "none"
    /\ pc[d] \in Bringing => d \in workers
    /\ offered[d] = "none" =>
         d \notin succeeded /\ pc[d] \in {"upload", "version", "discard", "done"}
    /\ pc[d] \in {"upload", "discard"} \cup Bringing => \A t \in DOMAIN tasks : tasks[t].ver # d

\* A task without a version is for a Worker that was left behind.
TasksAreKnown ==
  \A t \in DOMAIN tasks :
    IF tasks[t].known THEN offered[tasks[t].ver] # "none"
    ELSE /\ offered[tasks[t].ver] = "none"
         /\ tasks[t].ver \in Deployments /\ pc[tasks[t].ver] = "done"

RequestsInv ==
  LockHeld /\ ActiveIsKnown /\ TargetsAreKnown /\ Uploaded /\ TasksAreKnown

LEMMA RequestsInvInit == Init => RequestsInv
<1> SUFFICES ASSUME Init PROVE RequestsInv
  OBVIOUS
<1> USE WorkerCleanupAssumption DEF Init, Versions, Requests
<1>1. LockHeld
  BY DEF LockHeld, Locked
<1>2. ActiveIsKnown
  BY DEF ActiveIsKnown
<1>3. TargetsAreKnown
  BY DEF TargetsAreKnown
<1>4. Uploaded
  BY DEF Uploaded, Bringing, Locked
<1>5. TasksAreKnown
  BY DEF TasksAreKnown
<1> QED
  BY <1>1, <1>2, <1>3, <1>4, <1>5 DEF RequestsInv

LEMMA RequestKeepsRequestsInv ==
  ASSUME TypeInv, RequestsInv, NEW q \in Requests, Request(q)
  PROVE  RequestsInv'
<1> USE WorkerCleanupAssumption
<1> USE DEF TypeInv, TypeOK, Places, RequestsInv, LockHeld, ActiveIsKnown, TargetsAreKnown,
            Uploaded, TasksAreKnown, Locked, Based, Aimed, Bringing, Reroute, Lead, Release,
            At, Go, d1, edge, requests, history, Versions, Requests
<1>1. CASE Prepare(q)
  BY <1>1 DEF Prepare
<1>2. CASE Activate(q)
  BY <1>2 DEF Activate, MayActivate
<1>3. CASE ActivationFails(q)
  BY <1>3 DEF ActivationFails
<1>4. CASE Publish(q)
  BY <1>4 DEF Publish
<1>5. CASE PublishFails(q)
  BY <1>5 DEF PublishFails
<1>6. CASE Complete(q)
  BY <1>6 DEF Complete
<1>7. CASE Restore(q)
  BY <1>7 DEF Restore
<1>8. CASE Rewrite(q)
  BY <1>8 DEF Rewrite, WithdrawNext
<1>9. CASE RewriteFails(q)
  BY <1>9 DEF RewriteFails
<1>10. CASE Clear(q)
  BY <1>10 DEF Clear
<1> QED
  BY <1>1, <1>2, <1>3, <1>4, <1>5, <1>6, <1>7, <1>8, <1>9, <1>10 DEF Request

\* Every task is for a version.
LEMMA TasksHaveVersions ==
  ASSUME TypeInv
  PROVE  \A t \in DOMAIN tasks : tasks[t].ver \in Versions /\ tasks[t].known \in BOOLEAN
<1> SUFFICES ASSUME NEW t \in DOMAIN tasks
             PROVE  tasks[t].ver \in Versions /\ tasks[t].known \in BOOLEAN
  OBVIOUS
<1>1. tasks[t] \in Records
  BY DEF TypeInv, TypeOK
<1> QED
  BY <1>1 DEF Records

\* A filed task names its version, and leaves every other task alone.
LEMMA FiledTask ==
  ASSUME TypeInv, NEW v \in Versions, NEW due \in BOOLEAN, File(v, due)
  PROVE  \A t \in DOMAIN tasks' :
           \/ t \in DOMAIN tasks /\ tasks'[t] = tasks[t]
           \/ /\ t \notin DOMAIN tasks /\ tasks'[t] = Task(v, due)
              /\ DOMAIN tasks' = DOMAIN tasks \cup {t}
<1>1. CASE UNCHANGED tasks
  BY <1>1
<1>2. CASE Len(tasks) < MaxTasks /\ tasks' = Append(tasks, Task(v, due))
  <2>1. Task(v, due) \in Records
    BY DEF Task, Records, TypeInv, TypeOK
  <2> QED
    BY <1>2, <2>1 DEF TypeInv, TypeOK
<1> QED
  BY <1>1, <1>2 DEF File

\* A task that is filed is for a version that nobody is about to activate.
LEMMA FilingKeepsRequestsInv ==
  ASSUME TypeInv, RequestsInv, NEW v \in Versions, NEW due \in BOOLEAN, File(v, due),
         v \in Deployments => pc[v] \notin {"upload", "discard"} \cup Bringing,
         offered[v] = "none" => v \in Deployments /\ pc[v] = "done",
         UNCHANGED <<offered, workers, succeeded>>,
         \A d \in Deployments : pc'[d] = pc[d] \/ (pc[d] = "enqueue" /\ pc'[d] = "done")
  PROVE  Uploaded' /\ TasksAreKnown'
<1>1. \A t \in DOMAIN tasks' :
         \/ t \in DOMAIN tasks /\ tasks'[t] = tasks[t]
         \/ tasks'[t].ver = v /\ (tasks'[t].known <=> offered[v] # "none")
  <2> SUFFICES ASSUME NEW t \in DOMAIN tasks'
               PROVE  \/ t \in DOMAIN tasks /\ tasks'[t] = tasks[t]
                      \/ tasks'[t].ver = v /\ (tasks'[t].known <=> offered[v] # "none")
    OBVIOUS
  <2>1. Task(v, due).ver = v /\ (Task(v, due).known <=> offered[v] # "none")
    BY DEF Task
  <2>2. (t \in DOMAIN tasks /\ tasks'[t] = tasks[t]) \/ tasks'[t] = Task(v, due)
    BY FiledTask
  <2> QED
    BY <2>1, <2>2
<1>2. Uploaded'
  BY <1>1 DEF RequestsInv, Uploaded, Bringing, Locked
<1>3. ASSUME NEW t \in DOMAIN tasks'
      PROVE  IF tasks'[t].known THEN offered[tasks'[t].ver] # "none"
             ELSE /\ offered[tasks'[t].ver] = "none"
                  /\ tasks'[t].ver \in Deployments /\ pc'[tasks'[t].ver] = "done"
  BY <1>1 DEF RequestsInv, TasksAreKnown
<1>4. TasksAreKnown'
  BY <1>3 DEF TasksAreKnown
<1> QED
  BY <1>2, <1>4

LEMMA EnqueueKeepsRequestsInv ==
  ASSUME TypeInv, RequestsInv, NEW d \in Deployments, Enqueue(d)
  PROVE  RequestsInv'
<1> USE WorkerCleanupAssumption
<1>1. base[d] \in Versions /\ File(base[d], FALSE)
  BY DEF Enqueue, At, TypeInv, TypeOK, Places, Based, Requests
<1>2. LockHeld' /\ ActiveIsKnown' /\ TargetsAreKnown'
  BY DEF Enqueue, At, Go, edge, requests, TypeInv, Places, RequestsInv, LockHeld, ActiveIsKnown,
         TargetsAreKnown, Locked, Requests
<1>3. /\ \A x \in Deployments : pc'[x] = pc[x] \/ (pc[x] = "enqueue" /\ pc'[x] = "done")
      /\ UNCHANGED <<offered, workers, succeeded>>
  BY DEF Enqueue, At, Go, TypeInv, Places, Requests
<1>4. base[d] \in Deployments => pc[base[d]] \in {"complete", "enqueue", "done"}
  BY DEF RequestsInv, ActiveIsKnown, Requests
<1>5. base[d] \in Deployments => pc[base[d]] \notin {"upload", "discard"} \cup Bringing
  BY <1>4 DEF Bringing, Locked
<1>6. offered[base[d]] # "none"
  BY <1>1 DEF RequestsInv, ActiveIsKnown, TargetsAreKnown, Versions, Requests
<1>7. Uploaded' /\ TasksAreKnown'
  BY <1>1, <1>3, <1>5, <1>6, FilingKeepsRequestsInv
<1> QED
  BY <1>2, <1>7 DEF RequestsInv

LEMMA DeployKeepsRequestsInv ==
  ASSUME TypeInv, RequestsInv, NEW d \in Deployments, Deploy(d)
  PROVE  RequestsInv'
<1> USE WorkerCleanupAssumption, TasksHaveVersions
<1> USE DEF RequestsInv, LockHeld, ActiveIsKnown, TargetsAreKnown,
            Uploaded, TasksAreKnown, Locked, Based, Aimed, Bringing, Release, At, Go, d1, edge,
            requests, history, Versions, Requests
<1>1. CASE Upload(d)
  BY <1>1 DEF Upload, TypeInv, TypeOK, Places
<1>2. CASE CreateVersion(d)
  BY <1>2 DEF CreateVersion, TypeInv, TypeOK, Places
<1>3. CASE Discard(d)
  BY <1>3 DEF Discard, TypeInv, TypeOK, Places
<1>4. CASE Enqueue(d)
  BY <1>4, EnqueueKeepsRequestsInv
<1>5. CASE Withdraw(d)
  BY <1>5 DEF Withdraw, TypeInv, TypeOK, Places
<1> QED
  BY <1>1, <1>2, <1>3, <1>4, <1>5 DEF Deploy

LEMMA ChooseKeepsRequestsInv ==
  ASSUME TypeInv, RequestsInv, NEW r \in Rollbacks, Choose(r)
  PROVE  RequestsInv'
BY WorkerCleanupAssumption
DEF Choose, Validate, TypeInv, TypeOK, Places, RequestsInv, LockHeld, ActiveIsKnown,
    TargetsAreKnown, Uploaded, TasksAreKnown, Locked, Based, Aimed, Bringing, At, Go, d1, edge,
    history, Versions, Requests

\* An orphan is filed when no request has to do with it.
LEMMA VersionStepsKeepRequestsInv ==
  ASSUME TypeInv, RequestsInv, "early" \notin Faults,
         NEW v \in Versions, CacheExpires(v) \/ Backfill(v)
  PROVE  RequestsInv'
<1> USE WorkerCleanupAssumption
<1>1. CASE CacheExpires(v)
  BY <1>1 DEF CacheExpires, d1, requests, history, RequestsInv, LockHeld, ActiveIsKnown,
              TargetsAreKnown, Uploaded, TasksAreKnown
<1>2. CASE Backfill(v)
  <2>1. v \in workers /\ ~InUse(v) /\ File(v, TRUE)
    BY <1>2 DEF Backfill
  <2>2. LockHeld' /\ ActiveIsKnown' /\ TargetsAreKnown'
    BY <1>2 DEF Backfill, edge, requests, RequestsInv, LockHeld, ActiveIsKnown, TargetsAreKnown
  <2>3. v \in Deployments => pc[v] \notin {"upload", "discard"} \cup Bringing
    BY <2>1 DEF InUse, RequestsInv, Uploaded, Requests, Bringing, Locked
  <2>4. offered[v] = "none" => v \in Deployments /\ pc[v] = "done"
    BY <2>3 DEF RequestsInv, Uploaded, TargetsAreKnown, Versions, Bringing
  <2>5. UNCHANGED <<offered, workers, pc, succeeded>>
    BY <1>2 DEF Backfill
  <2>6. Uploaded' /\ TasksAreKnown'
    BY <2>1, <2>3, <2>4, <2>5, FilingKeepsRequestsInv
  <2> QED
    BY <2>2, <2>6 DEF RequestsInv
<1> QED
  BY <1>1, <1>2

\* The invariants stay as long as no request moves and nothing is filed; the
\* Workers that go are those of tasks.
LEMMA RequestsInvStays ==
  ASSUME TypeInv, RequestsInv,
         UNCHANGED <<route, succeeded, requests>>,
         workers' \subseteq workers,
         \A v \in workers \ workers' : \E t \in DOMAIN tasks : tasks[t].ver = v,
         \A q \in Requests : pc'[q] = pc[q],
         DOMAIN tasks' = DOMAIN tasks,
         \A t \in DOMAIN tasks : tasks'[t].ver = tasks[t].ver /\ tasks'[t].known = tasks[t].known,
         \A v \in Versions : offered'[v] # "none" <=> offered[v] # "none"
  PROVE  RequestsInv'
<1> USE WorkerCleanupAssumption DEF RequestsInv, requests, Versions, Requests
<1>1. LockHeld'
  BY DEF LockHeld
<1>2. ActiveIsKnown' /\ TargetsAreKnown'
  BY DEF ActiveIsKnown, TargetsAreKnown
<1>3. Uploaded'
  BY DEF Uploaded
<1>4. TasksAreKnown'
  BY TasksHaveVersions DEF TasksAreKnown
<1> QED
  BY <1>1, <1>2, <1>3, <1>4


\* Time changes neither what a task is for nor its status.
LEMMA TimeKeepsTasks ==
  ASSUME TypeInv, NEW t \in DOMAIN tasks, DrainWindowEnds(t) \/ LeaseEnds(t)
  PROVE  /\ DOMAIN tasks' = DOMAIN tasks
         /\ \A u \in DOMAIN tasks :
              /\ tasks'[u].ver = tasks[u].ver /\ tasks'[u].known = tasks[u].known
              /\ tasks'[u].status = tasks[u].status
<1>1. tasks[t] \in Records
  BY DEF TypeInv, TypeOK
<1>2. CASE DrainWindowEnds(t)
  <2> DEFINE record == [tasks[t] EXCEPT !.due = TRUE]
  <2>1. /\ record.ver = tasks[t].ver /\ record.known = tasks[t].known
        /\ record.status = tasks[t].status
    BY <1>1 DEF Records
  <2>2. tasks' = [tasks EXCEPT ![t] = record]
    BY <1>2 DEF DrainWindowEnds
  <2> QED
    BY <2>1, <2>2 DEF TypeInv, TypeOK
<1>3. CASE LeaseEnds(t)
  <2> DEFINE record == [tasks[t] EXCEPT !.lease = "over"]
  <2>1. /\ record.ver = tasks[t].ver /\ record.known = tasks[t].known
        /\ record.status = tasks[t].status
    BY <1>1 DEF Records
  <2>2. tasks' = [tasks EXCEPT ![t] = record]
    BY <1>3 DEF LeaseEnds
  <2> QED
    BY <2>1, <2>2 DEF TypeInv, TypeOK
<1> QED
  BY <1>2, <1>3

LEMMA TimeKeepsRequestsInv ==
  ASSUME TypeInv, RequestsInv, NEW t \in DOMAIN tasks, DrainWindowEnds(t) \/ LeaseEnds(t)
  PROVE  RequestsInv'
<1>1. UNCHANGED <<route, offered, succeeded, workers, requests, pc>>
  BY DEF DrainWindowEnds, LeaseEnds
<1> QED
  BY <1>1, TimeKeepsTasks, RequestsInvStays

\* The statuses and leases of tasks do not matter here.
LEMMA ClosingKeepsRequestsInv ==
  ASSUME TypeInv, RequestsInv, NEW t \in DOMAIN tasks,
         NEW status \in {"running", "failed", "succeeded"}, NEW lease \in {"none", "held"},
         tasks' = [tasks EXCEPT ![t].status = status, ![t].lease = lease],
         UNCHANGED <<route, offered, succeeded, workers, requests>>,
         \A q \in Requests : pc'[q] = pc[q]
  PROVE  RequestsInv'
<1> DEFINE record == [tasks[t] EXCEPT !.status = status, !.lease = lease]
<1>1. tasks[t] \in Records
  BY DEF TypeInv, TypeOK
<1>2. record.ver = tasks[t].ver /\ record.known = tasks[t].known
  BY <1>1 DEF Records
<1>3. tasks' = [tasks EXCEPT ![t] = record]
  OBVIOUS
<1>4. /\ DOMAIN tasks' = DOMAIN tasks
      /\ \A u \in DOMAIN tasks : tasks'[u].ver = tasks[u].ver /\ tasks'[u].known = tasks[u].known
  BY <1>2, <1>3 DEF TypeInv, TypeOK
<1> QED
  BY <1>4, RequestsInvStays

\* A version with a row keeps it.
LEMMA MarkKeepsRows ==
  ASSUME TypeInv, RequestsInv, NEW e \in Runners, running[e] \in DOMAIN tasks,
         NEW state \in {"active", "retiring", "retired"}, Mark(e, state)
  PROVE  \A v \in Versions : offered'[v] # "none" <=> offered[v] # "none"
<1>1. tasks[running[e]].known => offered[tasks[running[e]].ver] # "none"
  BY DEF RequestsInv, TasksAreKnown
<1> QED
  BY <1>1 DEF Mark, TypeInv, TypeOK

LEMMA RunnerKeepsRequestsInv ==
  ASSUME TypeInv, RequestsInv, NEW e \in Runners,
         Pick(e) \/ Execute(e) \/ StatementFails(e) \/ Stop(e)
  PROVE  RequestsInv'
<1>1. \A q \in Requests : pc'[q] = pc[q]
  <2>1. \E step : Go(e, step)
    BY DEF Pick, Execute, StatementFails, Stop, Take, Retire, Recheck, DeleteWorker, Offer,
           MarkRetired, Succeed, Fail, Rest
  <2> QED
    BY <2>1, GoMovesOne, WorkerCleanupAssumption DEF Requests
<1>2. UNCHANGED <<route, succeeded, requests>>
  BY DEF Pick, Execute, StatementFails, Stop, Take, Retire, Recheck, DeleteWorker, Offer,
         MarkRetired, Succeed, Fail, d1
<1>3. ~At(e, "idle") => running[e] \in DOMAIN tasks
  BY RunsATask DEF At
<1>4. CASE /\ UNCHANGED <<offered, tasks>>
           /\ workers' \in {workers, workers \ {tasks[running[e]].ver}}
           /\ ~At(e, "idle") \/ workers' = workers
  BY <1>1, <1>2, <1>3, <1>4, RequestsInvStays
<1>5. CASE \E state \in {"active", "retiring", "retired"} :
             Mark(e, state) /\ UNCHANGED <<tasks, workers>> /\ ~At(e, "idle")
  BY <1>1, <1>2, <1>3, <1>5, MarkKeepsRows, RequestsInvStays
<1>6. CASE /\ \E status \in {"running", "failed", "succeeded"}, lease \in {"none", "held"} :
                tasks' = [tasks EXCEPT ![running[e]].status = status, ![running[e]].lease = lease]
           /\ UNCHANGED <<offered, workers>> /\ ~At(e, "idle")
  BY <1>1, <1>2, <1>3, <1>6, ClosingKeepsRequestsInv
<1>7. CASE Pick(e) \/ Recheck(e) \/ StatementFails(e) \/ Stop(e) \/ DeleteWorker(e)
  BY <1>4, <1>7 DEF Pick, Recheck, StatementFails, Stop, DeleteWorker, At, d1
<1>8. CASE Retire(e)
  BY <1>5, <1>8 DEF Retire, At
<1>9. CASE Offer(e)
  BY <1>4, <1>5, <1>9 DEF Offer, At
<1>10. CASE MarkRetired(e)
  BY <1>4, <1>5, <1>10 DEF MarkRetired, At
<1>11. CASE Take(e)
  BY <1>4, <1>6, <1>11 DEF Take, At
<1>12. CASE Succeed(e)
  BY <1>4, <1>6, <1>12 DEF Succeed, Close, At
<1>13. CASE Fail(e)
  BY <1>4, <1>6, <1>13 DEF Fail, Close, At
<1> QED
  BY <1>7, <1>8, <1>9, <1>10, <1>11, <1>12, <1>13 DEF Execute

LEMMA RequestsInvNext ==
  ASSUME "early" \notin Faults, TypeInv, RequestsInv, [Next]_vars
  PROVE  RequestsInv'
<1>1. CASE UNCHANGED vars
  BY <1>1, RequestsInvStays DEF vars, d1
<1>2. CASE Next
  BY <1>2, RequestKeepsRequestsInv, DeployKeepsRequestsInv, ChooseKeepsRequestsInv,
     VersionStepsKeepRequestsInv, TimeKeepsRequestsInv, RunnerKeepsRequestsInv
  DEF Next
<1> QED
  BY <1>1, <1>2

\* The Worker of a version exists, or the version is one of the exceptions.
Excused(v) == v \in outdated \/ v \in unrecorded
Kept(v) == v \in workers \/ Excused(v)

\* A version whose deployment failed: nobody chooses it.
Dead(v) == v \in Deployments /\ v \notin succeeded /\ pc[v] \in {"discard", "withdraw", "done"}

\* A request that may still restore what it replaced, or file a task for it.
Replacing(q) ==
  pc[q] \in {"publish", "restore"} \/ (q \in Deployments /\ pc[q] \in {"complete", "enqueue"})

RouteKept == Kept(route)
OfferedKept == \A v \in Versions : offered[v] = "active" => Kept(v) \/ Dead(v)

\* What is being replaced has its Worker, and no task yet.
BaseKept ==
  \A q \in Requests : Replacing(q) =>
    /\ Kept(base[q])
    /\ base[q] \in outdated \/ \A t \in DOMAIN tasks : tasks[t].ver = base[q] => ~Open(t)

\* Two replacements of one version, or two tasks for it, are the exception.
BasesDiffer ==
  \A p, q \in Requests :
    p # q /\ Replacing(p) /\ Replacing(q) /\ base[p] = base[q] => base[p] \in outdated
OneTask ==
  \A t, u \in DOMAIN tasks :
    t # u /\ Open(t) /\ Open(u) /\ tasks[t].ver = tasks[u].ver => tasks[t].ver \in outdated

\* The Worker of an open task is there until its run has deleted it.
Deleted(t) == \E e \in Runners : running[e] = t /\ pc[e] \in {"retired", "succeed"}
TaskKept == \A t \in DOMAIN tasks : Open(t) => Kept(tasks[t].ver) \/ Deleted(t)

\* While a run may delete a Worker, the version is not offered, so that nobody
\* activates it; and it was not active when the route was looked at again.
Retiring ==
  \A e \in Runners : pc[e] \in {"recheck", "delete", "retired"} /\ tasks[running[e]].known =>
    offered[tasks[running[e]].ver] = "retiring" \/ Excused(tasks[running[e]].ver)
Unrouted ==
  \A e \in Runners : pc[e] = "delete" =>
    route # tasks[running[e]].ver \/ Excused(tasks[running[e]].ver)

WorkersInv ==
  /\ RouteKept /\ OfferedKept /\ BaseKept /\ BasesDiffer /\ OneTask /\ TaskKept
  /\ Retiring /\ Unrouted

\* Everything the Workers depend on.
CleanupInv == TypeInv /\ Exclusive /\ RequestsInv /\ WorkersInv

LEMMA WorkersInvInit == Init => WorkersInv
<1> SUFFICES ASSUME Init PROVE WorkersInv
  OBVIOUS
<1> USE WorkerCleanupAssumption DEF Init, Versions, Requests, Kept, Excused, Replacing
<1>1. RouteKept /\ OfferedKept
  BY DEF RouteKept, OfferedKept
<1>2. BaseKept /\ BasesDiffer
  BY DEF BaseKept, BasesDiffer
<1>3. OneTask /\ TaskKept
  BY DEF OneTask, TaskKept
<1>4. Retiring /\ Unrouted
  BY DEF Retiring, Unrouted
<1> QED
  BY <1>1, <1>2, <1>3, <1>4 DEF WorkersInv

\* The task of a run is open, and no other run has it.
LEMMA RunsAnOpenTask ==
  ASSUME TypeInv, Exclusive, NEW e \in Runners, Runs(e)
  PROVE  /\ running[e] \in DOMAIN tasks /\ Open(running[e])
         /\ tasks[running[e]].ver \in Versions
         /\ \A f \in Runners : f # e /\ Runs(f) => running[f] # running[e]
BY RunsATask, TasksHaveVersions DEF Exclusive, Open, Runs

\* A step of a request moves nobody else.
LEMMA RequestMovesOne ==
  ASSUME TypeInv, NEW q \in Requests, Request(q)
  PROVE  \A p \in Requests \cup Runners : p # q => pc'[p] = pc[p]
<1>1. \E step : Go(q, step)
  BY DEF Request, Prepare, Activate, ActivationFails, Publish, PublishFails, Restore, Rewrite,
         RewriteFails, Clear, Complete, WithdrawNext, Release
<1> QED
  BY <1>1, GoMovesOne

\* Deployments and rollbacks keep the Workers.
LEMMA RequestKeepsWorkers ==
  ASSUME CleanupInv, NEW q \in Requests, Request(q)
  PROVE  WorkersInv'
<1> USE WorkerCleanupAssumption
<1>1. \A e \in Runners : pc'[e] = pc[e]
  BY RequestMovesOne DEF CleanupInv, Requests
<1>2. \A p \in Requests : p # q => pc'[p] = pc[p]
  BY RequestMovesOne DEF CleanupInv
<1>3. /\ UNCHANGED <<offered, tasks, workers, running, unrecorded>>
      /\ outdated \subseteq outdated'
  BY DEF Request, Prepare, Activate, ActivationFails, Publish, PublishFails, Restore, Rewrite,
         RewriteFails, Clear, Complete, Reroute, d1, history
<1>4. \A v : Kept(v) => Kept(v)'
  BY <1>3 DEF Kept, Excused
<1>5. OneTask' /\ TaskKept'
  BY <1>1, <1>3 DEF CleanupInv, WorkersInv, OneTask, TaskKept, Deleted, Open, Kept, Excused
<1>6. Retiring'
  BY <1>1, <1>3 DEF CleanupInv, WorkersInv, Retiring, Excused
<1>7. CASE \/ Prepare(q) \/ ActivationFails(q) \/ Publish(q) \/ PublishFails(q) \/ Rewrite(q)
           \/ RewriteFails(q) \/ Clear(q) \/ Complete(q)
  <2>1. UNCHANGED <<route, outdated>>
    BY <1>7 DEF Prepare, ActivationFails, Publish, PublishFails, Rewrite, RewriteFails, Clear,
                Complete, d1, history
  <2>2. \A p \in Requests : Replacing(p)' => Replacing(p) /\ base'[p] = base[p]
    <3>1. Replacing(q)' => Replacing(q)
      BY <1>7, RequestMovesOne
      DEF Prepare, ActivationFails, Publish, PublishFails, Rewrite, RewriteFails, Clear, Complete,
          WithdrawNext, Release, At, Go, Replacing, CleanupInv, TypeInv, Places, Requests
    <3>2. ~Replacing(q)' \/ UNCHANGED base
      BY <1>7
      DEF Prepare, ActivationFails, Publish, PublishFails, Rewrite, RewriteFails, Clear, Complete,
          Go, Replacing, CleanupInv, TypeInv, Places, Requests, requests
    <3>3. \A p \in Requests : p # q => base'[p] = base[p]
      BY <1>7
      DEF Prepare, ActivationFails, Publish, PublishFails, Rewrite, RewriteFails, Clear, Complete,
          CleanupInv, TypeInv, TypeOK, requests
    <3> QED
      BY <1>2, <3>1, <3>2, <3>3 DEF Replacing
  <2>3. \A v \in Versions : Dead(v) => Dead(v)'
    BY <1>2, <1>7
    DEF Prepare, ActivationFails, Publish, PublishFails, Rewrite, RewriteFails, Clear, Complete,
        At, Dead, Requests, d1
  <2>4. RouteKept' /\ Unrouted'
    BY <1>1, <1>3, <1>4, <2>1 DEF CleanupInv, WorkersInv, RouteKept, Unrouted, Kept, Excused
  <2>5. OfferedKept'
    BY <1>3, <1>4, <2>3 DEF CleanupInv, WorkersInv, OfferedKept
  <2>6. BaseKept' /\ BasesDiffer'
    BY <1>3, <2>1, <2>2 DEF CleanupInv, WorkersInv, BaseKept, BasesDiffer, Open, Kept, Excused
  <2> QED
    BY <1>5, <1>6, <2>4, <2>5, <2>6 DEF WorkersInv
<1>8. CASE Restore(q)
  <2>1. /\ Replacing(q) /\ base[q] \in Versions /\ route' \in {route, base[q]}
        /\ UNCHANGED <<base, succeeded>>
    BY <1>8 DEF Restore, Reroute, Replacing, At, CleanupInv, TypeInv, TypeOK, Places, Based,
                Locked, requests
  <2>2. \A p \in Requests : Replacing(p)' => Replacing(p)
    BY <1>2, <2>1 DEF Replacing
  <2>3. \A v \in Versions : Dead(v) => Dead(v)'
    BY <1>2, <1>8, <2>1 DEF Restore, At, Dead, Requests
  <2>4. RouteKept'
    BY <1>4, <2>1 DEF CleanupInv, WorkersInv, RouteKept, BaseKept, Kept, Excused
  <2>5. OfferedKept'
    BY <1>3, <1>4, <2>3 DEF CleanupInv, WorkersInv, OfferedKept
  <2>6. BaseKept' /\ BasesDiffer'
    BY <1>3, <2>1, <2>2 DEF CleanupInv, WorkersInv, BaseKept, BasesDiffer, Open, Kept, Excused
  <2>7. Unrouted'
    <3> SUFFICES ASSUME NEW e \in Runners, pc[e] = "delete", tasks[running[e]].ver = route'
                 PROVE  route' \in outdated' \/ route' \in unrecorded'
      BY <1>1, <1>3 DEF Unrouted, Excused
    <3>1. running[e] \in DOMAIN tasks /\ Open(running[e])
      BY RunsAnOpenTask DEF CleanupInv, Runs
    <3>2. CASE route' = route
      BY <1>3, <3>2 DEF CleanupInv, WorkersInv, Unrouted, Excused
    <3>3. CASE route' = base[q]
      BY <1>3, <2>1, <3>1, <3>3 DEF CleanupInv, WorkersInv, BaseKept
    <3> QED
      BY <2>1, <3>2, <3>3
  <2> QED
    BY <1>5, <1>6, <2>4, <2>5, <2>6, <2>7 DEF WorkersInv
<1>9. CASE Activate(q)
  <2> DEFINE v == target[q]
  <2>1. /\ v \in Versions /\ offered[v] = "active" /\ route' = v
        /\ base[q] = route /\ lock = q
        /\ UNCHANGED <<base, succeeded>>
    BY <1>9 DEF Activate, At, MayActivate, Reroute, CleanupInv, TypeInv, TypeOK, Places, Aimed,
                Locked, RequestsInv, LockHeld, requests
  <2>2. ~Dead(v)
    BY <1>9 DEF Activate, At, Dead, CleanupInv, TypeInv, Places, RequestsInv, TargetsAreKnown,
                Requests
  <2>3. RouteKept'
    BY <1>4, <2>1, <2>2 DEF CleanupInv, WorkersInv, RouteKept, OfferedKept, Kept, Excused
  <2>4. \A w \in Versions : Dead(w) => Dead(w)'
    BY <1>2, <1>9 DEF Activate, At, Go, Dead, CleanupInv, TypeInv, Places, Requests
  <2>5. OfferedKept'
    BY <1>3, <1>4, <2>4 DEF CleanupInv, WorkersInv, OfferedKept
  <2>6. \A p \in Requests \ {q} : Replacing(p)' <=> Replacing(p)
    BY <1>2 DEF Replacing
  <2>7. Condemned(route) => route \in outdated'
    BY <1>9, <2>1 DEF Activate, Reroute
  <2>8. BaseKept'
    <3>1. route \in outdated' \/ \A t \in DOMAIN tasks : tasks[t].ver = route => ~Open(t)
      BY <2>7 DEF Condemned, OpenTasks
    <3> QED
      BY <1>3, <2>1, <2>6, <3>1 DEF CleanupInv, WorkersInv, BaseKept, RouteKept, Open, Kept, Excused
  <2>9. BasesDiffer'
    <3>1. \A p \in Requests \ {q} : Replacing(p) /\ base[p] = route => route \in outdated'
      BY <2>1, <2>7 DEF Replacing, Condemned, CleanupInv, RequestsInv, LockHeld, Locked
    <3> QED
      BY <1>3, <2>1, <2>6, <3>1 DEF CleanupInv, WorkersInv, BasesDiffer
  <2>10. Unrouted'
    <3> SUFFICES ASSUME NEW e \in Runners, pc[e] = "delete", tasks[running[e]].ver = v
                 PROVE  Excused(v)
      BY <1>1, <1>3, <2>1 DEF Unrouted, Excused
    <3>1. running[e] \in DOMAIN tasks
      BY RunsAnOpenTask DEF CleanupInv, Runs
    <3> QED
      BY <2>1, <3>1 DEF CleanupInv, RequestsInv, TasksAreKnown, WorkersInv, Retiring
  <2> QED
    BY <1>5, <1>6, <2>3, <2>5, <2>8, <2>9, <2>10 DEF WorkersInv
<1> QED
  BY <1>7, <1>8, <1>9 DEF Request

\* The Workers stay as long as no request comes to replace a version, no run
\* goes on, and what becomes available has its Worker.
LEMMA WorkersStay ==
  ASSUME CleanupInv,
         UNCHANGED <<route, base, running, outdated, unrecorded>>,
         workers \subseteq workers',
         \A p \in Requests : Replacing(p)' => Replacing(p),
         \A e \in Runners : pc'[e] = pc[e],
         \A v \in Versions : Dead(v) => Dead(v)',
         \A v \in Versions : offered'[v] = offered[v] \/ (offered[v] = "none" /\ Kept(v)),
         DOMAIN tasks' = DOMAIN tasks,
         \A t \in DOMAIN tasks : /\ tasks'[t].ver = tasks[t].ver /\ tasks'[t].known = tasks[t].known
                                 /\ tasks'[t].status = tasks[t].status
  PROVE  WorkersInv'
<1>1. \A v : /\ Kept(v) => Kept(v)'
             /\ Excused(v)' <=> Excused(v)
  BY DEF Kept, Excused
<1>2. RouteKept' /\ Unrouted'
  <2>1. \A e \in Runners : pc[e] = "delete" => running[e] \in DOMAIN tasks
    BY RunsATask DEF CleanupInv
  <2> QED
    BY <1>1, <2>1 DEF CleanupInv, WorkersInv, RouteKept, Unrouted
<1>3. OfferedKept'
  BY <1>1 DEF CleanupInv, WorkersInv, OfferedKept
<1>4. BaseKept' /\ BasesDiffer'
  BY <1>1 DEF CleanupInv, WorkersInv, BaseKept, BasesDiffer, Open
<1>5. OneTask' /\ TaskKept'
  BY <1>1 DEF CleanupInv, WorkersInv, OneTask, TaskKept, Deleted, Open
<1>6. Retiring'
  <2> SUFFICES ASSUME NEW e \in Runners, pc[e] \in {"recheck", "delete", "retired"},
                      tasks'[running[e]].known
               PROVE  \/ offered'[tasks'[running[e]].ver] = "retiring"
                      \/ Excused(tasks'[running[e]].ver)
    BY DEF Retiring, Excused
  <2>1. running[e] \in DOMAIN tasks /\ tasks[running[e]].ver \in Versions
    BY RunsAnOpenTask DEF CleanupInv, Runs
  <2>2. tasks[running[e]].known
    BY <2>1
  <2>3. offered[tasks[running[e]].ver] # "none"
    BY <2>1, <2>2 DEF CleanupInv, RequestsInv, TasksAreKnown
  <2> QED
    BY <2>1, <2>2, <2>3 DEF CleanupInv, WorkersInv, Retiring
<1> QED
  BY <1>2, <1>3, <1>4, <1>5, <1>6 DEF WorkersInv

\* A task may be filed for a Worker that is there, when nothing else is open
\* for its version and no request replaces it; or else the version is excused.
LEMMA FilingKeepsWorkers ==
  ASSUME CleanupInv, NEW v \in Versions, NEW due \in BOOLEAN, File(v, due), Kept(v),
         v \in outdated \/ \A t \in DOMAIN tasks : tasks[t].ver = v => ~Open(t),
         v \in outdated \/ \A q \in Requests : Replacing(q)' => base[q] # v,
         UNCHANGED <<route, offered, succeeded, workers, base, running, outdated, unrecorded>>,
         \A p \in Requests : Replacing(p)' => Replacing(p),
         \A p \in Requests \cup Runners : pc'[p] = pc[p] \/ (pc[p] = "enqueue" /\ pc'[p] = "done")
  PROVE  WorkersInv'
<1>1. \A w : /\ Kept(w)' <=> Kept(w)
             /\ Excused(w)' <=> Excused(w)
  BY DEF Kept, Excused
<1>2. \A t \in DOMAIN tasks : t \in DOMAIN tasks' /\ tasks'[t] = tasks[t]
  BY FileKeepsTasks DEF CleanupInv
<1>3. \A t \in DOMAIN tasks' \ DOMAIN tasks :
        tasks'[t].ver = v /\ DOMAIN tasks' = DOMAIN tasks \cup {t}
  <2>1. Task(v, due).ver = v
    BY DEF Task
  <2> QED
    BY <2>1, FiledTask DEF CleanupInv
<1>4. \A e \in Runners : pc'[e] = pc[e]
  BY DEF CleanupInv, TypeInv, Places, Phases
<1>5. RouteKept' /\ OfferedKept'
  BY <1>1 DEF CleanupInv, WorkersInv, RouteKept, OfferedKept, Dead, Requests
<1>6. BaseKept'
  <2> SUFFICES ASSUME NEW q \in Requests, Replacing(q)'
               PROVE  /\ Kept(base[q])
                      /\ \/ base[q] \in outdated
                         \/ \A t \in DOMAIN tasks' : tasks'[t].ver = base[q] => ~Open(t)'
    BY DEF BaseKept, Kept, Excused
  <2>1. /\ Kept(base[q])
        /\ base[q] \in outdated \/ \A t \in DOMAIN tasks : tasks[t].ver = base[q] => ~Open(t)
        /\ v \in outdated \/ base[q] # v
    BY DEF CleanupInv, WorkersInv, BaseKept
  <2>2. ASSUME NEW t \in DOMAIN tasks', tasks'[t].ver = base[q], Open(t)', base[q] \notin outdated
        PROVE  FALSE
    <3>1. CASE t \in DOMAIN tasks
      BY <1>2, <2>1, <2>2, <3>1 DEF Open
    <3>2. CASE t \notin DOMAIN tasks
      BY <1>3, <2>1, <2>2, <3>2
    <3> QED
      BY <3>1, <3>2
  <2> QED
    BY <2>1, <2>2
<1>7. BasesDiffer'
  BY DEF CleanupInv, WorkersInv, BasesDiffer
<1>8. OneTask'
  <2> SUFFICES ASSUME NEW t \in DOMAIN tasks', NEW u \in DOMAIN tasks', t # u,
                      Open(t)', Open(u)', tasks'[t].ver = tasks'[u].ver
               PROVE  tasks'[t].ver \in outdated
    BY DEF OneTask
  <2>1. CASE t \in DOMAIN tasks /\ u \in DOMAIN tasks
    BY <1>2, <2>1 DEF CleanupInv, WorkersInv, OneTask, Open
  <2>2. CASE t \in DOMAIN tasks /\ u \notin DOMAIN tasks
    <3>1. tasks'[t] = tasks[t] /\ tasks'[u].ver = v
      BY <1>2, <1>3, <2>2
    <3> QED
      BY <2>2, <3>1 DEF Open
  <2>3. CASE t \notin DOMAIN tasks /\ u \in DOMAIN tasks
    <3>1. tasks'[u] = tasks[u] /\ tasks'[t].ver = v
      BY <1>2, <1>3, <2>3
    <3> QED
      BY <2>3, <3>1 DEF Open
  <2>4. CASE t \notin DOMAIN tasks /\ u \notin DOMAIN tasks
    BY <1>3, <2>4
  <2> QED
    BY <2>1, <2>2, <2>3, <2>4
<1>9. TaskKept'
  <2> SUFFICES ASSUME NEW t \in DOMAIN tasks', Open(t)'
               PROVE  Kept(tasks'[t].ver) \/ Deleted(t)'
    BY DEF TaskKept, Kept, Excused
  <2>1. CASE t \in DOMAIN tasks
    BY <1>2, <1>4, <2>1 DEF CleanupInv, WorkersInv, TaskKept, Deleted, Open
  <2>2. CASE t \notin DOMAIN tasks
    BY <1>3, <2>2
  <2> QED
    BY <2>1, <2>2
<1>10. Retiring' /\ Unrouted'
  <2>1. \A e \in Runners : pc[e] # "idle" => tasks'[running[e]] = tasks[running[e]]
    BY <1>2, RunsATask DEF CleanupInv
  <2> QED
    BY <1>1, <1>4, <2>1 DEF CleanupInv, WorkersInv, Retiring, Unrouted
<1> QED
  BY <1>5, <1>6, <1>7, <1>8, <1>9, <1>10 DEF WorkersInv

\* Nor does a step that only deployments take.
LEMMA DeployMovesOne ==
  ASSUME TypeInv, NEW d \in Deployments, Deploy(d)
  PROVE  \A p \in Requests \cup Runners : p # d => pc'[p] = pc[p]
<1>1. \E step : Go(d, step)
  BY DEF Deploy, Upload, CreateVersion, Withdraw, Discard, Enqueue, Release
<1> QED
  BY <1>1, GoMovesOne DEF Requests

LEMMA DeployKeepsWorkers ==
  ASSUME CleanupInv, NEW d \in Deployments, Deploy(d)
  PROVE  WorkersInv'
<1> USE WorkerCleanupAssumption
<1>1. \A e \in Runners : pc'[e] = pc[e]
  BY DeployMovesOne DEF CleanupInv, Requests
<1>2. \A p \in Requests : p # d => pc'[p] = pc[p]
  BY DeployMovesOne DEF CleanupInv, Requests
<1>3. UNCHANGED <<route, succeeded, base, running, outdated, unrecorded>>
  BY DEF Deploy, Upload, CreateVersion, Withdraw, Discard, Enqueue, d1, requests,
         history
<1>4. \A p \in Requests : Replacing(p)' => Replacing(p)
  BY <1>2
  DEF CleanupInv, TypeInv, Places, Requests, Deploy, Upload, CreateVersion, Withdraw, Discard,
      Enqueue, Release, At, Go, Replacing
<1>5. \A v \in Versions : Dead(v) => Dead(v)'
  BY <1>2, <1>3
  DEF CleanupInv, TypeInv, Places, Requests, Deploy, Upload, CreateVersion, Withdraw, Discard,
      Enqueue, Release, At, Go, Dead
<1>6. CASE Upload(d)
  BY <1>1, <1>3, <1>4, <1>5, <1>6, WorkersStay DEF Upload, d1
<1>7. CASE CreateVersion(d)
  <2>1. d \in workers /\ offered[d] = "none"
    BY <1>7 DEF CreateVersion, At, CleanupInv, RequestsInv, Uploaded, Bringing
  <2>2. \A v \in Versions : offered'[v] = offered[v] \/ (offered[v] = "none" /\ Kept(v))
    BY <1>7, <2>1 DEF CreateVersion, Kept, CleanupInv, TypeInv, TypeOK
  <2> QED
    BY <1>1, <1>3, <1>4, <1>5, <1>7, <2>2, WorkersStay DEF CreateVersion
<1>8. CASE Enqueue(d)
  <2> DEFINE v == base[d]
  <2>1. v \in Versions /\ File(v, FALSE) /\ Replacing(d)
    BY <1>8 DEF Enqueue, At, Replacing, CleanupInv, TypeInv, TypeOK, Places, Based, Requests
  <2>2. /\ Kept(v)
        /\ v \in outdated \/ \A t \in DOMAIN tasks : tasks[t].ver = v => ~Open(t)
    BY <2>1 DEF CleanupInv, WorkersInv, BaseKept, Requests
  <2>3. ~Replacing(d)'
    BY <1>8 DEF Enqueue, Go, Replacing, CleanupInv, TypeInv, Places, Requests
  <2>4. v \in outdated \/ \A q \in Requests : Replacing(q)' => base[q] # v
    BY <1>4, <2>1, <2>3 DEF CleanupInv, WorkersInv, BasesDiffer, Requests
  <2>5. \A p \in Requests \cup Runners : pc'[p] = pc[p] \/ (pc[p] = "enqueue" /\ pc'[p] = "done")
    BY <1>1, <1>2, <1>8 DEF Enqueue, At, Go, CleanupInv, TypeInv, Places, Requests
  <2>6. UNCHANGED <<offered, workers>>
    BY <1>8 DEF Enqueue
  <2> QED
    BY <1>3, <1>4, <2>1, <2>2, <2>4, <2>5, <2>6, FilingKeepsWorkers
<1>9. CASE Withdraw(d) \/ Discard(d)
  <2>1. /\ Dead(d) /\ route # d /\ \A q \in Requests : base[q] # d
        /\ \A t \in DOMAIN tasks : tasks[t].ver # d
    BY <1>9
    DEF Withdraw, Discard, At, Dead, CleanupInv, RequestsInv, ActiveIsKnown, Uploaded, Bringing,
        Locked
  <2>2. \A v : v # d => (Kept(v) => Kept(v)')
    BY <1>3, <1>9 DEF Withdraw, Discard, Kept, Excused
  <2>3. \A v : Excused(v)' <=> Excused(v)
    BY <1>3 DEF Excused
  <2>4. UNCHANGED <<offered, tasks>>
    BY <1>9 DEF Withdraw, Discard, d1
  <2>5. RouteKept' /\ OfferedKept'
    BY <1>3, <1>5, <2>1, <2>2, <2>4 DEF CleanupInv, WorkersInv, RouteKept, OfferedKept
  <2>6. BaseKept' /\ BasesDiffer'
    BY <1>3, <1>4, <2>1, <2>2, <2>4 DEF CleanupInv, WorkersInv, BaseKept, BasesDiffer, Open
  <2>7. OneTask' /\ TaskKept'
    BY <1>1, <1>3, <2>1, <2>2, <2>4 DEF CleanupInv, WorkersInv, OneTask, TaskKept, Deleted, Open
  <2>8. Retiring' /\ Unrouted'
    BY <1>1, <1>3, <2>3, <2>4 DEF CleanupInv, WorkersInv, Retiring, Unrouted
  <2> QED
    BY <2>5, <2>6, <2>7, <2>8 DEF WorkersInv
<1> QED
  BY <1>6, <1>7, <1>8, <1>9 DEF Deploy

\* Nor do the choice of a version, routers, the administrator and time touch
\* the Worker of a version.
LEMMA OthersKeepWorkers ==
  ASSUME CleanupInv, "early" \notin Faults,
         \/ \E r \in Rollbacks : Choose(r)
         \/ \E v \in Versions : CacheExpires(v) \/ Backfill(v)
         \/ \E t \in DOMAIN tasks : DrainWindowEnds(t) \/ LeaseEnds(t)
         \/ UNCHANGED vars
  PROVE  WorkersInv'
<1>1. ASSUME NEW r \in Rollbacks, Choose(r) PROVE WorkersInv'
  <2>1. /\ UNCHANGED <<route, offered, succeeded, tasks, workers, base, running, outdated,
                       unrecorded>>
        /\ \A p \in Requests \cup Runners : p # r => pc'[p] = pc[p]
        /\ pc'[r] = "lock"
    BY <1>1, GoMovesOne DEF Choose, CleanupInv, Requests, d1, history
  <2>2. \A p \in Requests : Replacing(p)' => Replacing(p)
    BY <2>1 DEF Replacing
  <2>3. /\ \A e \in Runners : pc'[e] = pc[e]
        /\ \A v \in Versions : Dead(v) => Dead(v)'
    BY <2>1, WorkerCleanupAssumption DEF Dead, Requests
  <2> QED
    BY <2>1, <2>2, <2>3, WorkersStay
<1>2. ASSUME NEW v \in Versions, Backfill(v) PROVE WorkersInv'
  <2>1. /\ v \in workers /\ OpenTasks(v) = {} /\ ~InUse(v) /\ File(v, TRUE)
        /\ UNCHANGED <<route, offered, succeeded, workers, pc, base, running, outdated, unrecorded>>
    BY <1>2 DEF Backfill, requests, history
  <2>2. Kept(v) /\ \A t \in DOMAIN tasks : tasks[t].ver = v => ~Open(t)
    BY <2>1 DEF Kept, OpenTasks
  <2>3. \A q \in Requests : (Replacing(q)' <=> Replacing(q)) /\ (Replacing(q) => base[q] # v)
    BY <2>1 DEF Replacing, InUse
  <2> QED
    BY <2>1, <2>2, <2>3, FilingKeepsWorkers
<1>3. ASSUME \/ \E v \in Versions : CacheExpires(v)
             \/ \E t \in DOMAIN tasks : DrainWindowEnds(t) \/ LeaseEnds(t)
             \/ UNCHANGED vars
      PROVE  WorkersInv'
  <2>1. UNCHANGED <<route, offered, succeeded, workers, pc, base, running, outdated, unrecorded>>
    BY <1>3 DEF CacheExpires, DrainWindowEnds, LeaseEnds, vars, d1, requests, history
  <2>2. /\ DOMAIN tasks' = DOMAIN tasks
        /\ \A t \in DOMAIN tasks :
             /\ tasks'[t].ver = tasks[t].ver /\ tasks'[t].known = tasks[t].known
             /\ tasks'[t].status = tasks[t].status
    BY <1>3, TimeKeepsTasks DEF CacheExpires, vars, d1, CleanupInv
  <2>3. /\ \A p \in Requests : Replacing(p)' => Replacing(p)
        /\ \A v \in Versions : Dead(v) => Dead(v)'
    BY <2>1 DEF Replacing, Dead
  <2> QED
    BY <2>1, <2>2, <2>3, WorkersStay
<1> QED
  BY <1>1, <1>2, <1>3

\* A runner that marks its version disturbs no other: two runs for one version
\* are excused.
LEMMA MarkingKeepsRetiring ==
  ASSUME CleanupInv, NEW e \in Runners, Runs(e),
         NEW state \in {"active", "retiring", "retired"}, Mark(e, state),
         UNCHANGED <<tasks, running>>, outdated' = outdated, unrecorded \subseteq unrecorded',
         \A f \in Runners \ {e} : pc'[f] = pc[f],
         pc'[e] \in {"recheck", "delete", "retired"} => state = "retiring"
  PROVE  Retiring'
<1> SUFFICES ASSUME NEW f \in Runners, pc'[f] \in {"recheck", "delete", "retired"},
                    tasks[running[f]].known,
                    tasks[running[f]].ver \notin outdated, tasks[running[f]].ver \notin unrecorded
             PROVE  offered'[tasks[running[f]].ver] = "retiring"
  BY DEF Retiring, Excused
<1>1. running[e] \in DOMAIN tasks /\ Open(running[e]) /\ tasks[running[e]].ver \in Versions
  BY RunsAnOpenTask DEF CleanupInv
<1>2. CASE f = e
  BY <1>1, <1>2 DEF Mark, CleanupInv, TypeInv, TypeOK
<1>3. CASE f # e
  <2>1. /\ Runs(f) /\ running[f] \in DOMAIN tasks /\ Open(running[f])
        /\ tasks[running[f]].ver \in Versions /\ running[f] # running[e]
    BY <1>3, RunsAnOpenTask DEF CleanupInv, Runs
  <2>2. offered[tasks[running[f]].ver] = "retiring"
    BY <1>3 DEF CleanupInv, WorkersInv, Retiring, Excused
  <2>3. tasks[running[f]].ver # tasks[running[e]].ver
    BY <1>1, <2>1 DEF CleanupInv, WorkersInv, OneTask
  <2> QED
    BY <2>1, <2>2, <2>3 DEF Mark, CleanupInv, TypeInv, TypeOK
<1> QED
  BY <1>2, <1>3

\* What holds of a run's version when it is offered, marked or given up.
LEMMA RunKeepsTasks ==
  ASSUME CleanupInv, NEW e \in Runners,
         \A v : Kept(v) => Kept(v)',
         DOMAIN tasks' = DOMAIN tasks,
         \A t \in DOMAIN tasks : tasks'[t].ver = tasks[t].ver /\ (Open(t)' => Open(t)),
         \A f \in Runners \ {e} : pc'[f] = pc[f] /\ running'[f] = running[f],
         outdated' = outdated, UNCHANGED base,
         \A p \in Requests : pc'[p] = pc[p],
         \A t \in DOMAIN tasks :
           running[e] = t /\ pc[e] \in {"retired", "succeed"} /\ Open(t)' =>
             Kept(tasks[t].ver)' \/ (running'[e] = t /\ pc'[e] \in {"retired", "succeed"})
  PROVE  BaseKept' /\ BasesDiffer' /\ OneTask' /\ TaskKept'
<1>1. \A p \in Requests : Replacing(p)' <=> Replacing(p)
  BY DEF Replacing
<1>2. BaseKept'
  <2> SUFFICES ASSUME NEW q \in Requests, Replacing(q)'
               PROVE  /\ Kept(base[q])'
                      /\ \/ base[q] \in outdated
                         \/ \A t \in DOMAIN tasks' : tasks'[t].ver = base[q] => ~Open(t)'
    BY DEF BaseKept
  <2> QED
    BY <1>1 DEF CleanupInv, WorkersInv, BaseKept
<1>3. BasesDiffer'
  BY <1>1 DEF CleanupInv, WorkersInv, BasesDiffer
<1>4. OneTask'
  BY DEF CleanupInv, WorkersInv, OneTask
<1>5. TaskKept'
  <2> SUFFICES ASSUME NEW t \in DOMAIN tasks, Open(t)'
               PROVE  Kept(tasks[t].ver)' \/ Deleted(t)'
    BY DEF TaskKept
  <2>1. CASE Kept(tasks[t].ver)
    BY <2>1
  <2>2. CASE Deleted(t)
    BY <2>2 DEF Deleted
  <2> QED
    BY <2>1, <2>2 DEF CleanupInv, WorkersInv, TaskKept
<1> QED
  BY <1>2, <1>3, <1>4, <1>5

\* A Worker is deleted only for a version that is not offered and not active.
LEMMA DeletionKeepsWorkers ==
  ASSUME CleanupInv, NEW e \in Runners, DeleteWorker(e)
  PROVE  WorkersInv'
<1> DEFINE t == running[e]
           v == tasks[t].ver
<1>1. /\ t \in DOMAIN tasks /\ Open(t) /\ v \in Versions
      /\ \A f \in Runners : f # e /\ Runs(f) => running[f] # t
  BY RunsAnOpenTask DEF DeleteWorker, At, Runs, CleanupInv
<1>2. /\ UNCHANGED <<route, offered, succeeded, tasks, base, running, outdated>>
      /\ unrecorded \subseteq unrecorded'
      /\ pc[e] = "delete" /\ pc'[e] \in {"retired", "offer"}
      /\ \A p \in Requests \cup Runners : p # e => pc'[p] = pc[p]
      /\ \A w : w # v => (Kept(w) => Kept(w)')
      /\ Kept(v) => Kept(v)' \/ pc'[e] = "retired"
  <2>1. /\ UNCHANGED <<route, offered, succeeded, tasks, base, running, outdated>>
        /\ unrecorded \subseteq unrecorded'
        /\ workers' \in {workers, workers \ {v}}
        /\ workers' = workers \/ pc'[e] = "retired" \/ v \in unrecorded'
        /\ pc[e] = "delete" /\ pc'[e] \in {"retired", "offer"}
    BY GoMovesOne DEF DeleteWorker, At, Unrecorded, d1, requests, CleanupInv
  <2>2. \A p \in Requests \cup Runners : p # e => pc'[p] = pc[p]
    BY GoMovesOne DEF DeleteWorker, CleanupInv
  <2> QED
    BY <2>1, <2>2 DEF Kept, Excused
<1>3. \A w : Excused(w) => Excused(w)'
  BY <1>2 DEF Excused
<1>4. offered[v] # "active" \/ Excused(v)
  BY <1>1, <1>2 DEF CleanupInv, WorkersInv, Retiring, RequestsInv, TasksAreKnown
<1>5. route # v \/ Excused(v)
  BY <1>2 DEF CleanupInv, WorkersInv, Unrouted
<1>6. Excused(v) => Kept(v)'
  BY <1>2, <1>3 DEF Kept, Excused
<1>7. \A p \in Requests : pc'[p] = pc[p]
  BY <1>2, WorkerCleanupAssumption
<1>8. RouteKept'
  BY <1>2, <1>5, <1>6 DEF CleanupInv, WorkersInv, RouteKept
<1>9. OfferedKept'
  BY <1>2, <1>4, <1>6, <1>7 DEF CleanupInv, WorkersInv, OfferedKept, Dead, Requests
<1>10. BaseKept' /\ BasesDiffer'
  <2>1. \A p \in Requests : Replacing(p)' <=> Replacing(p)
    BY <1>7 DEF Replacing
  <2>2. \A p \in Requests : Replacing(p) /\ base[p] = v => v \in outdated
    BY <1>1 DEF CleanupInv, WorkersInv, BaseKept
  <2>3. v \in outdated => Kept(v)'
    BY <1>6 DEF Excused
  <2>4. \A p \in Requests : Replacing(p) => Kept(base[p])'
    BY <1>2, <2>2, <2>3 DEF CleanupInv, WorkersInv, BaseKept
  <2> QED
    BY <1>2, <2>1, <2>4 DEF CleanupInv, WorkersInv, BaseKept, BasesDiffer, Open
<1>11. OneTask'
  BY <1>2 DEF CleanupInv, WorkersInv, OneTask, Open
<1>12. TaskKept'
  <2> SUFFICES ASSUME NEW u \in DOMAIN tasks, Open(u)
               PROVE  Kept(tasks[u].ver)' \/ Deleted(u)'
    BY <1>2 DEF TaskKept, Open
  <2>1. CASE u = t
    <3>1. ~Deleted(t)
      BY <1>1, <1>2 DEF Deleted, Runs
    <3>2. Kept(v)
      BY <1>1, <3>1 DEF CleanupInv, WorkersInv, TaskKept
    <3>3. CASE pc'[e] = "retired"
      BY <1>2, <2>1, <3>3 DEF Deleted
    <3>4. CASE Kept(v)'
      BY <1>2, <2>1, <3>4
    <3> QED
      BY <1>2, <3>2, <3>3, <3>4
  <2>2. CASE u # t /\ tasks[u].ver = v
    BY <1>1, <1>2, <1>6, <2>2 DEF CleanupInv, WorkersInv, OneTask, Excused
  <2>3. CASE tasks[u].ver # v
    BY <1>2, <2>3 DEF CleanupInv, WorkersInv, TaskKept, Deleted
  <2> QED
    BY <2>1, <2>2, <2>3
<1>13. Retiring'
  BY <1>2 DEF CleanupInv, WorkersInv, Retiring, Excused
<1>14. Unrouted'
  BY <1>2 DEF CleanupInv, WorkersInv, Unrouted, Excused
<1> QED
  BY <1>8, <1>9, <1>10, <1>11, <1>12, <1>13, <1>14 DEF WorkersInv

\* A runner keeps the Workers.
LEMMA RunnerKeepsWorkers ==
  ASSUME CleanupInv, NEW e \in Runners, Pick(e) \/ Execute(e) \/ StatementFails(e) \/ Stop(e)
  PROVE  WorkersInv'
<1>1. CASE DeleteWorker(e)
  BY <1>1, DeletionKeepsWorkers
<1>2. CASE ~DeleteWorker(e)
  <2>1. /\ UNCHANGED <<route, succeeded, workers, base>>
        /\ outdated' = outdated /\ unrecorded \subseteq unrecorded'
    BY <1>2 DEF Pick, Execute, StatementFails, Stop, Take, Retire, Recheck, Offer, MarkRetired,
                Succeed, Fail, Unrecorded, d1, requests, history
  <2>2. \A f \in Runners \ {e} : pc'[f] = pc[f] /\ running'[f] = running[f]
    <3>1. \E step : Go(e, step)
      BY <1>2 DEF Pick, Execute, StatementFails, Stop, Take, Retire, Recheck, Offer, MarkRetired,
                  Succeed, Fail, Rest
    <3>2. UNCHANGED running \/ \E x : running' = [running EXCEPT ![e] = x]
      BY <1>2 DEF Pick, Execute, StatementFails, Stop, Take, Retire, Recheck, Offer, MarkRetired,
                  Succeed, Fail, Rest
    <3> QED
      BY <3>1, <3>2, GoMovesOne DEF CleanupInv, TypeInv, TypeOK
  <2>3. \A q \in Requests : pc'[q] = pc[q]
    <3>1. \E step : Go(e, step)
      BY <1>2 DEF Pick, Execute, StatementFails, Stop, Take, Retire, Recheck, Offer, MarkRetired,
                  Succeed, Fail, Rest
    <3> QED
      BY <3>1, GoMovesOne, WorkerCleanupAssumption DEF CleanupInv, Requests
  <2>4. \A v : /\ Kept(v) => Kept(v)'
               /\ Excused(v) => Excused(v)'
    BY <2>1 DEF Kept, Excused
  <2>5. RouteKept'
    BY <2>1, <2>4 DEF CleanupInv, WorkersInv, RouteKept
  <2>6. \A v \in Versions : Dead(v) => Dead(v)'
    BY <2>1, <2>3 DEF Dead, Requests
  <2>7. Runs(e) => /\ running[e] \in DOMAIN tasks /\ Open(running[e])
                   /\ tasks[running[e]].ver \in Versions
                   /\ \A f \in Runners : f # e /\ Runs(f) => running[f] # running[e]
    BY RunsAnOpenTask DEF CleanupInv
  <2>8. /\ DOMAIN tasks' = DOMAIN tasks
        /\ \A t \in DOMAIN tasks : /\ tasks'[t].ver = tasks[t].ver
                                   /\ tasks'[t].known = tasks[t].known
                                   /\ Open(t)' => Open(t)
        /\ \A t \in DOMAIN tasks : t # running[e] => tasks'[t] = tasks[t]
    <3>1. CASE UNCHANGED tasks
      BY <3>1 DEF Open
    <3>2. CASE /\ running[e] \in DOMAIN tasks /\ Open(running[e])
               /\ \E status \in {"running", "failed", "succeeded"}, lease \in {"none", "held"} :
                    tasks' = [tasks EXCEPT ![running[e]].status = status,
                                           ![running[e]].lease = lease]
      <4>1. PICK status \in {"running", "failed", "succeeded"}, lease \in {"none", "held"} :
              tasks' = [tasks EXCEPT ![running[e]].status = status, ![running[e]].lease = lease]
        BY <3>2
      <4> DEFINE record == [tasks[running[e]] EXCEPT !.status = status, !.lease = lease]
      <4>2. tasks[running[e]] \in Records
        BY <3>2 DEF CleanupInv, TypeInv, TypeOK
      <4>3. record.ver = tasks[running[e]].ver /\ record.known = tasks[running[e]].known
        BY <4>2 DEF Records
      <4>4. tasks' = [tasks EXCEPT ![running[e]] = record]
        BY <4>1
      <4> QED
        BY <3>2, <4>3, <4>4 DEF Open, CleanupInv, TypeInv, TypeOK
    <3>3. CASE Take(e) /\ CanRun(running[e])
      <4>1. running[e] \in DOMAIN tasks /\ Open(running[e])
        BY <3>3, RunsATask DEF Take, At, CanRun, Open, CleanupInv
      <4> QED
        BY <3>2, <3>3, <4>1 DEF Take
    <3>4. CASE Succeed(e) \/ Fail(e)
      BY <2>7, <3>1, <3>2, <3>4 DEF Succeed, Fail, Close, Runs, At
    <3> QED
      BY <1>2, <3>1, <3>3, <3>4
      DEF Pick, Execute, StatementFails, Stop, Take, Retire, Recheck, Offer, MarkRetired, d1
  <2>9. \A f \in Runners : pc[f] # "idle" =>
           /\ running[f] \in DOMAIN tasks /\ tasks[running[f]].ver \in Versions
           /\ tasks'[running[f]].ver = tasks[running[f]].ver
           /\ tasks'[running[f]].known = tasks[running[f]].known
    BY <2>8, RunsATask, TasksHaveVersions DEF CleanupInv
  <2>10. ASSUME NEW t \in DOMAIN tasks, running[e] = t, pc[e] \in {"retired", "succeed"}, Open(t)'
         PROVE  Kept(tasks[t].ver)' \/ (running'[e] = t /\ pc'[e] \in {"retired", "succeed"})
    <3>1. CASE Unrecorded(e)
      BY <2>8, <2>10, <3>1 DEF Unrecorded, Kept, Excused
    <3>2. CASE Mark(e, "retired") /\ Go(e, "succeed") /\ UNCHANGED running
      BY <2>10, <3>2, GoMovesOne DEF CleanupInv
    <3>3. CASE Close(e, "succeeded")
      <4>1. tasks[t] \in Records
        BY DEF CleanupInv, TypeInv, TypeOK
      <4>2. [tasks[t] EXCEPT !.status = "succeeded", !.lease = "none"].status = "succeeded"
        BY <4>1 DEF Records
      <4>3. tasks' = [tasks EXCEPT ![t] =
                        [tasks[t] EXCEPT !.status = "succeeded", !.lease = "none"]]
        BY <2>10, <3>3 DEF Close
      <4> QED
        BY <2>10, <4>2, <4>3 DEF Open, CleanupInv, TypeInv, TypeOK
    <3> QED
      BY <1>2, <2>10, <3>1, <3>2, <3>3
      DEF Pick, Execute, StatementFails, Stop, Take, Retire, Recheck, Offer, MarkRetired, Succeed,
          Fail, At
  <2>11. BaseKept' /\ BasesDiffer' /\ OneTask' /\ TaskKept'
    BY <2>1, <2>2, <2>3, <2>4, <2>8, <2>10, RunKeepsTasks
  <2>12. OfferedKept'
    <3>1. \A v \in Versions : offered'[v] = "active" => offered[v] = "active" \/ Kept(v)
      <4>1. CASE UNCHANGED offered
        BY <4>1
      <4>2. CASE Mark(e, "retiring") \/ Mark(e, "retired")
        BY <4>2 DEF Mark, CleanupInv, TypeInv, TypeOK
      <4>3. CASE At(e, "offer") /\ Mark(e, "active")
        <5>1. ~Deleted(running[e])
          BY <2>7, <4>3 DEF Deleted, Runs, At
        <5>2. Kept(tasks[running[e]].ver)
          BY <2>7, <4>3, <5>1 DEF Runs, At, CleanupInv, WorkersInv, TaskKept
        <5> QED
          BY <4>3, <5>2 DEF Mark, CleanupInv, TypeInv, TypeOK
      <4> QED
        BY <1>2, <4>1, <4>2, <4>3
        DEF Pick, Execute, StatementFails, Stop, Take, Retire, Recheck, Offer, MarkRetired,
            Succeed, Fail, d1
    <3> QED
      BY <2>4, <2>6, <3>1 DEF CleanupInv, WorkersInv, OfferedKept
  <2>13. Retiring'
    <3>1. CASE \E state \in {"active", "retiring", "retired"} :
                 /\ Mark(e, state) /\ UNCHANGED <<tasks, running>> /\ Runs(e)
                 /\ pc'[e] \in {"recheck", "delete", "retired"} => state = "retiring"
      BY <2>1, <2>2, <3>1, MarkingKeepsRetiring
    <3>2. CASE /\ UNCHANGED offered
               /\ pc'[e] \in {"recheck", "delete", "retired"} =>
                    pc[e] \in {"recheck", "delete", "retired"} /\ running'[e] = running[e]
      <4> SUFFICES ASSUME NEW f \in Runners, pc'[f] \in {"recheck", "delete", "retired"},
                          tasks'[running'[f]].known
                   PROVE  \/ offered'[tasks'[running'[f]].ver] = "retiring"
                          \/ Excused(tasks[running[f]].ver)'
        BY DEF Retiring
      <4>1. pc[f] \in {"recheck", "delete", "retired"} /\ running'[f] = running[f]
        BY <2>2, <3>2
      <4>2. /\ tasks[running[f]].known /\ tasks'[running[f]].ver = tasks[running[f]].ver
        BY <2>9, <4>1
      <4> QED
        BY <2>4, <3>2, <4>1, <4>2 DEF CleanupInv, WorkersInv, Retiring
    <3>3. CASE Retire(e) \/ (Offer(e) /\ Mark(e, "active"))
              \/ (MarkRetired(e) /\ Mark(e, "retired"))
      BY <3>1, <3>3, GoMovesOne DEF Retire, Offer, MarkRetired, Runs, At, CleanupInv
    <3>4. CASE UNCHANGED offered
      <4>1. pc'[e] \in {"recheck", "delete", "retired"} => Recheck(e) \/ Retire(e)
        BY <1>2, GoMovesOne
        DEF Pick, Execute, StatementFails, Stop, Take, Offer, MarkRetired, Succeed, Fail, Rest,
            At, CleanupInv
      <4>2. CASE Recheck(e)
        BY <3>2, <3>4, <4>2 DEF Recheck, At
      <4> QED
        BY <3>2, <3>3, <3>4, <4>1, <4>2
    <3> QED
      BY <1>2, <3>3, <3>4
      DEF Pick, Execute, StatementFails, Stop, Take, Recheck, Offer, MarkRetired, Succeed, Fail, d1
  <2>14. Unrouted'
    <3> SUFFICES ASSUME NEW f \in Runners, pc'[f] = "delete"
                 PROVE  route' # tasks'[running'[f]].ver \/ Excused(tasks[running[f]].ver)'
      BY DEF Unrouted
    <3>1. CASE f # e
      BY <2>1, <2>2, <2>4, <2>9, <3>1 DEF CleanupInv, WorkersInv, Unrouted
    <3>2. CASE f = e
      <4>1. Recheck(e)
        BY <1>2, <3>2, GoMovesOne
        DEF Pick, Execute, StatementFails, Stop, Take, Retire, Offer, MarkRetired, Succeed, Fail,
            Rest, At, CleanupInv
      <4> QED
        BY <3>2, <4>1, GoMovesOne DEF Recheck, d1, CleanupInv
    <3> QED
      BY <3>1, <3>2
  <2> QED
    BY <2>5, <2>11, <2>12, <2>13, <2>14 DEF WorkersInv
<1> QED
  BY <1>1, <1>2

LEMMA CleanupInvInit == Init => CleanupInv
<1>1. Init => Exclusive
  BY WorkerCleanupAssumption DEF Init, Exclusive, Runs, Requests
<1> QED
  BY <1>1, TypeInvInit, RequestsInvInit, WorkersInvInit DEF CleanupInv

LEMMA CleanupInvNext ==
  ASSUME "slow" \notin Faults, "early" \notin Faults
  PROVE  CleanupInv /\ [Next]_vars => CleanupInv'
<1> SUFFICES ASSUME CleanupInv, [Next]_vars PROVE CleanupInv'
  OBVIOUS
<1>1. TypeInv' /\ Exclusive' /\ RequestsInv'
  BY TypeInvNext, ExclusiveNext, RequestsInvNext DEF CleanupInv
<1>2. WorkersInv'
  <2>1. CASE UNCHANGED vars
    BY <2>1, OthersKeepWorkers
  <2>2. CASE Next
    BY <2>2, RequestKeepsWorkers, DeployKeepsWorkers, OthersKeepWorkers, RunnerKeepsWorkers
    DEF Next
  <2> QED
    BY <2>1, <2>2
<1> QED
  BY <1>1, <1>2 DEF CleanupInv

\* However deployments, rollbacks and cleanup runs interleave, and wherever runs
\* stop or fail, the active version and every version that a rollback would
\* accept keep their Workers, with the two exceptions that the history variables
\* name.  Assumed: no run outlives its lease, and no orphan is filed that a
\* request under way still refers to (executeDeploymentCleanupTask,
\* activateSiteRoute, validateRollbackVersion).
THEOREM WorkersAreKept ==
  ASSUME "slow" \notin Faults, "early" \notin Faults
  PROVE  Spec => []VersionsKeepTheirWorkers
<1>1. CleanupInv => VersionsKeepTheirWorkers
  BY DEF CleanupInv, TypeInv, TypeOK, WorkersInv, RouteKept, OfferedKept, Kept, Excused, Dead,
         VersionsKeepTheirWorkers, ActiveWorkerExists, OfferedWorkerExists
<1> QED
  BY <1>1, CleanupInvInit, CleanupInvNext, PTL DEF Spec

-----------------------------------------------------------------------------
(* What the routers lead to.                                               *)

\* The pointer leads to the active version, or to one that nobody is about to
\* delete: a failed compensation may have left it behind.  It leads to the active
\* version when a deployment withdraws its Worker.
PointerIsSafe ==
  /\ published = None \/ published = route \/ Excused(published) \/ ~Condemned(published)
  /\ \A d \in Deployments : pc[d] = "withdraw" => published = route

\* Before and after the publication of a deployment that fails.
Unshown == {"upload", "version", "lock", "activate", "publish", "discard"}
Undoing == {"restore", "rewrite"}

\* What was never published is in no cache, and what was published and taken
\* back is in one only as withdrawn.
ShownIsKnown ==
  \A d \in Deployments :
    /\ pc[d] \in Unshown => d \notin cached /\ published # d
    /\ pc[d] \in Undoing => d \notin cached
    /\ pc[d] = "withdraw" => d \notin cached \/ d \in withdrawn

\* When the window of an open task is over, no cache has its version any more:
\* only a version that was active again in the meantime comes back there.
DueIsDrained ==
  \A t \in DOMAIN tasks : Open(t) /\ tasks[t].due =>
    tasks[t].ver \notin cached \/ tasks[t].ver = route \/ Excused(tasks[t].ver)

\* What runs is due.
RunsWhatIsDue == \A e \in Runners : Runs(e) => tasks[running[e]].due

EdgeKept ==
  /\ published # None => Kept(published)
  /\ \A v \in cached : Kept(v) \/ v \in withdrawn

EdgeInv == PointerIsSafe /\ ShownIsKnown /\ DueIsDrained /\ RunsWhatIsDue /\ EdgeKept

LEMMA EdgeInvInit == Init => EdgeInv
<1> SUFFICES ASSUME Init PROVE EdgeInv
  OBVIOUS
<1>1. PointerIsSafe /\ ShownIsKnown
  BY WorkerCleanupAssumption DEF Init, PointerIsSafe, ShownIsKnown, Undoing, Requests
<1>2. DueIsDrained /\ RunsWhatIsDue /\ EdgeKept
  BY WorkerCleanupAssumption
  DEF Init, DueIsDrained, RunsWhatIsDue, Runs, EdgeKept, Kept, Excused, Requests
<1> QED
  BY <1>1, <1>2 DEF EdgeInv

\* The edge stays when the route and the pointer do, no Worker in use goes, no
\* deployment publishes or withdraws, nothing new is filed for what the pointer
\* leads to, and every task that is due was due, or its version is in no cache.
LEMMA EdgeStays ==
  ASSUME CleanupInv, EdgeInv,
         UNCHANGED <<route, published, outdated, withdrawn>>, unrecorded \subseteq unrecorded',
         cached' \subseteq cached,
         published # None => Kept(published)',
         \A v \in cached : Kept(v) => Kept(v)' \/ v \in withdrawn,
         \A v \in Versions : v = published /\ Condemned(v)' => Condemned(v),
         \A d \in Deployments : /\ pc'[d] \in Unshown => pc[d] \in Unshown
                                /\ pc'[d] \in Undoing \cup {"withdraw"} => pc'[d] = pc[d],
         \A t \in DOMAIN tasks' : Open(t)' /\ tasks'[t].due =>
           \/ tasks'[t].ver \notin cached
           \/ t \in DOMAIN tasks /\ Open(t) /\ tasks[t].due /\ tasks'[t].ver = tasks[t].ver,
         \A e \in Runners : Runs(e)' => tasks'[running'[e]].due
  PROVE  EdgeInv'
<1>1. \A v : Excused(v) => Excused(v)'
  BY DEF Excused
<1>2. PointerIsSafe'
  <2>1. \A d \in Deployments : pc'[d] = "withdraw" => published' = route'
    BY DEF EdgeInv, PointerIsSafe
  <2>2. published \in Versions \cup {None}
    BY DEF CleanupInv, TypeInv, TypeOK
  <2>3. ASSUME published # None, published # route
        PROVE  Excused(published)' \/ ~Condemned(published)'
    BY <1>1, <2>2, <2>3 DEF EdgeInv, PointerIsSafe
  <2> QED
    BY <2>1, <2>3 DEF PointerIsSafe
<1>3. ShownIsKnown'
  BY DEF EdgeInv, ShownIsKnown
<1>4. DueIsDrained'
  <2> SUFFICES ASSUME NEW t \in DOMAIN tasks', Open(t)', tasks'[t].due
               PROVE  \/ tasks'[t].ver \notin cached' \/ tasks'[t].ver = route
                      \/ tasks'[t].ver \in outdated' \/ tasks'[t].ver \in unrecorded'
    BY DEF DueIsDrained, Excused
  <2>1. CASE tasks'[t].ver \notin cached
    BY <2>1
  <2>2. CASE t \in DOMAIN tasks /\ Open(t) /\ tasks[t].due /\ tasks'[t].ver = tasks[t].ver
    BY <2>2 DEF EdgeInv, DueIsDrained, Excused
  <2> QED
    BY <2>1, <2>2
<1>5. RunsWhatIsDue'
  BY DEF RunsWhatIsDue
<1>6. EdgeKept'
  BY DEF EdgeInv, EdgeKept
<1> QED
  BY <1>2, <1>3, <1>4, <1>5, <1>6 DEF EdgeInv

\* What is condemned depends on tasks, and on deployments that are about to file.
LEMMA CondemnedStays ==
  ASSUME UNCHANGED tasks,
         \A d \in Deployments : pc'[d] \in {"complete", "enqueue"} =>
           pc[d] \in {"complete", "enqueue"} /\ base'[d] = base[d]
  PROVE  \A v : Condemned(v)' => Condemned(v)
BY DEF Condemned, OpenTasks, Open

\* The holder of the lock moves the route, and excuses what it leaves.
LEMMA ReroutingKeepsEdge ==
  ASSUME CleanupInv, EdgeInv, NEW q \in Requests, Activate(q) \/ Restore(q)
  PROVE  EdgeInv'
<1> USE WorkerCleanupAssumption
<1>1. \A p \in Requests \cup Runners : p # q => pc'[p] = pc[p]
  BY RequestMovesOne DEF CleanupInv, Request
<1>2. /\ UNCHANGED <<tasks, workers, running, base, published, cached, unrecorded, withdrawn>>
      /\ outdated \subseteq outdated'
      /\ route' = route \/ (Condemned(route) => route \in outdated')
      /\ lock = q /\ pc[q] \in {"activate", "restore"}
  BY DEF Activate, Restore, Reroute, At, edge, requests, CleanupInv, RequestsInv, LockHeld, Locked
<1>3. /\ pc[q] = "activate" => pc'[q] = "publish"
      /\ pc[q] = "restore" => pc'[q] \in {"rewrite", "clear"}
  BY DEF Activate, Restore, At, Go, CleanupInv, TypeInv, Places, Requests
<1>4. \A v : Condemned(v)' => Condemned(v)
  BY <1>1, <1>2, <1>3, CondemnedStays DEF Requests
<1>5. \A v : /\ Excused(v) => Excused(v)'
             /\ Kept(v) => Kept(v)'
  BY <1>2 DEF Excused, Kept
<1>6. \A p \in Requests : pc[p] = "withdraw" => FALSE
  BY <1>2 DEF CleanupInv, RequestsInv, LockHeld, Locked
<1>7. PointerIsSafe'
  <2>1. \A d \in Deployments : pc'[d] # "withdraw"
    BY <1>1, <1>3, <1>2, <1>6 DEF Requests
  <2>2. CASE published = route
    BY <1>2, <1>4, <2>1, <2>2 DEF PointerIsSafe, Excused
  <2>3. CASE published # route
    BY <1>2, <1>4, <1>5, <2>1, <2>3 DEF EdgeInv, PointerIsSafe
  <2> QED
    BY <2>2, <2>3
<1>8. ShownIsKnown'
  BY <1>1, <1>2, <1>3 DEF EdgeInv, ShownIsKnown, Unshown, Undoing, Requests
<1>9. DueIsDrained'
  <2> SUFFICES ASSUME NEW t \in DOMAIN tasks, Open(t), tasks[t].due
               PROVE  \/ tasks[t].ver \notin cached \/ tasks[t].ver = route'
                      \/ Excused(tasks[t].ver)'
    BY <1>2 DEF DueIsDrained, Open
  <2>1. CASE tasks[t].ver = route
    BY <1>2, <2>1 DEF Condemned, OpenTasks, Excused
  <2>2. CASE tasks[t].ver # route
    <3>1. tasks[t].ver \notin cached \/ Excused(tasks[t].ver)
      BY <2>2 DEF EdgeInv, DueIsDrained
    <3> QED
      BY <1>2, <1>5, <3>1 DEF Excused
  <2> QED
    BY <2>1, <2>2
<1>10. RunsWhatIsDue'
  BY <1>1, <1>2 DEF EdgeInv, RunsWhatIsDue, Runs, Requests
<1>11. EdgeKept'
  BY <1>2, <1>5 DEF EdgeInv, EdgeKept
<1> QED
  BY <1>7, <1>8, <1>9, <1>10, <1>11 DEF EdgeInv

\* The holder of the lock leads the pointer to the active version, or to none.
LEMMA LeadingKeepsEdge ==
  ASSUME CleanupInv, EdgeInv, NEW q \in Requests,
         Publish(q) \/ PublishFails(q) \/ Rewrite(q) \/ RewriteFails(q) \/ Clear(q)
  PROVE  EdgeInv'
<1> USE WorkerCleanupAssumption
<1>1. \A p \in Requests \cup Runners : p # q => pc'[p] = pc[p]
  BY RequestMovesOne DEF CleanupInv, Request
<1>2. /\ UNCHANGED <<route, tasks, workers, running, base, outdated, unrecorded>>
      /\ lock = q /\ pc[q] \in {"publish", "rewrite", "clear"}
      /\ withdrawn \subseteq withdrawn'
  BY DEF Publish, PublishFails, Rewrite, RewriteFails, Clear, At, d1, requests, history,
         CleanupInv, RequestsInv, LockHeld, Locked
<1>3. /\ pc[q] = "publish" => pc'[q] \in {"complete", "restore"}
      /\ pc'[q] = "complete" => published' = route
      /\ pc[q] = "rewrite" => pc'[q] \in {"clear", "withdraw", "done"}
      /\ pc'[q] = "withdraw" => published' = route /\ (published = q => q \in withdrawn')
      /\ pc[q] = "clear" => pc'[q] = "done"
  BY DEF Publish, PublishFails, Rewrite, RewriteFails, Clear, WithdrawNext, Release, Lead, At, Go,
         CleanupInv, TypeInv, Places, Requests, RequestsInv, LockHeld
<1>4. \/ published' \in {route, None} /\ cached' = (cached \cup {published}) \ {published', None}
      \/ published' = published /\ cached' = cached
  BY DEF Publish, PublishFails, Rewrite, RewriteFails, Clear, Lead, At, edge, CleanupInv,
         RequestsInv, LockHeld
<1>5. \A v : /\ Excused(v)' <=> Excused(v)
             /\ Kept(v)' <=> Kept(v)
  BY <1>2 DEF Excused, Kept
<1>6. \A p \in Requests : p # q => pc[p] \notin Undoing \cup {"withdraw"}
  BY <1>2 DEF CleanupInv, RequestsInv, LockHeld, Locked, Undoing
<1>7. PointerIsSafe'
  <2>1. \A d \in Deployments : pc'[d] = "withdraw" => published' = route'
    BY <1>1, <1>2, <1>3, <1>6 DEF Requests
  <2>2. CASE published' \in {route, None}
    BY <1>2, <2>1, <2>2 DEF PointerIsSafe
  <2>3. CASE published' = published /\ published' \notin {route, None}
    <3>1. \A v : Condemned(v)' => Condemned(v)
      BY <1>1, <1>2, <1>3, <2>3, CondemnedStays DEF Requests
    <3> QED
      BY <1>2, <1>5, <2>1, <2>3, <3>1 DEF EdgeInv, PointerIsSafe
  <2> QED
    BY <1>4, <2>2, <2>3
<1>8. ShownIsKnown'
  <2> SUFFICES ASSUME NEW d \in Deployments
               PROVE  /\ pc'[d] \in Unshown => d \notin cached' /\ published' # d
                      /\ pc'[d] \in Undoing => d \notin cached'
                      /\ pc'[d] = "withdraw" => d \notin cached' \/ d \in withdrawn'
    BY DEF ShownIsKnown
  <2>1. CASE d = q
    BY <1>2, <1>3, <1>4, <2>1 DEF EdgeInv, ShownIsKnown, Unshown, Undoing
  <2>2. CASE d # q
    <3>1. pc'[d] = pc[d] /\ pc[d] \notin Undoing \cup {"withdraw"}
      BY <1>1, <1>6, <2>2 DEF Requests
    <3>2. pc[d] \in Unshown => route # d
      BY <1>2, <2>2
      DEF CleanupInv, RequestsInv, ActiveIsKnown, LockHeld, Locked, Unshown, Requests
    <3> QED
      BY <1>4, <3>1, <3>2 DEF EdgeInv, ShownIsKnown, Versions
  <2> QED
    BY <2>1, <2>2
<1>9. DueIsDrained'
  <2> SUFFICES ASSUME NEW t \in DOMAIN tasks, Open(t), tasks[t].due
               PROVE  \/ tasks[t].ver \notin cached' \/ tasks[t].ver = route
                      \/ Excused(tasks[t].ver)
    BY <1>2, <1>5 DEF DueIsDrained, Open
  <2>1. CASE tasks[t].ver = published /\ published # None
    BY <2>1 DEF EdgeInv, PointerIsSafe, Condemned, OpenTasks
  <2>2. CASE tasks[t].ver # published
    BY <1>4, <2>2 DEF EdgeInv, DueIsDrained
  <2>3. tasks[t].ver # None
    BY TasksHaveVersions DEF CleanupInv
  <2> QED
    BY <2>1, <2>2, <2>3
<1>10. RunsWhatIsDue'
  BY <1>1, <1>2 DEF EdgeInv, RunsWhatIsDue, Runs, Requests
<1>11. EdgeKept'
  <2>1. Kept(route)
    BY DEF CleanupInv, WorkersInv, RouteKept
  <2>2. /\ published' # None => Kept(published')
        /\ \A v \in cached' : Kept(v) \/ v \in withdrawn
    BY <1>4, <2>1 DEF EdgeInv, EdgeKept
  <2> QED
    BY <1>2, <1>5, <2>2 DEF EdgeKept, Kept, Excused
<1> QED
  BY <1>7, <1>8, <1>9, <1>10, <1>11 DEF EdgeInv

LEMMA RequestKeepsEdge ==
  ASSUME CleanupInv, EdgeInv, NEW q \in Requests, Request(q)
  PROVE  EdgeInv'
<1> USE WorkerCleanupAssumption
<1>1. CASE Prepare(q) \/ ActivationFails(q) \/ Complete(q)
  <2>1. \A p \in Requests \cup Runners : p # q => pc'[p] = pc[p]
    BY RequestMovesOne DEF CleanupInv
  <2>2. UNCHANGED <<route, published, cached, tasks, workers, running, outdated, unrecorded,
                    withdrawn>>
    BY <1>1 DEF Prepare, ActivationFails, Complete, d1, edge, history
  <2>3. /\ pc'[q] \in {"activate", "discard", "done", "enqueue"}
        /\ pc'[q] = "activate" => pc[q] = "lock"
        /\ pc'[q] = "discard" => pc[q] = "activate"
        /\ pc'[q] = "enqueue" => pc[q] = "complete" /\ UNCHANGED base
    BY <1>1 DEF Prepare, ActivationFails, Complete, At, Go, CleanupInv, TypeInv, Places, Requests,
                requests
  <2>4. \A p \in Requests : p # q => base'[p] = base[p]
    BY <1>1 DEF Prepare, ActivationFails, Complete, requests, CleanupInv, TypeInv, TypeOK
  <2>5. \A v : Condemned(v)' => Condemned(v)
    BY <2>1, <2>2, <2>3, <2>4, CondemnedStays DEF Requests
  <2>6. \A d \in Deployments : /\ pc'[d] \in Unshown => pc[d] \in Unshown
                               /\ pc'[d] \in Undoing \cup {"withdraw"} => pc'[d] = pc[d]
    BY <2>1, <2>3 DEF Unshown, Undoing, Requests
  <2>7. /\ \A v : Kept(v)' <=> Kept(v)
        /\ \A t : Open(t)' <=> Open(t)
        /\ \A e \in Runners : Runs(e)' <=> Runs(e)
    BY <2>1, <2>2 DEF Kept, Excused, Open, Runs, Requests
  <2>8. /\ published # None => Kept(published)'
        /\ \A e \in Runners : Runs(e)' => tasks'[running'[e]].due
    BY <2>2, <2>7 DEF EdgeInv, EdgeKept, RunsWhatIsDue
  <2> QED
    BY <2>2, <2>5, <2>6, <2>7, <2>8, EdgeStays
<1> QED
  BY <1>1, ReroutingKeepsEdge, LeadingKeepsEdge DEF Request

\* Runs are not disturbed by what is filed.
LEMMA FilingKeepsEdge ==
  ASSUME CleanupInv, EdgeInv, NEW v \in Versions, NEW due \in BOOLEAN, File(v, due),
         due => v \notin cached
  PROVE  /\ \A t \in DOMAIN tasks' : Open(t)' /\ tasks'[t].due =>
              \/ tasks'[t].ver \notin cached
              \/ t \in DOMAIN tasks /\ Open(t) /\ tasks[t].due /\ tasks'[t].ver = tasks[t].ver
         /\ \A e \in Runners : Runs(e) => tasks'[running[e]].due
<1>1. \A t \in DOMAIN tasks : tasks'[t] = tasks[t]
  BY FileKeepsTasks DEF CleanupInv
<1>2. Task(v, due).ver = v /\ Task(v, due).due = due
  BY DEF Task
<1>3. ASSUME NEW t \in DOMAIN tasks', Open(t)', tasks'[t].due
      PROVE  \/ tasks'[t].ver \notin cached
             \/ t \in DOMAIN tasks /\ Open(t) /\ tasks[t].due /\ tasks'[t].ver = tasks[t].ver
  <2>1. CASE t \in DOMAIN tasks
    BY <1>1, <1>3, <2>1 DEF Open
  <2>2. CASE t \notin DOMAIN tasks
    <3>1. tasks'[t] = Task(v, due)
      BY <2>2, FiledTask DEF CleanupInv
    <3> QED
      BY <1>2, <1>3, <3>1
  <2> QED
    BY <2>1, <2>2
<1>4. ASSUME NEW e \in Runners, Runs(e) PROVE tasks'[running[e]].due
  <2>1. running[e] \in DOMAIN tasks
    BY <1>4, RunsAnOpenTask DEF CleanupInv
  <2> QED
    BY <1>1, <1>4, <2>1 DEF EdgeInv, RunsWhatIsDue
<1> QED
  BY <1>3, <1>4

LEMMA DeployKeepsEdge ==
  ASSUME CleanupInv, EdgeInv, NEW d \in Deployments, Deploy(d)
  PROVE  EdgeInv'
<1> USE WorkerCleanupAssumption
<1>1. \A p \in Requests \cup Runners : p # d => pc'[p] = pc[p]
  BY DeployMovesOne DEF CleanupInv
<1>2. /\ pc[d] \in {"upload", "version", "withdraw", "discard", "enqueue"}
      /\ pc'[d] \in {"version", "lock", "discard", "done"}
      /\ pc'[d] # "done" => pc[d] \in {"upload", "version"}
  BY DEF Deploy, Upload, CreateVersion, Withdraw, Discard, Enqueue, Release, At, Go, CleanupInv,
         TypeInv, Places, Requests
<1>3. UNCHANGED <<route, base, published, cached, running, outdated, unrecorded, withdrawn>>
  BY DEF Deploy, Upload, CreateVersion, Withdraw, Discard, Enqueue, d1, edge, requests, history
<1>4. \A x \in Deployments : /\ pc'[x] \in Unshown => pc[x] \in Unshown
                             /\ pc'[x] \in Undoing \cup {"withdraw"} => pc'[x] = pc[x]
  BY <1>1, <1>2 DEF Unshown, Undoing, Requests
<1>5. /\ published # None => Kept(published)'
      /\ \A v \in cached : Kept(v) => Kept(v)' \/ v \in withdrawn
  <2>1. CASE Discard(d)
    <3>1. d \notin cached /\ published # d
      BY <2>1 DEF Discard, At, EdgeInv, ShownIsKnown, Unshown
    <3> QED
      BY <1>3, <2>1, <3>1 DEF Discard, EdgeInv, EdgeKept, Kept, Excused
  <2>2. CASE Withdraw(d)
    <3>1. published = route /\ route # d /\ (d \in cached => d \in withdrawn)
      BY <2>2 DEF Withdraw, At, EdgeInv, PointerIsSafe, ShownIsKnown, CleanupInv, RequestsInv,
                  ActiveIsKnown
    <3> QED
      BY <1>3, <2>2, <3>1 DEF Withdraw, EdgeInv, EdgeKept, Kept, Excused
  <2>3. CASE ~Discard(d) /\ ~Withdraw(d)
    BY <1>3, <2>3 DEF Deploy, Upload, CreateVersion, Enqueue, EdgeInv, EdgeKept, Kept, Excused
  <2> QED
    BY <2>1, <2>2, <2>3
<1>6. \A e \in Runners : Runs(e)' <=> Runs(e)
  BY <1>1 DEF Runs, Requests
<1>7. CASE Enqueue(d)
  <2>1. base[d] \in Versions /\ File(base[d], FALSE) /\ pc[d] = "enqueue"
    BY <1>7 DEF Enqueue, At, CleanupInv, TypeInv, TypeOK, Places, Based, Requests
  <2>2. \A v \in Versions : Condemned(v)' => Condemned(v)
    <3> SUFFICES ASSUME NEW v \in Versions, v # base[d], Condemned(v)'
                 PROVE  Condemned(v)
      BY <2>1 DEF Condemned
    <3>1. CASE OpenTasks(v)' # {}
      <4>1. PICK t \in DOMAIN tasks' : tasks'[t].ver = v /\ Open(t)'
        BY <3>1 DEF OpenTasks
      <4>2. Task(base[d], FALSE).ver = base[d]
        BY DEF Task
      <4>3. t \in DOMAIN tasks /\ tasks'[t] = tasks[t]
        BY <2>1, <4>1, <4>2, FiledTask DEF CleanupInv
      <4> QED
        BY <4>1, <4>3 DEF Condemned, OpenTasks, Open
    <3>2. CASE \E x \in Deployments : base'[x] = v /\ pc'[x] \in {"complete", "enqueue"}
      BY <1>1, <1>2, <1>3, <3>2 DEF Condemned, Requests
    <3> QED
      BY <3>1, <3>2 DEF Condemned
  <2> QED
    BY <1>3, <1>4, <1>5, <1>6, <2>1, <2>2, FilingKeepsEdge, EdgeStays
<1>8. CASE ~Enqueue(d)
  <2>1. UNCHANGED tasks
    BY <1>8 DEF Deploy, Upload, CreateVersion, Withdraw, Discard, d1
  <2>2. \A t \in DOMAIN tasks' : Open(t)' /\ tasks'[t].due =>
          t \in DOMAIN tasks /\ Open(t) /\ tasks[t].due /\ tasks'[t].ver = tasks[t].ver
    BY <2>1 DEF Open
  <2>3. \A e \in Runners : Runs(e)' => tasks'[running'[e]].due
    BY <1>3, <1>6, <2>1 DEF EdgeInv, RunsWhatIsDue
  <2>4. \A v : Condemned(v)' => Condemned(v)
    BY <1>1, <1>2, <1>3, <2>1, CondemnedStays DEF Requests
  <2> QED
    BY <1>3, <1>4, <1>5, <2>2, <2>3, <2>4, EdgeStays
<1> QED
  BY <1>7, <1>8

LEMMA OthersKeepEdge ==
  ASSUME CleanupInv, EdgeInv, "early" \notin Faults,
         \/ \E r \in Rollbacks : Choose(r)
         \/ \E v \in Versions : CacheExpires(v) \/ Backfill(v)
         \/ \E t \in DOMAIN tasks : DrainWindowEnds(t) \/ LeaseEnds(t)
         \/ UNCHANGED vars
  PROVE  EdgeInv'
<1>1. ASSUME NEW r \in Rollbacks, Choose(r) PROVE EdgeInv'
  <2>1. /\ UNCHANGED <<route, tasks, published, cached, workers, base, running, outdated,
                       unrecorded, withdrawn>>
        /\ \A p \in Requests \cup Runners : p # r => pc'[p] = pc[p]
    BY <1>1, GoMovesOne DEF Choose, CleanupInv, Requests, d1, edge, history
  <2>2. \A p \in Deployments \cup Runners : pc'[p] = pc[p]
    BY <2>1, WorkerCleanupAssumption DEF Requests
  <2>3. \A v : Condemned(v)' => Condemned(v)
    BY <2>1, <2>2, CondemnedStays
  <2>4. /\ \A v : Kept(v)' <=> Kept(v)
        /\ \A t : Open(t)' <=> Open(t)
        /\ \A e \in Runners : Runs(e)' <=> Runs(e)
    BY <2>1, <2>2 DEF Kept, Excused, Open, Runs
  <2>5. /\ published # None => Kept(published)'
        /\ \A e \in Runners : Runs(e)' => tasks'[running'[e]].due
    BY <2>1, <2>4 DEF EdgeInv, EdgeKept, RunsWhatIsDue
  <2> QED
    BY <2>1, <2>2, <2>3, <2>4, <2>5, EdgeStays
<1>2. ASSUME NEW v \in Versions, Backfill(v) PROVE EdgeInv'
  <2>1. /\ File(v, TRUE) /\ v \notin cached /\ published # v
        /\ UNCHANGED <<route, published, cached, workers, base, running, pc, outdated, unrecorded,
                       withdrawn>>
    BY <1>2 DEF Backfill, edge, requests, history
  <2>2. /\ published # None => Kept(published)'
        /\ \A w : Kept(w)' <=> Kept(w)
        /\ \A e \in Runners : Runs(e)' <=> Runs(e)
    BY <2>1 DEF EdgeInv, EdgeKept, Kept, Excused, Runs
  <2>3. \A w \in Versions : w = published /\ Condemned(w)' => Condemned(w)
    <3> SUFFICES ASSUME NEW w \in Versions, w # v, OpenTasks(w)' # {}
                 PROVE  OpenTasks(w) # {}
      BY <2>1 DEF Condemned
    <3>1. PICK t \in DOMAIN tasks' : tasks'[t].ver = w /\ Open(t)'
      BY DEF OpenTasks
    <3>2. Task(v, TRUE).ver = v
      BY DEF Task
    <3>3. t \in DOMAIN tasks /\ tasks'[t] = tasks[t]
      BY <2>1, <3>1, <3>2, FiledTask DEF CleanupInv
    <3> QED
      BY <3>1, <3>3 DEF OpenTasks, Open
  <2> QED
    BY <2>1, <2>2, <2>3, FilingKeepsEdge, EdgeStays
<1>3. ASSUME \/ \E v \in Versions : CacheExpires(v)
             \/ \E t \in DOMAIN tasks : DrainWindowEnds(t) \/ LeaseEnds(t)
             \/ UNCHANGED vars
      PROVE  EdgeInv'
  <2>1. /\ UNCHANGED <<route, published, workers, base, running, pc, outdated, unrecorded,
                       withdrawn>>
        /\ cached' \subseteq cached
    BY <1>3 DEF CacheExpires, DrainWindowEnds, LeaseEnds, vars, d1, edge, requests, history
  <2>2. /\ DOMAIN tasks' = DOMAIN tasks
        /\ \A t \in DOMAIN tasks :
             /\ tasks'[t].ver = tasks[t].ver /\ tasks'[t].known = tasks[t].known
             /\ tasks'[t].status = tasks[t].status
    BY <1>3, TimeKeepsTasks DEF CacheExpires, vars, d1, CleanupInv
  <2>3. \A t \in DOMAIN tasks :
          /\ tasks[t].due => tasks'[t].due
          /\ tasks'[t].due => tasks[t].due \/ tasks[t].ver \notin cached
    <3>1. CASE UNCHANGED tasks
      BY <3>1
    <3>2. ASSUME NEW t \in DOMAIN tasks, DrainWindowEnds(t) \/ LeaseEnds(t),
                 NEW u \in DOMAIN tasks
          PROVE  /\ tasks[u].due => tasks'[u].due
                 /\ tasks'[u].due => tasks[u].due \/ tasks[u].ver \notin cached
      <4>1. tasks[t] \in Records
        BY DEF CleanupInv, TypeInv, TypeOK
      <4>2. CASE DrainWindowEnds(t)
        <5>1. tasks' = [tasks EXCEPT ![t] = [tasks[t] EXCEPT !.due = TRUE]]
          BY <4>2 DEF DrainWindowEnds
        <5>2. [tasks[t] EXCEPT !.due = TRUE].due
          BY <4>1 DEF Records
        <5>3. tasks[t].ver \notin cached
          BY <4>2 DEF DrainWindowEnds
        <5> QED
          BY <5>1, <5>2, <5>3 DEF CleanupInv, TypeInv, TypeOK
      <4>3. CASE LeaseEnds(t)
        <5>1. tasks' = [tasks EXCEPT ![t] = [tasks[t] EXCEPT !.lease = "over"]]
          BY <4>3 DEF LeaseEnds
        <5>2. [tasks[t] EXCEPT !.lease = "over"].due = tasks[t].due
          BY <4>1 DEF Records
        <5> QED
          BY <5>1, <5>2 DEF CleanupInv, TypeInv, TypeOK
      <4> QED
        BY <3>2, <4>2, <4>3
    <3> QED
      BY <1>3, <3>1, <3>2 DEF CacheExpires, vars, d1
  <2>4. \A t \in DOMAIN tasks' : Open(t)' /\ tasks'[t].due =>
          \/ tasks'[t].ver \notin cached
          \/ t \in DOMAIN tasks /\ Open(t) /\ tasks[t].due /\ tasks'[t].ver = tasks[t].ver
    BY <2>2, <2>3 DEF Open
  <2>5. \A e \in Runners : Runs(e)' => tasks'[running'[e]].due
    BY <2>1, <2>3, RunsAnOpenTask DEF Runs, EdgeInv, RunsWhatIsDue, CleanupInv
  <2>6. /\ published # None => Kept(published)'
        /\ \A v : Kept(v)' <=> Kept(v)
    BY <2>1 DEF EdgeInv, EdgeKept, Kept, Excused
  <2>7. \A v : Condemned(v)' => Condemned(v)
    BY <2>1, <2>2 DEF Condemned, OpenTasks, Open
  <2> QED
    BY <2>1, <2>4, <2>5, <2>6, <2>7, EdgeStays
<1> QED
  BY <1>1, <1>2, <1>3

\* A runner takes what is due, and deletes what no cache leads to.
LEMMA RunnerKeepsEdge ==
  ASSUME CleanupInv, EdgeInv, NEW e \in Runners,
         Pick(e) \/ Execute(e) \/ StatementFails(e) \/ Stop(e)
  PROVE  EdgeInv'
<1>1. /\ UNCHANGED <<route, base, published, cached, withdrawn>>
      /\ outdated' = outdated /\ unrecorded \subseteq unrecorded'
  BY DEF Pick, Execute, StatementFails, Stop, Take, Retire, Recheck, DeleteWorker, Offer,
         MarkRetired, Succeed, Fail, Unrecorded, d1, edge, requests, history
<1>2. /\ \A f \in Runners \ {e} : pc'[f] = pc[f] /\ running'[f] = running[f]
      /\ \A q \in Requests : pc'[q] = pc[q]
  <2>1. \E step : Go(e, step)
    BY DEF Pick, Execute, StatementFails, Stop, Take, Retire, Recheck, DeleteWorker, Offer,
           MarkRetired, Succeed, Fail, Rest
  <2>2. UNCHANGED running \/ \E x : running' = [running EXCEPT ![e] = x]
    BY DEF Pick, Execute, StatementFails, Stop, Take, Retire, Recheck, DeleteWorker, Offer,
           MarkRetired, Succeed, Fail, Rest
  <2> QED
    BY <2>1, <2>2, GoMovesOne, WorkerCleanupAssumption DEF CleanupInv, TypeInv, TypeOK, Requests
<1>3. /\ DOMAIN tasks' = DOMAIN tasks
      /\ \A t \in DOMAIN tasks : /\ tasks'[t].ver = tasks[t].ver /\ tasks'[t].due = tasks[t].due
                                 /\ Open(t)' => Open(t)
  <2>1. CASE UNCHANGED tasks
    BY <2>1 DEF Open
  <2>2. CASE /\ running[e] \in DOMAIN tasks /\ Open(running[e])
             /\ \E status \in {"running", "failed", "succeeded"}, lease \in {"none", "held"} :
                  tasks' = [tasks EXCEPT ![running[e]].status = status, ![running[e]].lease = lease]
    <3>1. PICK status \in {"running", "failed", "succeeded"}, lease \in {"none", "held"} :
            tasks' = [tasks EXCEPT ![running[e]].status = status, ![running[e]].lease = lease]
      BY <2>2
    <3> DEFINE record == [tasks[running[e]] EXCEPT !.status = status, !.lease = lease]
    <3>2. tasks[running[e]] \in Records
      BY <2>2 DEF CleanupInv, TypeInv, TypeOK
    <3>3. record.ver = tasks[running[e]].ver /\ record.due = tasks[running[e]].due
      BY <3>2 DEF Records
    <3>4. tasks' = [tasks EXCEPT ![running[e]] = record]
      BY <3>1
    <3> QED
      BY <2>2, <3>3, <3>4 DEF Open, CleanupInv, TypeInv, TypeOK
  <2>3. CASE Take(e) /\ CanRun(running[e])
    <3>1. running[e] \in DOMAIN tasks /\ Open(running[e])
      BY <2>3, RunsATask DEF Take, At, CanRun, Open, CleanupInv
    <3> QED
      BY <2>2, <2>3, <3>1 DEF Take
  <2>4. CASE Succeed(e) \/ Fail(e)
    <3>1. running[e] \in DOMAIN tasks /\ Open(running[e])
      BY <2>4, RunsAnOpenTask DEF Succeed, Fail, At, Runs, CleanupInv
    <3> QED
      BY <2>1, <2>2, <2>4, <3>1 DEF Succeed, Fail, Close
  <2> QED
    BY <2>1, <2>3, <2>4
    DEF Pick, Execute, StatementFails, Stop, Take, Retire, Recheck, DeleteWorker, Offer,
        MarkRetired, d1
<1>4. \A f \in Runners : Runs(f)' => tasks'[running'[f]].due
  <2> SUFFICES ASSUME NEW f \in Runners, Runs(f)'
               PROVE  tasks'[running'[f]].due
    OBVIOUS
  <2>1. CASE Runs(f) /\ running'[f] = running[f]
    <3>1. running[f] \in DOMAIN tasks
      BY <2>1, RunsAnOpenTask DEF CleanupInv
    <3> QED
      BY <1>3, <2>1, <3>1 DEF EdgeInv, RunsWhatIsDue
  <2>2. CASE f = e /\ Take(e) /\ CanRun(running[e])
    <3>1. running[e] \in DOMAIN tasks /\ tasks[running[e]].due /\ running'[e] = running[e]
      BY <2>2, RunsATask DEF Take, At, CanRun, CleanupInv
    <3> QED
      BY <1>3, <2>2, <3>1
  <2>3. CASE f # e
    BY <1>2, <2>1, <2>3 DEF Runs
  <2>4. ASSUME f = e, Pick(e) \/ (Take(e) /\ ~CanRun(running[e])) \/ Stop(e) PROVE FALSE
    BY <2>4, GoMovesOne DEF Pick, Take, Stop, Rest, Runs, CleanupInv
  <2>5. ASSUME f = e, ~(Pick(e) \/ Take(e) \/ Stop(e)) PROVE Runs(e) /\ running'[e] = running[e]
    <3>1. Runs(e)
      BY <2>5 DEF Execute, StatementFails, Retire, Recheck, DeleteWorker, Offer, MarkRetired,
                  Succeed, Fail, Runs, At
    <3>2. UNCHANGED running \/ Go(e, "idle")
      BY <2>5 DEF Execute, StatementFails, Retire, Recheck, DeleteWorker, Offer, MarkRetired,
                  Succeed, Fail, Rest
    <3>3. ~Go(e, "idle")
      BY <2>5, GoMovesOne DEF Runs, CleanupInv
    <3> QED
      BY <3>1, <3>2, <3>3
  <2> QED
    BY <2>1, <2>2, <2>3, <2>4, <2>5
<1>5. /\ published # None => Kept(published)'
      /\ \A v \in cached : Kept(v) => Kept(v)'
  <2>1. CASE DeleteWorker(e)
    <3> DEFINE v == tasks[running[e]].ver
    <3>1. /\ running[e] \in DOMAIN tasks /\ Open(running[e]) /\ Runs(e) /\ pc[e] = "delete"
      BY <2>1, RunsAnOpenTask DEF DeleteWorker, At, Runs, CleanupInv
    <3>2. tasks[running[e]].due
      BY <3>1 DEF EdgeInv, RunsWhatIsDue
    <3>3. v = route => Excused(v)
      BY <3>1 DEF CleanupInv, WorkersInv, Unrouted
    <3>4. v \in cached => Excused(v)
      BY <3>1, <3>2, <3>3 DEF EdgeInv, DueIsDrained
    <3>5. published = v /\ published # None => Excused(v)
      BY <3>1, <3>3 DEF EdgeInv, PointerIsSafe, Condemned, OpenTasks
    <3>6. /\ workers \ {v} \subseteq workers'
          /\ \A w : Excused(w) => Excused(w)'
      BY <1>1, <2>1 DEF DeleteWorker, Excused
    <3>7. \A w : w # v \/ Excused(w) => (Kept(w) => Kept(w)')
      BY <3>6 DEF Kept
    <3> QED
      BY <1>1, <3>4, <3>5, <3>7 DEF EdgeInv, EdgeKept
  <2>2. CASE ~DeleteWorker(e)
    <3>1. UNCHANGED workers
      BY <2>2 DEF Pick, Execute, StatementFails, Stop, Take, Retire, Recheck, Offer, MarkRetired,
                  Succeed, Fail
    <3>2. \A w : Kept(w) => Kept(w)'
      BY <1>1, <3>1 DEF Kept, Excused
    <3> QED
      BY <1>1, <3>2 DEF EdgeInv, EdgeKept
  <2> QED
    BY <2>1, <2>2
<1>6. \A v : Condemned(v)' => Condemned(v)
  <2>1. \A v : OpenTasks(v)' \subseteq OpenTasks(v)
    BY <1>3 DEF OpenTasks
  <2> QED
    BY <1>1, <1>2, <2>1 DEF Condemned, Requests
<1> QED
  BY <1>1, <1>2, <1>3, <1>4, <1>5, <1>6, EdgeStays DEF Requests

LEMMA EdgeInvNext ==
  ASSUME "slow" \notin Faults, "early" \notin Faults
  PROVE  CleanupInv /\ EdgeInv /\ [Next]_vars => (CleanupInv /\ EdgeInv)'
<1> SUFFICES ASSUME CleanupInv, EdgeInv, [Next]_vars PROVE EdgeInv'
  BY CleanupInvNext
<1>1. CASE UNCHANGED vars
  BY <1>1, OthersKeepEdge
<1>2. CASE Next
  BY <1>2, RequestKeepsEdge, DeployKeepsEdge, OthersKeepEdge, RunnerKeepsEdge DEF Next
<1> QED
  BY <1>1, <1>2

\* Whatever runs and failed deployments do, a Worker is deleted only when no
\* pointer leads to it, and no router's cache, with the exceptions of the history
\* variables and under the assumptions of WorkersAreKept.  A publication may have
\* taken effect before it failed, and its compensation may fail as well
\* (cleanup-previous-resources.js, executeDeploymentCleanupTask,
\* recover-route-snapshot.js, cleanup-uploaded-worker.js).
THEOREM WorkersAreDrained ==
  ASSUME "slow" \notin Faults, "early" \notin Faults
  PROVE  Spec => []DrainedBeforeDeletion
<1>1. Init => CleanupInv /\ EdgeInv
  BY CleanupInvInit, EdgeInvInit
<1>2. CleanupInv /\ EdgeInv /\ [Next]_vars => (CleanupInv /\ EdgeInv)'
  BY EdgeInvNext
<1>3. EdgeInv => DrainedBeforeDeletion
  BY DEF EdgeInv, EdgeKept, Kept, Excused, DrainedBeforeDeletion
<1> QED
  BY <1>1, <1>2, <1>3, PTL DEF Spec

-----------------------------------------------------------------------------
(* The site's Workers.                                                     *)

Expected == {d \in Deployments : At(d, "upload")}
Shown == (cached \cup {published}) \ {None}

LEMMA ExpectedStays ==
  ASSUME TypeInv, NEW p \in Requests \cup Runners, pc[p] # "upload",
         NEW step, step # "upload", Go(p, step)
  PROVE  Expected' = Expected
BY GoMovesOne DEF Expected, At, Requests

\* A deployment or a rollback uploads, activates, publishes or discards.
LEMMA RequestsOfTheSite ==
  ASSUME CleanupInv, EdgeInv, route' \in workers', Shown' \subseteq workers', route' \in Versions,
         NEW q \in Requests, Request(q) \/ (q \in Deployments /\ Deploy(q)) \/ Choose(q)
  PROVE  [Site!SiteNext]_(Site!siteVars)
<1> USE DEF At
<1>0. TypeInv /\ q \in Requests \cup Runners /\ (q \in Deployments => q \in Versions)
  BY DEF CleanupInv, Versions
<1>1. CASE q \in Deployments /\ Upload(q)
  <2>1. Expected' = Expected \ {q}
    BY <1>0, <1>1, GoMovesOne DEF Upload, Expected, Requests
  <2>2. q \in Expected /\ workers' = workers \cup {q} /\ UNCHANGED <<route, cached, published>>
    BY <1>1 DEF Upload, Expected, d1, edge
  <2> QED
    BY <1>0, <1>1, <2>1, <2>2 DEF Site!SiteNext, Site!Upload, Expected
<1>2. CASE q \in Deployments /\ (Withdraw(q) \/ Discard(q))
  <2>1. Expected' = Expected
    BY <1>0, <1>2, ExpectedStays DEF Withdraw, Discard, Release
  <2>2. workers' \in {workers, workers \ {q}} /\ UNCHANGED <<route, cached, published>>
    BY <1>2 DEF Withdraw, Discard, d1, edge
  <2>3. CASE workers' = workers
    BY <2>1, <2>2, <2>3 DEF Site!siteVars, Expected
  <2>4. CASE workers' # workers
    <3>1. q \in workers /\ q # route /\ q \notin Shown
      BY <2>2, <2>4 DEF Shown
    <3> QED
      BY <1>0, <1>2, <2>1, <2>2, <2>4, <3>1 DEF Site!SiteNext, Site!Delete, Expected, Shown
  <2> QED
    BY <2>3, <2>4
<1>3. CASE Activate(q) \/ Restore(q)
  <2>1. Expected' = Expected
    BY <1>0, <1>3, ExpectedStays DEF Activate, Restore
  <2>2. UNCHANGED <<workers, cached, published>>
    BY <1>3 DEF Activate, Restore, edge
  <2> QED
    BY <2>1, <2>2 DEF Site!SiteNext, Site!Activate, Expected
<1>4. CASE Publish(q) \/ PublishFails(q) \/ Rewrite(q) \/ RewriteFails(q) \/ Clear(q)
  <2>1. Expected' = Expected /\ UNCHANGED <<workers, route>>
    BY <1>0, <1>4, ExpectedStays
    DEF Publish, PublishFails, Rewrite, RewriteFails, Clear, WithdrawNext, Release, d1
  <2>2. published' \in {route, published, None} /\ cached' \subseteq cached \cup {published}
    BY <1>4 DEF Publish, PublishFails, Rewrite, RewriteFails, Clear, Lead, edge, CleanupInv,
                RequestsInv, LockHeld
  <2>3. Shown' \subseteq Shown \cup {route}
    BY <2>2 DEF Shown
  <2> QED
    BY <2>1, <2>3 DEF Site!SiteNext, Site!Show, Expected, Shown
<1>5. CASE \/ Prepare(q) \/ ActivationFails(q) \/ Complete(q) \/ Choose(q)
           \/ CreateVersion(q) \/ Enqueue(q)
  <2>1. Expected' = Expected
    <3>1. pc[q] # "upload" /\ \E step : step # "upload" /\ Go(q, step)
      BY <1>5 DEF Prepare, ActivationFails, Complete, Choose, CreateVersion, Enqueue
    <3> QED
      BY <1>0, <3>1, ExpectedStays
  <2>2. UNCHANGED <<workers, route, cached, published>>
    BY <1>5 DEF Prepare, ActivationFails, Complete, Choose, CreateVersion, Enqueue, d1, edge
  <2> QED
    BY <2>1, <2>2 DEF Site!siteVars, Expected
<1> QED
  BY <1>1, <1>2, <1>3, <1>4, <1>5 DEF Request, Deploy

\* A run deletes, or leaves the site as it is.
LEMMA RunsOfTheSite ==
  ASSUME CleanupInv, route' \in workers', Shown' \subseteq workers',
         NEW e \in Runners, Pick(e) \/ Execute(e) \/ StatementFails(e) \/ Stop(e)
  PROVE  [Site!SiteNext]_(Site!siteVars)
<1> USE DEF At
<1>0. TypeInv /\ e \in Requests \cup Runners
  BY DEF CleanupInv
<1>1. UNCHANGED <<route, cached, published>>
  BY DEF Pick, Execute, StatementFails, Stop, Take, Retire, Recheck, DeleteWorker, Offer,
         MarkRetired, Succeed, Fail, d1, edge
<1>2. pc[e] # "upload" /\ \E step : step # "upload" /\ Go(e, step)
  <2>1. CASE Pick(e) \/ StatementFails(e) \/ Take(e) \/ Retire(e) \/ Recheck(e)
    BY <2>1 DEF Pick, StatementFails, Take, Retire, Recheck, Rest
  <2>2. CASE Stop(e)
    BY <2>2, <1>0 DEF Stop, Rest, TypeInv, Places, Phases
  <2>3. CASE DeleteWorker(e) \/ Offer(e) \/ MarkRetired(e) \/ Succeed(e) \/ Fail(e)
    BY <2>3 DEF DeleteWorker, Offer, MarkRetired, Succeed, Fail, Rest
  <2> QED
    BY <2>1, <2>2, <2>3 DEF Execute
<1>3. Expected' = Expected
  BY <1>0, <1>2, ExpectedStays
<1>4. CASE workers' = workers
  BY <1>1, <1>3, <1>4 DEF Site!siteVars, Expected
<1>5. CASE workers' # workers
  <2>1. DeleteWorker(e)
    BY <1>5 DEF Pick, Execute, StatementFails, Stop, Take, Retire, Recheck, Offer, MarkRetired,
                Succeed, Fail
  <2> DEFINE v == tasks[running[e]].ver
  <2>2. workers' = workers \ {v}
    BY <1>5, <2>1 DEF DeleteWorker
  <2>3. v \in workers /\ v # route /\ v \notin Shown /\ v \in Versions
    BY <1>0, <1>1, <1>5, <2>2 DEF Shown, TypeInv, TypeOK
  <2> HIDE DEF v
  <2> QED
    BY <1>1, <1>3, <2>2, <2>3 DEF Site!SiteNext, Site!Delete, Expected, Shown
<1> QED
  BY <1>4, <1>5

\* Deployments and rollbacks, and the cleanup that runs beside them without the
\* commit lock, implement the site, unless a run outlives its lease or an
\* orphan is filed early (deploy-site-handler.js, rollback-site.js,
\* deployment-cleanup-runtime.js).
THEOREM SiteRefinement ==
  ASSUME "slow" \notin Faults, "early" \notin Faults
  PROVE  Spec => CleanupKeepsPromises
<1>1. ASSUME Init PROVE Site!SiteInit
  BY <1>1, WorkerCleanupAssumption DEF Init, Site!SiteInit, Versions, Requests
<1>2. ASSUME CleanupInv, EdgeInv, (CleanupInv /\ EdgeInv)', [Next]_vars,
             outdated' \cup unrecorded' \cup withdrawn' = {}
      PROVE  [Site!SiteNext]_(Site!siteVars)
  <2>1. route' \in workers' /\ Shown' \subseteq workers' /\ route' \in Versions
    <3>1. route' \in workers' /\ Shown' \subseteq workers'
      BY <1>2 DEF CleanupInv, EdgeInv, WorkersInv, RouteKept, EdgeKept, Kept, Excused, Shown
    <3>2. route' \in Versions
      BY <1>2 DEF CleanupInv, TypeInv, TypeOK
    <3> QED
      BY <3>1, <3>2
  <2>2. CASE UNCHANGED vars
    BY <2>2 DEF vars, d1, edge, Site!siteVars, At
  <2>3. ASSUME NEW q \in Requests, Request(q) \/ (q \in Deployments /\ Deploy(q)) \/ Choose(q)
        PROVE  [Site!SiteNext]_(Site!siteVars)
    BY <1>2, <2>1, <2>3, RequestsOfTheSite
  <2>4. ASSUME NEW e \in Runners, Pick(e) \/ Execute(e) \/ StatementFails(e) \/ Stop(e)
        PROVE  [Site!SiteNext]_(Site!siteVars)
    BY <1>2, <2>1, <2>4, RunsOfTheSite
  <2>5. ASSUME NEW v \in Versions, CacheExpires(v) PROVE [Site!SiteNext]_(Site!siteVars)
    BY <2>5 DEF CacheExpires, d1, Site!SiteNext, Site!Show, At
  <2>6. ASSUME \/ \E v \in Versions : Backfill(v)
               \/ \E t \in DOMAIN tasks : DrainWindowEnds(t) \/ LeaseEnds(t)
        PROVE  [Site!SiteNext]_(Site!siteVars)
    BY <2>6 DEF Backfill, DrainWindowEnds, LeaseEnds, edge, Site!siteVars, At
  <2> QED
    BY <1>2, <2>2, <2>3, <2>4, <2>5, <2>6 DEF Next, Requests
<1>3. Init => CleanupInv /\ EdgeInv
  BY CleanupInvInit, EdgeInvInit
<1>4. CleanupInv /\ EdgeInv /\ [Next]_vars => (CleanupInv /\ EdgeInv)'
  BY EdgeInvNext
<1> QED
  BY <1>1, <1>2, <1>3, <1>4, PTL DEF Spec, CleanupKeepsPromises
=============================================================================
