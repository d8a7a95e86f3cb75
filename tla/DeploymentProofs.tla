-------------------------- MODULE DeploymentProofs --------------------------
(***************************************************************************)
(* Theorems about deployments and policy changes, for any number of them.  *)
(*                                                                         *)
(* Types, the lease of the lock and the progress of requests hold whatever *)
(* fails.  While no callback outlives its lease, committed rows and the    *)
(* snapshots of them are safe, and the routers converge, but for a commit  *)
(* that failed for its handler; if no activation takes effect unanswered,  *)
(* failures are reported too.                                              *)
(* The theorems about Workers are about the faults under which the run     *)
(* MCDeployment passes: requests stop, calls to KV and to the Durable      *)
(* Object fail, so do compensations and what follows a change of the       *)
(* policy.  What goes wrong beyond that is shown by the runs that expect a *)
(* violation.                                                              *)
(***************************************************************************)
EXTENDS Deployment, TLAPS

\* Rows of any generation and policy version.
AllRoutes == [gen : Nat, pol : Nat, ver : Versions]

MildFaults == Faults \subseteq {"crash", "restore", "readback"}

\* Without a callback that outlives its lease; without an activation that takes
\* effect unanswered either.
NoAborts == Faults \subseteq {"crash", "restore", "status", "answer", "readback"}
AllAnswered == Faults \subseteq {"crash", "restore", "status", "readback"}

LEMMA MildIsOrderly == (MildFaults => AllAnswered) /\ (AllAnswered => NoAborts)
BY DEF MildFaults, AllAnswered, NoAborts

-----------------------------------------------------------------------------
(* Types.                                                                  *)

\* What a call leaves in KV and in the Durable Object.
LEMMA PointerCalls ==
  ASSUME NEW r \in Routes, Routes = AllRoutes,
         published \in Routes \cup {None}, durable \in Durables \cup {None},
         WriteDone(r) \/ WriteFailed(r) \/ ClearDone(r) \/ ClearFailed(r)
  PROVE  /\ published' \in Routes \cup {None}
         /\ durable' \in Durables \cup {None}
         /\ WriteDone(r) => published' = r
         /\ WriteFailed(r) => published' \in {published, r}
         /\ ClearDone(r) \/ ClearFailed(r) => published' \in {published, None}
<1>1. \A kind \in {"pointer", "bare", "tombstone"} : DurableOf(r, kind) \in Durables
  BY DEF DurableOf, Durables, AllRoutes
<1>2. durable' \in Durables \cup {None}
  BY <1>1 DEF WriteDone, WriteFailed, ClearDone, ClearFailed
<1> QED
  BY <1>2 DEF WriteDone, WriteFailed, ClearDone, ClearFailed

\* What TypeOK leaves open: who has read or committed a row.
Places ==
  \A s \in Sessions :
    /\ /\ s \in Deployments
       /\ pc[s] \in {"health", "activate", "publish", "write", "published", "restore", "overwrite"}
       => base[s] \in Routes
    /\ pc[s] \in {"publish", "write", "published", "restore", "overwrite", "reread", "compensate",
                  "rechange", "republish"} => mine[s] \in Routes
    /\ pc[s] \in {"overwrite", "rewrite", "clear"} => seen[s] \in Routes

TypeInv == TypeOK /\ Places

LEMMA TypeInit == ASSUME Routes = AllRoutes PROVE Init => TypeInv
<1> SUFFICES ASSUME Init PROVE TypeInv
  OBVIOUS
<1>1. FirstRow \in Routes
  BY DEF FirstRow, AllRoutes, Versions
<1>2. DurableOf(FirstRow, "pointer") \in Durables
  BY DEF FirstRow, DurableOf, Durables
<1>3. TypeOK
  BY <1>1, <1>2, DeploymentAssumption
  DEF Init, TypeOK, Sessions, Versions, SessionSteps, Outside
<1>4. Places
  BY DEF Init, Places
<1> QED
  BY <1>3, <1>4 DEF TypeInv

\* A step of a session is one of its calls: here, taking the lock or not.
LEMMA LockKeepsTypes ==
  ASSUME TypeInv, NEW s \in Sessions, NEW step \in Outside \cup {"prepare", "read"},
         AcquireLock(s, step) \/ LockRefused(s, step) \/ ReleaseLock(s, step)
  PROVE  TypeInv'
<1>1. lock' \in [holder : Sessions \cup {None}, expired : BOOLEAN]
  <2> DEFINE Lock(holder) == [holder |-> holder, expired |-> FALSE]
  <2>1. \A holder \in Sessions \cup {None} :
          Lock(holder) \in [holder : Sessions \cup {None}, expired : BOOLEAN]
    OBVIOUS
  <2>2. lock' \in {lock, Lock(s), Lock(None)}
    BY DEF AcquireLock, LockRefused, ReleaseLock
  <2> QED
    BY <2>1, <2>2 DEF TypeInv, TypeOK
<1>2. TypeOK'
  BY <1>1 DEF AcquireLock, LockRefused, ReleaseLock, Go, TypeInv, TypeOK, SessionSteps, pointer,
              memory, signals
<1>3. Places'
  BY DEF AcquireLock, LockRefused, ReleaseLock, Go, TypeInv, TypeOK, Places, Outside, memory
<1> QED
  BY <1>2, <1>3 DEF TypeInv

LEMMA ActivateKeepsTypes ==
  ASSUME Routes = AllRoutes, TypeInv, NEW d \in Deployments, Activate(d) \/ ActivationUnanswered(d)
  PROVE  TypeInv'
<1> USE DEF TypeInv, TypeOK, Places, Sessions, pointer, memory, signals, At, Go, Leave,
            SessionSteps, Outside
<1>1. CASE Upload(d)
  BY <1>1 DEF Upload, Versions
<1>2. CASE CreateVersion(d)
  BY <1>2 DEF CreateVersion
<1>3. CASE Acquire(d)
  BY <1>3, LockKeepsTypes DEF Acquire
<1>4. CASE PrepareActivation(d)
  BY <1>4 DEF PrepareActivation
<1>5. CASE CheckBeforeBatch(d)
  BY <1>5 DEF CheckBeforeBatch, CheckHealth
<1>6. CASE CommitActivation(d) \/ ActivationUnanswered(d)
  <2>1. ActivatedRow(d) \in Routes
    BY <1>6 DEF CommitActivation, ActivationUnanswered, ActivatedRow, AllRoutes, Versions
  <2> QED
    BY <1>6, <2>1 DEF CommitActivation, ActivationUnanswered
<1>7. CASE ActivationRefused(d)
  BY <1>7 DEF ActivationRefused
<1>8. CASE CheckBeforePublish(d) \/ CheckAfterPublish(d)
  BY <1>8 DEF CheckBeforePublish, CheckAfterPublish, CheckHealth
<1>9. CASE Publish(d)
  <2>1. WriteDone(mine[d]) \/ WriteFailed(mine[d])
    BY <1>9 DEF Publish
  <2>2. published' \in Routes \cup {None} /\ durable' \in Durables \cup {None}
    BY <1>9, <2>1, PointerCalls DEF Publish
  <2> QED
    BY <1>9, <2>2 DEF Publish
<1> QED
  BY <1>1, <1>2, <1>3, <1>4, <1>5, <1>6, <1>7, <1>8, <1>9 DEF Activate

LEMMA CompensateKeepsTypes ==
  ASSUME Routes = AllRoutes, TypeInv, NEW d \in Deployments, Compensate(d) \/ RestoreFails(d)
  PROVE  TypeInv'
<1> USE DEF TypeInv, TypeOK, Places, Sessions, pointer, memory, signals, At, Go, Leave,
            SessionSteps, Outside
<1>1. CASE ReadForRestore(d) \/ Reread(d) \/ RestoreFails(d)
  BY <1>1 DEF ReadForRestore, Reread, RestoreFails
<1>2. CASE OverwriteRow(d)
  <2>1. RestoredRow(d) \in Routes
    BY <1>2 DEF OverwriteRow, RestoredRow, Newest, AllRoutes
  <2> QED
    BY <1>2, <2>1 DEF OverwriteRow
<1>3. CASE PublishRestored(d)
  <2>1. WriteDone(seen[d]) \/ WriteFailed(seen[d])
    BY <1>3 DEF PublishRestored
  <2>2. published' \in Routes \cup {None} /\ durable' \in Durables \cup {None}
    BY <1>3, <2>1, PointerCalls DEF PublishRestored
  <2> QED
    BY <1>3, <2>2 DEF PublishRestored
<1>4. CASE ClearAndReport(d)
  <2>1. published' \in Routes \cup {None} /\ durable' \in Durables \cup {None}
    BY <1>4, PointerCalls DEF ClearAndReport
  <2> QED
    BY <1>4, <2>1 DEF ClearAndReport
<1>5. CASE CompareWorker(d) \/ DeleteIfInactive(d)
  BY <1>5 DEF CompareWorker, DeleteIfInactive
<1>6. CASE RecordFailure(d)
  BY <1>6 DEF RecordFailure
<1> QED
  BY <1>1, <1>2, <1>3, <1>4, <1>5, <1>6 DEF Compensate

LEMMA EndKeepsTypes ==
  ASSUME TypeInv, NEW d \in Deployments, End(d)
  PROVE  TypeInv'
<1>1. CASE Release(d)
  BY <1>1, LockKeepsTypes DEF Release, Outside, Sessions
<1>2. CASE CleanupWorker(d)
  BY <1>2 DEF CleanupWorker, TypeInv, TypeOK, Places, Sessions, pointer, memory, signals, At, Go,
              SessionSteps, Outside
<1>3. CASE Fail(d) \/ Complete(d)
  BY <1>3 DEF Fail, Complete, Finish, TypeInv, TypeOK, Places, Sessions, pointer, memory, signals,
              At, Go, SessionSteps, Outside
<1> QED
  BY <1>1, <1>2, <1>3 DEF End

LEMMA PolicyKeepsTypes ==
  ASSUME Routes = AllRoutes, TypeInv, NEW p \in PolicyChanges, ChangePolicy(p)
  PROVE  TypeInv'
<1> USE DeploymentAssumption
<1>1. CASE AcquireLock(p, "read") \/ LockRefused(p, "done") \/ ReleaseLock(p, "done")
  BY <1>1, LockKeepsTypes DEF Outside, Sessions
<1> USE DEF TypeInv, TypeOK, Places, Sessions, pointer, memory, signals, At, Go, Leave,
            SessionSteps, Outside
<1>2. CASE ReadPolicy(p)
  BY <1>2 DEF ReadPolicy
<1>3. CASE CommitPolicy(p, "change", "publish") \/ CommitPolicy(p, "rechange", "republish")
            \/ PolicyUnanswered(p)
  <2>1. row' \in Routes
    BY <1>3 DEF CommitPolicy, PolicyUnanswered, AllRoutes
  <2> QED
    BY <1>3, <2>1 DEF CommitPolicy, PolicyUnanswered
<1>4. CASE PolicyRefused(p)
  BY <1>4 DEF PolicyRefused
<1>5. CASE PublishPolicy(p) \/ PublishCompensation(p)
  <2>1. /\ mine[p] \in Routes
        /\ WriteDone(mine[p]) \/ WriteFailed(mine[p])
    BY <1>5 DEF PublishPolicy, PublishCompensation
  <2>2. published' \in Routes \cup {None} /\ durable' \in Durables \cup {None}
    BY <2>1, PointerCalls
  <2>3. CASE PublishPolicy(p)
    BY <2>2, <2>3 DEF PublishPolicy
  <2>4. CASE PublishCompensation(p)
    BY <2>2, <2>4 DEF PublishCompensation
  <2> QED
    BY <1>5, <2>3, <2>4
<1>6. CASE ReadForCompensation(p)
  BY <1>6 DEF ReadForCompensation
<1> QED
  BY <1>1, <1>2, <1>3, <1>4, <1>5, <1>6 DEF ChangePolicy

LEMMA FaultKeepsTypes ==
  ASSUME TypeInv, NEW s \in Sessions, Fault(s)
  PROVE  TypeInv'
<1> USE DEF TypeInv, TypeOK, Places, pointer, memory, signals, At, Go, SessionSteps, Outside
<1>1. CASE Timeout(s)
  BY <1>1 DEF Timeout
<1>2. CASE RenewalFails(s)
  BY <1>2 DEF RenewalFails
<1>3. CASE LeaseRunsOut(s)
  <2>1. lock' \in [holder : Sessions \cup {None}, expired : BOOLEAN]
    BY <1>3 DEF LeaseRunsOut
  <2> QED
    BY <1>3, <2>1 DEF LeaseRunsOut
<1>4. CASE Crash(s)
  BY <1>4 DEF Crash
<1> QED
  BY <1>1, <1>2, <1>3, <1>4 DEF Fault

LEMMA TypeNext == ASSUME Routes = AllRoutes PROVE TypeInv /\ [Next]_vars => TypeInv'
<1> SUFFICES ASSUME TypeInv, [Next]_vars PROVE TypeInv'
  OBVIOUS
<1>1. CASE UNCHANGED vars
  BY <1>1 DEF vars, pointer, memory, signals, TypeInv, TypeOK, Places
<1>2. CASE Next
  BY <1>2, ActivateKeepsTypes, CompensateKeepsTypes, EndKeepsTypes, PolicyKeepsTypes,
     FaultKeepsTypes
  DEF Next, Deploy
<1> QED
  BY <1>1, <1>2

\* Every variable of a deployment keeps its type, whatever fails and however
\* many requests there are (deploy-site-handler.js, update-access-policy.js).
THEOREM TypeCorrect ==
  ASSUME Routes = AllRoutes
  PROVE  Spec => []TypeOK
<1>1. TypeInv => TypeOK
  BY DEF TypeInv
<1> QED
  BY <1>1, TypeInit, TypeNext, PTL DEF Spec

-----------------------------------------------------------------------------
(* Every step of a request, whatever fails.                                *)

\* One step moves one session.
LEMMA GoMovesOne ==
  ASSUME TypeInv, NEW s \in Sessions, NEW step, Go(s, step)
  PROVE  /\ DOMAIN pc' = Sessions
         /\ pc'[s] = step
         /\ \A t \in Sessions : t # s => pc'[t] = pc[t]
BY DEF Go, TypeInv, TypeOK

\* The calls of a request.
Calls(s) ==
  \/ s \in Deployments /\ (Deploy(s) \/ RestoreFails(s) \/ ActivationUnanswered(s))
  \/ s \in PolicyChanges /\ ChangePolicy(s)

Acts(s) == Calls(s) \/ Fault(s)

LEMMA SomeoneActs == [Next]_vars => UNCHANGED vars \/ \E s \in Sessions : Acts(s)
BY DEF Next, Acts, Calls, Sessions

\* The calls that take the lock or give it back.
Locks(s) ==
  \/ \E step \in {"prepare", "read"} : AcquireLock(s, step)
  \/ \E step \in {"complete", "done", "failing"} : ReleaseLock(s, step)

\* A call leads forward, leaves signals alone, and enters the callback only
\* with the lock.
LEMMA CallsGoForward ==
  ASSUME NEW s \in Sessions, Calls(s)
  PROVE  /\ \E step : Go(s, step) /\ Progress(step) > Progress(pc[s])
                     /\ (step \in Outside \/ InCallback(s) \/ Locks(s))
         /\ UNCHANGED signals
         /\ UNCHANGED lock \/ Locks(s)
<1> USE DEF At, Leave, CheckHealth, Progress, Outside, InCallback
<1>1. CASE AcquireLock(s, "prepare") \/ AcquireLock(s, "read")
  BY <1>1 DEF AcquireLock, Locks
<1>2. CASE LockRefused(s, "failing") \/ LockRefused(s, "done")
  BY <1>2 DEF LockRefused
<1>3. CASE Release(s) \/ ReleaseLock(s, "done")
  BY <1>3 DEF Release, ReleaseLock, Locks
<1>4. CASE Upload(s) \/ CreateVersion(s) \/ PrepareActivation(s) \/ CheckBeforeBatch(s)
  BY <1>4 DEF Upload, CreateVersion, PrepareActivation, CheckBeforeBatch, signals
<1>5. CASE CommitActivation(s) \/ ActivationRefused(s) \/ ActivationUnanswered(s)
  BY <1>5 DEF CommitActivation, ActivationRefused, ActivationUnanswered
<1>6. CASE CheckBeforePublish(s) \/ Publish(s) \/ CheckAfterPublish(s)
  BY <1>6 DEF CheckBeforePublish, Publish, CheckAfterPublish
<1>7. CASE ReadForRestore(s) \/ OverwriteRow(s) \/ Reread(s) \/ RestoreFails(s)
  BY <1>7 DEF ReadForRestore, OverwriteRow, Reread, RestoreFails
<1>8. CASE PublishRestored(s) \/ ClearAndReport(s) \/ CompareWorker(s) \/ DeleteIfInactive(s)
  BY <1>8 DEF PublishRestored, ClearAndReport, CompareWorker, DeleteIfInactive
<1>9. CASE RecordFailure(s) \/ CleanupWorker(s) \/ Fail(s) \/ Complete(s)
  BY <1>9 DEF RecordFailure, CleanupWorker, Fail, Complete, Finish
<1>10. CASE ReadPolicy(s) \/ CommitPolicy(s, "change", "publish") \/ PolicyUnanswered(s)
            \/ PolicyRefused(s) \/ PublishPolicy(s)
  BY <1>10 DEF ReadPolicy, CommitPolicy, PolicyUnanswered, PolicyRefused, PublishPolicy
<1>11. CASE ReadForCompensation(s) \/ CommitPolicy(s, "rechange", "republish")
            \/ PublishCompensation(s)
  BY <1>11 DEF ReadForCompensation, CommitPolicy, PublishCompensation
<1> QED
  BY <1>1, <1>2, <1>3, <1>4, <1>5, <1>6, <1>7, <1>8, <1>9, <1>10, <1>11
  DEF Calls, Deploy, Activate, Acquire, Compensate, End, ChangePolicy

\* A request never goes back, and no step of it, or of what befalls it, is
\* without effect: it ends after a bounded number of steps, whatever fails
\* (deploy-site-handler.js, update-access-policy.js).  That nobody keeps it
\* from its next step, the other half of EveryRequestEnds, is model-checked.
THEOREM RequestsEndInTime ==
  ASSUME Routes = AllRoutes
  PROVE  Spec => RequestsGoForward
<1> DEFINE Forward(s) ==
      /\ \A t \in Sessions \ {s} : pc'[t] = pc[t]
      /\ Progress(pc'[s]) > Progress(pc[s]) \/ (pc'[s] = pc[s] /\ BefallsOnce(s))
<1>1. ASSUME TypeInv, NEW s \in Sessions, Calls(s) PROVE Forward(s)
  <2>1. PICK step : Go(s, step) /\ Progress(step) > Progress(pc[s])
    BY <1>1, CallsGoForward
  <2> QED
    BY <1>1, <2>1, GoMovesOne
<1>2. ASSUME TypeInv, NEW s \in Sessions, Crash(s) PROVE Forward(s)
  <2>1. Go(s, "crashed") /\ pc[s] \in SessionSteps \ {"done", "crashed"}
    BY <1>2 DEF Crash, TypeInv, TypeOK
  <2>2. Progress("crashed") > Progress(pc[s])
    BY <2>1 DEF Progress, SessionSteps, Outside
  <2> QED
    BY <1>2, <2>1, <2>2, GoMovesOne
<1>3. ASSUME TypeInv, NEW s \in Sessions, Timeout(s) \/ RenewalFails(s) \/ LeaseRunsOut(s)
      PROVE  Forward(s)
  BY <1>3 DEF Timeout, RenewalFails, LeaseRunsOut, BefallsOnce, TypeInv, TypeOK
<1>4. TypeInv /\ [Next]_vars => UNCHANGED vars \/ \E s \in Sessions : Forward(s)
  BY <1>1, <1>2, <1>3, SomeoneActs DEF Acts, Fault
<1>5. TypeInv /\ [Next]_vars => [\E s \in Sessions : Forward(s)]_vars
  BY <1>4
<1> QED
  BY <1>5, TypeInit, TypeNext, PTL DEF Spec, RequestsGoForward

-----------------------------------------------------------------------------
(* The lock, whatever fails.                                               *)

Healthy(s) == InCallback(s) /\ ~aborted[s]
HealthySessions == {s \in Sessions : Healthy(s)}

\* As long as a callback has not been aborted its lease runs.
LeaseIsKept == \A s \in Sessions : Healthy(s) => lock = [holder |-> s, expired |-> FALSE]

\* A session whose callback goes on, ends or is aborted.
LEMMA LeasesGoOn ==
  ASSUME LeaseIsKept, UNCHANGED lock, NEW s \in Sessions, Healthy(s)' => Healthy(s),
         \A t \in Sessions \ {s} : Healthy(t)' = Healthy(t)
  PROVE  LeaseIsKept' /\ [Callbacks!LeaseNext]_(Callbacks!leaseVars)
<1>1. LeaseIsKept'
  BY DEF LeaseIsKept
<1>2. HealthySessions' = HealthySessions \/ HealthySessions' = HealthySessions \ {s}
  BY DEF HealthySessions
<1> QED
  BY <1>1, <1>2
  DEF Callbacks!LeaseNext, Callbacks!Leave, Callbacks!leaseVars, HealthySessions, Healthy

LEMMA LeaseNext ==
  ASSUME TypeInv, LeaseIsKept, NEW s \in Sessions, Acts(s)
  PROVE  LeaseIsKept' /\ [Callbacks!LeaseNext]_(Callbacks!leaseVars)
<1>1. CASE Calls(s) /\ ~Locks(s)
  <2>1. PICK step : Go(s, step) /\ (step \in Outside \/ InCallback(s))
    BY <1>1, CallsGoForward
  <2>2. UNCHANGED <<lock, signals>>
    BY <1>1, CallsGoForward
  <2>3. Healthy(s)' => Healthy(s)
    BY <2>1, <2>2, GoMovesOne DEF Healthy, InCallback, signals
  <2>4. ASSUME NEW t \in Sessions \ {s} PROVE Healthy(t)' = Healthy(t)
    BY <2>1, <2>2, GoMovesOne DEF Healthy, InCallback, signals
  <2> QED
    BY <2>2, <2>3, <2>4, LeasesGoOn
<1>2. ASSUME NEW step \in {"prepare", "read"}, AcquireLock(s, step)
      PROVE  LeaseIsKept' /\ [Callbacks!LeaseNext]_(Callbacks!leaseVars)
  <2>1. /\ lock' = [holder |-> s, expired |-> FALSE] /\ UNCHANGED signals
        /\ \A t \in Sessions \ {s} : pc'[t] = pc[t]
    BY <1>2, GoMovesOne DEF AcquireLock
  <2>2. ASSUME NEW t \in Sessions PROVE ~Healthy(t)
    BY <1>2, DeploymentAssumption DEF AcquireLock, LeaseIsKept
  <2>3. HealthySessions = {} /\ HealthySessions' \subseteq {s}
    BY <2>1, <2>2 DEF HealthySessions, Healthy, InCallback, signals
  <2>4. LeaseIsKept'
    BY <2>1, <2>3 DEF LeaseIsKept, HealthySessions
  <2> QED
    BY <2>1, <2>3, <2>4 DEF Callbacks!LeaseNext, Callbacks!Take, HealthySessions, Healthy
<1>3. ASSUME NEW step \in {"complete", "done", "failing"}, ReleaseLock(s, step)
      PROVE  LeaseIsKept' /\ [Callbacks!LeaseNext]_(Callbacks!leaseVars)
  <2>1. pc[s] = "leave" /\ Go(s, step) /\ UNCHANGED signals
    BY <1>3 DEF ReleaseLock, At
  <2>2. ~Healthy(s) /\ ~Healthy(s)'
    BY <2>1, GoMovesOne DEF Healthy, InCallback, Outside
  <2>3. ASSUME NEW t \in Sessions \ {s} PROVE Healthy(t)' = Healthy(t)
    BY <2>1, GoMovesOne DEF Healthy, InCallback, signals
  <2>4. CASE UNCHANGED lock
    BY <2>2, <2>3, <2>4, LeasesGoOn
  <2>5. CASE lock.holder = s /\ lock' = [holder |-> None, expired |-> FALSE]
    <3>1. \A t \in Sessions : ~Healthy(t)
      BY <2>2, <2>5 DEF LeaseIsKept
    <3>2. HealthySessions = {} /\ HealthySessions' = {}
      BY <2>2, <2>3, <3>1 DEF HealthySessions
    <3>3. LeaseIsKept'
      BY <3>2 DEF LeaseIsKept, HealthySessions
    <3> QED
      BY <2>5, <3>2, <3>3 DEF Callbacks!LeaseNext, Callbacks!GiveBack, HealthySessions, Healthy
  <2> QED
    BY <1>3, <2>4, <2>5 DEF ReleaseLock
<1>4. CASE Crash(s)
  <2>1. Go(s, "crashed") /\ UNCHANGED <<lock, signals>>
    BY <1>4 DEF Crash
  <2>2. ~Healthy(s)'
    BY <2>1, GoMovesOne DEF Healthy, InCallback, Outside
  <2>3. ASSUME NEW t \in Sessions \ {s} PROVE Healthy(t)' = Healthy(t)
    BY <2>1, GoMovesOne DEF Healthy, InCallback, signals
  <2> QED
    BY <2>1, <2>2, <2>3, LeasesGoOn
<1>5. CASE Timeout(s) \/ RenewalFails(s)
  <2>1. UNCHANGED <<lock, pc>> /\ aborted' = [aborted EXCEPT ![s] = TRUE]
    BY <1>5 DEF Timeout, RenewalFails
  <2>2. ~Healthy(s)'
    BY <2>1 DEF Healthy, TypeInv, TypeOK
  <2>3. ASSUME NEW t \in Sessions \ {s} PROVE Healthy(t)' = Healthy(t)
    BY <2>1 DEF Healthy, InCallback, TypeInv, TypeOK
  <2> QED
    BY <2>1, <2>2, <2>3, LeasesGoOn
<1>6. CASE LeaseRunsOut(s)
  <2>1. /\ ~Healthy(s) /\ UNCHANGED <<pc, signals>>
        /\ lock.holder = s /\ lock'.holder = s
    BY <1>6 DEF LeaseRunsOut, Healthy
  <2>2. \A t \in Sessions : ~Healthy(t) /\ ~Healthy(t)'
    BY <2>1 DEF LeaseIsKept, Healthy, InCallback, signals
  <2>3. HealthySessions = HealthySessions' /\ LeaseIsKept'
    BY <2>2 DEF HealthySessions, LeaseIsKept
  <2> QED
    BY <2>1, <2>3 DEF Callbacks!leaseVars, HealthySessions, Healthy
<1> QED
  BY <1>1, <1>2, <1>3, <1>4, <1>5, <1>6 DEF Acts, Locks, Fault

\* Under any faults the lock is taken from no callback whose signal has not
\* aborted: what the handlers are modelled with is the CommitLease that
\* SiteCommitLock implements with its clocks and renewals, and no more
\* (site-policy.js, withSiteCommitLock).
THEOREM LeaseRefinement ==
  ASSUME Routes = AllRoutes
  PROVE  Spec => LockIsALease
<1>1. ASSUME Init PROVE LeaseIsKept /\ Callbacks!LeaseInit
  BY <1>1 DEF Init, LeaseIsKept, Callbacks!LeaseInit, Healthy, InCallback, Outside
<1>2. ASSUME UNCHANGED vars, LeaseIsKept
      PROVE  LeaseIsKept' /\ UNCHANGED Callbacks!leaseVars
  BY <1>2 DEF vars, signals, LeaseIsKept, Callbacks!leaseVars, Healthy, InCallback
<1>3. TypeInv /\ LeaseIsKept /\ [Next]_vars
      => LeaseIsKept' /\ [Callbacks!LeaseNext]_(Callbacks!leaseVars)
  BY <1>2, LeaseNext, SomeoneActs
<1> QED
  BY <1>1, <1>3, TypeInit, TypeNext, PTL DEF Spec, LockIsALease, Callbacks!LeaseSpec

\* What a lease promises is that no two callbacks of a site are healthy at the
\* same time: whatever implements CommitLease excludes them.
THEOREM OneHealthyCallback ==
  LockIsALease => [](\A s, t \in Sessions : Healthy(s) /\ Healthy(t) => s = t)
<1> DEFINE Excluded == HealthySessions \subseteq {lock.holder}
<1>1. Callbacks!LeaseInit => Excluded
  BY DEF Callbacks!LeaseInit, HealthySessions, Healthy
<1>2. Excluded /\ [Callbacks!LeaseNext]_(Callbacks!leaseVars) => Excluded'
  BY DEF Callbacks!LeaseNext, Callbacks!Take, Callbacks!Start, Callbacks!Leave, Callbacks!GiveBack,
         Callbacks!leaseVars, HealthySessions, Healthy
<1>3. Excluded => \A s, t \in Sessions : Healthy(s) /\ Healthy(t) => s = t
  BY DEF HealthySessions
<1> QED
  BY <1>1, <1>2, <1>3, PTL DEF LockIsALease, Callbacks!LeaseSpec

-----------------------------------------------------------------------------
(* Callbacks exclude each other.                                           *)

\* Without timeouts and failing renewals no signal aborts, so that the lock
\* stays with the session whose callback runs.
Calm == \A s \in Sessions : ~aborted[s] /\ ~lost[s]
Held == \A s \in Sessions : InCallback(s) => lock.holder = s /\ ~lock.expired

\* What a session has read or committed is the row, as long as its callback runs.
Known(s) ==
  /\ pc[s] \in {"health", "activate", "change", "rechange"} => base[s] = row
  /\ pc[s] \in {"publish", "write", "published", "restore", "overwrite", "compensate", "republish"}
       => mine[s] = row
  /\ pc[s] \in {"overwrite", "rewrite"} => seen[s] = row
  /\ pc[s] \in {"published", "compare", "delete"} => published = row
  /\ s \in Deployments =>
       /\ pc[s] \in {"publish", "write", "published", "restore", "overwrite"} => row.ver = s
       /\ pc[s] \notin {"read", "change", "compensate", "rechange", "republish"}
  /\ s \in PolicyChanges =>
       pc[s] \in Outside \cup {"read", "change", "publish", "compensate", "rechange", "republish"}

RowsKnown == \A s \in Sessions : Known(s)

CallbackInv == TypeInv /\ Calm /\ Held /\ RowsKnown

LEMMA OneCallback ==
  ASSUME CallbackInv, NEW s \in Sessions, NEW t \in Sessions, InCallback(s), InCallback(t)
  PROVE  s = t
BY DEF CallbackInv, Held

LEMMA CallbackInit == ASSUME Routes = AllRoutes PROVE Init => CallbackInv
<1> SUFFICES ASSUME Init PROVE CallbackInv
  OBVIOUS
<1>1. Calm /\ Held
  BY DEF Init, Calm, Held, InCallback, Outside
<1>2. RowsKnown
  BY DEF Init, RowsKnown, Known, Outside, Sessions
<1> QED
  BY <1>1, <1>2, TypeInit DEF CallbackInv

\* The callback of a session goes on, or ends: the others are outside theirs.
LEMMA HeldGoesOn ==
  ASSUME CallbackInv, NEW s \in Sessions, UNCHANGED lock,
         \A t \in Sessions : t # s => pc'[t] = pc[t],
         InCallback(s)' => InCallback(s)
  PROVE  Held'
BY DEF CallbackInv, Held, InCallback

LEMMA HeldNext ==
  ASSUME NoAborts, CallbackInv, [Next]_vars
  PROVE  Held' /\ Calm'
<1> USE DEF CallbackInv
<1>1. Calm'
  <2>1. UNCHANGED signals
    BY DEF Next, vars, Deploy, Activate, Compensate, End, ChangePolicy, Fault, NoAborts, Upload,
           CreateVersion, Acquire, AcquireLock, LockRefused, PrepareActivation, CheckBeforeBatch,
           CommitActivation, ActivationRefused, CheckBeforePublish, Publish, CheckAfterPublish,
           ReadForRestore, OverwriteRow, Reread, PublishRestored, ClearAndReport, CompareWorker,
           DeleteIfInactive, RecordFailure, Release, ReleaseLock, CleanupWorker, Fail, Complete,
           Finish, ReadPolicy, CommitPolicy, PolicyUnanswered, PolicyRefused, PublishPolicy,
           ReadForCompensation, PublishCompensation, RestoreFails, ActivationUnanswered, Timeout,
           RenewalFails, LeaseRunsOut, Crash
  <2> QED
    BY <2>1 DEF Calm, signals
<1>2. CASE UNCHANGED vars
  BY <1>1, <1>2 DEF vars, Held, InCallback
<1>3. ASSUME NEW s \in Sessions, NEW step, AcquireLock(s, step) PROVE Held'
  BY <1>3, GoMovesOne, DeploymentAssumption
  DEF AcquireLock, At, Held, InCallback, Outside, TypeInv, TypeOK
<1>4. ASSUME NEW s \in Sessions, NEW step \in Outside, ReleaseLock(s, step) PROVE Held'
  BY <1>4, GoMovesOne
  DEF ReleaseLock, At, Held, InCallback, Outside, TypeInv, TypeOK
<1>5. ASSUME NEW s \in Sessions, NEW step \in Outside, LockRefused(s, step) PROVE Held'
  BY <1>5, GoMovesOne, HeldGoesOn DEF LockRefused, At, InCallback
<1>6. ASSUME NEW s \in Sessions, LeaseRunsOut(s) PROVE Held'
  BY <1>6 DEF LeaseRunsOut, Held, Calm, InCallback, TypeInv, TypeOK
<1>7. ASSUME NEW s \in Sessions, Crash(s) PROVE Held'
  BY <1>7, GoMovesOne, HeldGoesOn DEF Crash, InCallback, Outside
<1>8. ASSUME NEW d \in Deployments,
             \/ Upload(d) \/ CreateVersion(d) \/ PrepareActivation(d) \/ CheckBeforeBatch(d)
             \/ CommitActivation(d) \/ ActivationRefused(d) \/ CheckBeforePublish(d) \/ Publish(d)
             \/ CheckAfterPublish(d) \/ Compensate(d) \/ RestoreFails(d)
             \/ ActivationUnanswered(d)
      PROVE  Held'
  <2>1. UNCHANGED lock
    BY <1>8
    DEF Compensate, Upload, CreateVersion, PrepareActivation, CheckBeforeBatch,
        CommitActivation, ActivationRefused, CheckBeforePublish, Publish, CheckAfterPublish,
        ReadForRestore, OverwriteRow, Reread, PublishRestored, ClearAndReport, CompareWorker,
        DeleteIfInactive, RecordFailure, RestoreFails, ActivationUnanswered
  <2>2. \E step : Go(d, step) /\ (step \in Outside \/ InCallback(d))
    BY <1>8
    DEF Compensate, Upload, CreateVersion, PrepareActivation, CheckBeforeBatch, CheckHealth,
        CommitActivation, ActivationRefused, CheckBeforePublish, Publish, CheckAfterPublish,
        ReadForRestore, OverwriteRow, Reread, PublishRestored, ClearAndReport, CompareWorker,
        DeleteIfInactive, RecordFailure, RestoreFails, ActivationUnanswered, Leave, At,
        InCallback, Outside
  <2> QED
    BY <2>1, <2>2, GoMovesOne, HeldGoesOn DEF InCallback, Sessions
<1>9. ASSUME NEW d \in Deployments, CleanupWorker(d) \/ Fail(d) \/ Complete(d) PROVE Held'
  BY <1>9, GoMovesOne, HeldGoesOn
  DEF CleanupWorker, Fail, Complete, Finish, InCallback, Outside, Sessions
<1>10. ASSUME NEW p \in PolicyChanges,
              \/ ReadPolicy(p) \/ CommitPolicy(p, "change", "publish") \/ PolicyRefused(p)
              \/ PublishPolicy(p) \/ ReadForCompensation(p)
              \/ CommitPolicy(p, "rechange", "republish") \/ PublishCompensation(p)
              \/ PolicyUnanswered(p)
       PROVE  Held'
  <2>1. UNCHANGED lock
    BY <1>10
    DEF ReadPolicy, CommitPolicy, PolicyUnanswered, PolicyRefused, PublishPolicy,
        ReadForCompensation, PublishCompensation
  <2>2. \E step : Go(p, step) /\ (step \in Outside \/ InCallback(p))
    BY <1>10
    DEF ReadPolicy, CommitPolicy, PolicyUnanswered, PolicyRefused, PublishPolicy,
        ReadForCompensation, PublishCompensation, Leave, At, InCallback, Outside
  <2> QED
    BY <2>1, <2>2, GoMovesOne, HeldGoesOn DEF InCallback, Sessions
<1>11. "timeout" \notin Faults /\ "renewal" \notin Faults
  BY DEF NoAborts
<1>12. ASSUME NEW d \in Deployments, Deploy(d) \/ RestoreFails(d) \/ ActivationUnanswered(d)
       PROVE  Held'
  <2>1. CASE Acquire(d)
    BY <1>3, <1>5, <2>1 DEF Acquire, Sessions, Outside
  <2>2. CASE Release(d)
    BY <1>4, <2>2 DEF Release, Sessions, Outside
  <2> QED
    BY <1>8, <1>9, <1>12, <2>1, <2>2 DEF Deploy, Activate, End
<1>13. ASSUME NEW p \in PolicyChanges, ChangePolicy(p) PROVE Held'
  <2>1. CASE AcquireLock(p, "read")
    BY <1>3, <2>1 DEF Sessions
  <2>2. CASE LockRefused(p, "done") \/ ReleaseLock(p, "done")
    BY <1>4, <1>5, <2>2 DEF Sessions, Outside
  <2> QED
    BY <1>10, <1>13, <2>1, <2>2 DEF ChangePolicy
<1>14. ASSUME NEW s \in Sessions, Fault(s) PROVE Held'
  BY <1>6, <1>7, <1>11, <1>14 DEF Fault, Timeout, RenewalFails
<1>15. CASE Next
  BY <1>1, <1>12, <1>13, <1>14, <1>15 DEF Next
<1> QED
  BY <1>1, <1>2, <1>15

\* A session outside its callback relies on no row.
LEMMA OutsideIsKnown ==
  ASSUME NEW s \in Sessions
  PROVE  /\ pc[s] \in Outside => Known(s)
         /\ pc'[s] \in Outside => Known(s)'
BY DEF Known, Outside

\* A session goes on outside its callback, or enters or leaves it.
LEMMA RowsKept ==
  ASSUME CallbackInv, UNCHANGED <<row, published, base, mine, seen>>,
         NEW s \in Sessions, NEW step, Go(s, step),
         \/ step \in Outside
         \/ s \in Deployments /\ step = "prepare"
         \/ s \in PolicyChanges /\ step = "read"
  PROVE  RowsKnown'
<1>1. Known(s)'
  BY GoMovesOne, DeploymentAssumption DEF CallbackInv, Known, Outside
<1>2. ASSUME NEW t \in Sessions, t # s PROVE Known(t)'
  BY <1>2, GoMovesOne DEF CallbackInv, RowsKnown, Known
<1> QED
  BY <1>1, <1>2 DEF RowsKnown

\* While its callback runs, the others are outside theirs.
LEMMA RowsOfOne ==
  ASSUME CallbackInv, NEW s \in Sessions, InCallback(s), NEW step, Go(s, step), Known(s)'
  PROVE  RowsKnown'
<1>1. ASSUME NEW t \in Sessions, t # s PROVE Known(t)'
  BY <1>1, GoMovesOne, OneCallback, OutsideIsKnown DEF InCallback, CallbackInv
<1> QED
  BY <1>1 DEF RowsKnown

LEMMA ActivateKeepsRows ==
  ASSUME Routes = AllRoutes, CallbackInv, NEW d \in Deployments, Activate(d)
  PROVE  RowsKnown'
<1> USE DEF At
<1>0. /\ d \in Sessions /\ d \notin PolicyChanges /\ ~aborted[d]
      /\ pc \in [Sessions -> SessionSteps] /\ base \in [Sessions -> Routes \cup {None}]
      /\ mine \in [Sessions -> Routes \cup {None}]
  BY DeploymentAssumption DEF Sessions, CallbackInv, Calm, TypeInv, TypeOK
<1>1. CASE Upload(d) \/ CreateVersion(d)
  BY <1>0, <1>1, RowsKept DEF Upload, CreateVersion, pointer, memory, Outside
<1>2. CASE Acquire(d)
  BY <1>0, <1>2, RowsKept DEF Acquire, AcquireLock, LockRefused, pointer, memory, Outside
<1>3. CASE pc[d] = "prepare" /\ PrepareActivation(d)
  <2>1. UNCHANGED row /\ base' = [base EXCEPT ![d] = row]
    BY <1>3 DEF PrepareActivation
  <2>2. \E step \in {"health", "leave"} : Go(d, step)
    BY <1>3 DEF PrepareActivation, Leave
  <2>3. PICK step \in {"health", "leave"} : Go(d, step)
    BY <2>2
  <2>4. Known(d)'
    BY <1>0, <2>1, <2>3, GoMovesOne DEF CallbackInv, Known
  <2> QED
    BY <1>0, <1>3, <2>3, <2>4, RowsOfOne DEF InCallback, Outside
<1>4. CASE CheckBeforeBatch(d)
  <2>1. Go(d, "activate") /\ UNCHANGED <<row, base>>
    BY <1>0, <1>4 DEF CheckBeforeBatch, CheckHealth
  <2>2. base[d] = row
    BY <1>0, <1>4 DEF CheckBeforeBatch, CallbackInv, RowsKnown, Known
  <2>3. Known(d)'
    BY <1>0, <2>1, <2>2, GoMovesOne DEF CallbackInv, Known
  <2> QED
    BY <1>0, <1>4, <2>1, <2>3, RowsOfOne DEF InCallback, Outside, CheckBeforeBatch
<1>5. CASE CommitActivation(d)
  <2>1. Go(d, "publish") /\ row' = ActivatedRow(d) /\ mine' = [mine EXCEPT ![d] = ActivatedRow(d)]
    BY <1>5 DEF CommitActivation
  <2>2. ActivatedRow(d).ver = d
    BY DEF ActivatedRow
  <2>3. Known(d)'
    BY <1>0, <2>1, <2>2, GoMovesOne DEF CallbackInv, Known
  <2> QED
    BY <1>0, <1>5, <2>1, <2>3, RowsOfOne DEF InCallback, Outside, CommitActivation
<1>6. CASE ActivationRefused(d)
  BY <1>0, <1>6, RowsKept DEF ActivationRefused, Leave, pointer, Outside
<1>7. CASE CheckBeforePublish(d)
  <2>1. Go(d, "write") /\ UNCHANGED <<row, mine>>
    BY <1>0, <1>7 DEF CheckBeforePublish, CheckHealth
  <2>2. mine[d] = row /\ row.ver = d
    BY <1>0, <1>7 DEF CheckBeforePublish, CallbackInv, RowsKnown, Known
  <2>3. Known(d)'
    BY <1>0, <2>1, <2>2, GoMovesOne DEF CallbackInv, Known
  <2> QED
    BY <1>0, <1>7, <2>1, <2>3, RowsOfOne DEF InCallback, Outside, CheckBeforePublish
<1>8. CASE Publish(d)
  <2>1. /\ pc[d] = "write" /\ UNCHANGED <<row, mine>>
        /\ \/ WriteDone(mine[d]) /\ Go(d, "published")
           \/ Go(d, "restore")
    BY <1>8 DEF Publish, memory
  <2>2. mine[d] = row /\ row.ver = d
    BY <1>0, <2>1 DEF CallbackInv, RowsKnown, Known
  <2>3. CASE WriteDone(mine[d]) /\ Go(d, "published")
    <3>1. published' = row
      BY <2>2, <2>3 DEF WriteDone
    <3>2. Known(d)'
      BY <1>0, <2>1, <2>2, <2>3, <3>1, GoMovesOne DEF CallbackInv, Known
    <3> QED
      BY <1>0, <2>1, <2>3, <3>2, RowsOfOne DEF InCallback, Outside
  <2>4. CASE Go(d, "restore")
    <3>1. Known(d)'
      BY <1>0, <2>1, <2>2, <2>4, GoMovesOne DEF CallbackInv, Known
    <3> QED
      BY <1>0, <2>1, <2>4, <3>1, RowsOfOne DEF InCallback, Outside
  <2> QED
    BY <2>1, <2>3, <2>4
<1>9. CASE CheckAfterPublish(d)
  <2>1. Go(d, "leave") /\ UNCHANGED <<row, published, base, mine, seen>>
    BY <1>0, <1>9 DEF CheckAfterPublish, Leave, pointer
  <2> QED
    BY <1>0, <2>1, RowsKept DEF Outside
<1> QED
  BY <1>1, <1>2, <1>3, <1>4, <1>5, <1>6, <1>7, <1>8, <1>9 DEF Activate, PrepareActivation

LEMMA CompensateKeepsRows ==
  ASSUME Routes = AllRoutes, CallbackInv, NEW d \in Deployments,
         Compensate(d) \/ RestoreFails(d)
  PROVE  RowsKnown'
<1> USE DEF At
<1>0. /\ d \in Sessions /\ d \notin PolicyChanges
      /\ pc \in [Sessions -> SessionSteps]
      /\ seen \in [Sessions -> Routes \cup {None}]
  BY DeploymentAssumption DEF Sessions, CallbackInv, TypeInv, TypeOK
<1>1. CASE ReadForRestore(d)
  <2>1. mine[d] = row /\ row.ver = d
    BY <1>0, <1>1 DEF ReadForRestore, CallbackInv, RowsKnown, Known
  <2>2. Go(d, "overwrite") /\ seen' = [seen EXCEPT ![d] = row] /\ UNCHANGED <<row, mine>>
    BY <1>1, <2>1 DEF ReadForRestore, IsStillMine
  <2>3. Known(d)'
    BY <1>0, <2>1, <2>2, GoMovesOne DEF CallbackInv, Known
  <2> QED
    BY <1>0, <1>1, <2>2, <2>3, RowsOfOne DEF InCallback, Outside, ReadForRestore
<1>2. CASE OverwriteRow(d)
  <2>1. pc[d] = "overwrite" /\ Go(d, "reread")
    BY <1>2 DEF OverwriteRow
  <2>2. Known(d)'
    BY <1>0, <2>1, GoMovesOne DEF CallbackInv, Known
  <2> QED
    BY <1>0, <2>1, <2>2, RowsOfOne DEF InCallback, Outside
<1>3. CASE Reread(d)
  <2>1. pc[d] = "reread" /\ Go(d, "rewrite") /\ UNCHANGED row /\ seen' = [seen EXCEPT ![d] = row]
    BY <1>3 DEF Reread
  <2>2. Known(d)'
    BY <1>0, <2>1, GoMovesOne DEF CallbackInv, Known
  <2> QED
    BY <1>0, <2>1, <2>2, RowsOfOne DEF InCallback, Outside
<1>4. CASE PublishRestored(d)
  <2>1. /\ pc[d] = "rewrite" /\ UNCHANGED row
        /\ \/ WriteDone(seen[d]) /\ Go(d, "compare")
           \/ Go(d, "clear")
    BY <1>4 DEF PublishRestored
  <2>2. seen[d] = row
    BY <1>0, <2>1 DEF CallbackInv, RowsKnown, Known
  <2>3. CASE WriteDone(seen[d]) /\ Go(d, "compare")
    <3>1. published' = row
      BY <2>2, <2>3 DEF WriteDone
    <3>2. Known(d)'
      BY <1>0, <2>1, <2>3, <3>1, GoMovesOne DEF CallbackInv, Known
    <3> QED
      BY <1>0, <2>1, <2>3, <3>2, RowsOfOne DEF InCallback, Outside
  <2>4. CASE Go(d, "clear")
    <3>1. Known(d)'
      BY <1>0, <2>4, GoMovesOne DEF CallbackInv, Known
    <3> QED
      BY <1>0, <2>1, <2>4, <3>1, RowsOfOne DEF InCallback, Outside
  <2> QED
    BY <2>1, <2>3, <2>4
<1>5. CASE ClearAndReport(d) \/ DeleteIfInactive(d)
  <2>1. pc[d] \in {"clear", "delete"} /\ Go(d, "record")
    BY <1>5 DEF ClearAndReport, DeleteIfInactive
  <2>2. Known(d)'
    BY <1>0, <2>1, GoMovesOne DEF CallbackInv, Known
  <2> QED
    BY <1>0, <2>1, <2>2, RowsOfOne DEF InCallback, Outside
<1>6. CASE CompareWorker(d)
  <2>1. /\ pc[d] = "compare" /\ UNCHANGED <<row, published>>
        /\ \E step \in {"record", "delete"} : Go(d, step)
    BY <1>6 DEF CompareWorker, pointer
  <2>2. PICK step \in {"record", "delete"} : Go(d, step)
    BY <2>1
  <2>3. published = row
    BY <1>0, <2>1 DEF CallbackInv, RowsKnown, Known
  <2>4. Known(d)'
    BY <1>0, <2>1, <2>2, <2>3, GoMovesOne DEF CallbackInv, Known
  <2> QED
    BY <1>0, <2>1, <2>2, <2>4, RowsOfOne DEF InCallback, Outside
<1>7. CASE RecordFailure(d)
  BY <1>0, <1>7, RowsKept DEF RecordFailure, Leave, pointer, Outside
<1>8. CASE RestoreFails(d)
  <2>1. pc[d] \in {"restore", "overwrite", "reread"} /\ Go(d, "clear")
    BY <1>8 DEF RestoreFails
  <2>2. Known(d)'
    BY <1>0, <2>1, GoMovesOne DEF CallbackInv, Known
  <2> QED
    BY <1>0, <2>1, <2>2, RowsOfOne DEF InCallback, Outside
<1> QED
  BY <1>1, <1>2, <1>3, <1>4, <1>5, <1>6, <1>7, <1>8 DEF Compensate

LEMMA PolicyKeepsRows ==
  ASSUME Routes = AllRoutes, CallbackInv, NEW p \in PolicyChanges, ChangePolicy(p)
  PROVE  RowsKnown'
<1> USE DEF At
<1>0. /\ p \in Sessions /\ p \notin Deployments
      /\ pc \in [Sessions -> SessionSteps] /\ base \in [Sessions -> Routes \cup {None}]
      /\ mine \in [Sessions -> Routes \cup {None}]
  BY DeploymentAssumption DEF Sessions, CallbackInv, TypeInv, TypeOK
<1>1. CASE AcquireLock(p, "read") \/ LockRefused(p, "done") \/ ReleaseLock(p, "done")
  BY <1>0, <1>1, RowsKept DEF AcquireLock, LockRefused, ReleaseLock, pointer, memory, Outside
<1>2. CASE ReadPolicy(p)
  <2>1. pc[p] = "read" /\ Go(p, "change") /\ UNCHANGED row /\ base' = [base EXCEPT ![p] = row]
    BY <1>2 DEF ReadPolicy
  <2>2. Known(p)'
    BY <1>0, <2>1, GoMovesOne DEF CallbackInv, Known
  <2> QED
    BY <1>0, <2>1, <2>2, RowsOfOne DEF InCallback, Outside
<1>3. ASSUME NEW step \in {"change", "rechange"}, NEW next \in {"publish", "republish"},
             CommitPolicy(p, step, next)
      PROVE  RowsKnown'
  <2>1. pc[p] = step /\ Go(p, next) /\ mine' = [mine EXCEPT ![p] = row']
    BY <1>3 DEF CommitPolicy
  <2>2. Known(p)'
    BY <1>0, <2>1, GoMovesOne DEF CallbackInv, Known
  <2> QED
    BY <1>0, <2>1, <2>2, RowsOfOne DEF InCallback, Outside
<1>4. CASE PolicyRefused(p) \/ PolicyUnanswered(p)
  <2>1. CASE PolicyRefused(p)
    BY <1>0, <2>1, RowsKept DEF PolicyRefused, Leave, pointer, Outside
  <2>2. CASE PolicyUnanswered(p)
    <3>1. pc[p] \in {"change", "rechange"} /\ Go(p, "leave")
      BY <2>2 DEF PolicyUnanswered, Leave
    <3>2. Known(p)'
      BY <1>0, <3>1, GoMovesOne, OutsideIsKnown DEF CallbackInv, Outside
    <3> QED
      BY <1>0, <3>1, <3>2, RowsOfOne DEF InCallback, Outside
  <2> QED
    BY <1>4, <2>1, <2>2
<1>5. CASE PublishPolicy(p)
  <2>1. /\ pc[p] = "publish" /\ UNCHANGED <<row, mine>>
        /\ \E step \in {"leave", "compensate"} : Go(p, step)
    BY <1>5 DEF PublishPolicy, Leave
  <2>2. PICK step \in {"leave", "compensate"} : Go(p, step)
    BY <2>1
  <2>3. mine[p] = row
    BY <1>0, <2>1 DEF CallbackInv, RowsKnown, Known
  <2>4. Known(p)'
    BY <1>0, <2>1, <2>2, <2>3, GoMovesOne DEF CallbackInv, Known, Outside
  <2> QED
    BY <1>0, <2>1, <2>2, <2>4, RowsOfOne DEF InCallback, Outside
<1>6. CASE ReadForCompensation(p)
  <2>1. /\ pc[p] = "compensate" /\ UNCHANGED row /\ base' = [base EXCEPT ![p] = row]
        /\ \E step \in {"leave", "rechange"} : Go(p, step)
    BY <1>6 DEF ReadForCompensation, Leave
  <2>2. PICK step \in {"leave", "rechange"} : Go(p, step)
    BY <2>1
  <2>3. Known(p)'
    BY <1>0, <2>1, <2>2, GoMovesOne DEF CallbackInv, Known, Outside
  <2> QED
    BY <1>0, <2>1, <2>2, <2>3, RowsOfOne DEF InCallback, Outside
<1>7. CASE PublishCompensation(p)
  <2>1. pc[p] = "republish" /\ Go(p, "leave")
    BY <1>7 DEF PublishCompensation, Leave
  <2>2. Known(p)'
    BY <1>0, <2>1, GoMovesOne DEF CallbackInv, Known, Outside
  <2> QED
    BY <1>0, <2>1, <2>2, RowsOfOne DEF InCallback, Outside
<1> QED
  BY <1>1, <1>2, <1>3, <1>4, <1>5, <1>6, <1>7 DEF ChangePolicy

LEMMA EndKeepsRows ==
  ASSUME CallbackInv, NEW d \in Deployments, End(d)
  PROVE  RowsKnown'
<1>0. d \in Sessions
  BY DEF Sessions
<1>1. CASE Release(d)
  BY <1>0, <1>1, RowsKept DEF Release, ReleaseLock, pointer, memory, Outside
<1>2. CASE CleanupWorker(d) \/ Fail(d) \/ Complete(d)
  BY <1>0, <1>2, RowsKept DEF CleanupWorker, Fail, Complete, Finish, pointer, memory, Outside
<1> QED
  BY <1>1, <1>2 DEF End

LEMMA UnansweredKeepsRows ==
  ASSUME CallbackInv, NEW d \in Deployments, ActivationUnanswered(d)
  PROVE  RowsKnown'
<1>1. d \in Sessions /\ pc[d] = "activate" /\ Go(d, "leave")
  BY DEF Sessions, ActivationUnanswered, At, Leave
<1>2. Known(d)'
  BY <1>1, GoMovesOne DEF CallbackInv, Known, Outside
<1> QED
  BY <1>1, <1>2, RowsOfOne DEF InCallback, Outside

LEMMA FaultKeepsRows ==
  ASSUME NoAborts, CallbackInv, NEW s \in Sessions, Fault(s)
  PROVE  RowsKnown'
<1>1. CASE LeaseRunsOut(s)
  BY <1>1 DEF LeaseRunsOut, CallbackInv, RowsKnown, Known, pointer, memory
<1>2. CASE Crash(s)
  BY <1>2, RowsKept DEF Crash, pointer, memory, Outside
<1> QED
  BY <1>1, <1>2 DEF Fault, Timeout, RenewalFails, NoAborts

LEMMA CallbackNext ==
  ASSUME Routes = AllRoutes, NoAborts, CallbackInv, [Next]_vars
  PROVE  CallbackInv'
<1>1. RowsKnown'
  <2>1. CASE UNCHANGED vars
    BY <2>1 DEF vars, pointer, memory, CallbackInv, RowsKnown, Known
  <2>2. CASE Next
    BY <2>2, ActivateKeepsRows, CompensateKeepsRows, EndKeepsRows, UnansweredKeepsRows,
       PolicyKeepsRows, FaultKeepsRows
    DEF Next, Deploy
  <2> QED
    BY <2>1, <2>2
<1>2. TypeInv'
  BY TypeNext DEF CallbackInv
<1> QED
  BY <1>1, <1>2, HeldNext DEF CallbackInv

-----------------------------------------------------------------------------
(* Where versions come from and go to.                                     *)

\* May a deployment still compensate, and bring back the version of its base?
MayUse(d) ==
  pc[d] \in {"health", "activate", "publish", "write", "published", "restore", "overwrite"}

\* A version that is neither active nor published, and that no compensation
\* under way goes back to.
Unused(v) ==
  /\ row.ver # v
  /\ published # None => published.ver # v
  /\ \A d \in Deployments : MayUse(d) => base[d].ver # v

\* One step of a session: no abort, and no activation without an answer.
Moves(s) ==
  \/ s \in Deployments /\ (Deploy(s) \/ RestoreFails(s))
  \/ s \in PolicyChanges /\ ChangePolicy(s)
  \/ LeaseRunsOut(s) \/ Crash(s)

LEMMA StepIsOrderly ==
  ASSUME NoAborts, [Next]_vars
  PROVE  \/ UNCHANGED vars
         \/ \E s \in Sessions : Moves(s)
         \/ \E d \in Deployments : ActivationUnanswered(d)
<1>1. \A s \in Sessions : ~Timeout(s) /\ ~RenewalFails(s)
  BY DEF NoAborts, Timeout, RenewalFails
<1> QED
  BY <1>1 DEF Next, Moves, Fault, Sessions

LEMMA SomeoneMoves ==
  ASSUME AllAnswered, [Next]_vars
  PROVE  UNCHANGED vars \/ \E s \in Sessions : Moves(s)
<1>1. \A d \in Deployments : ~ActivationUnanswered(d)
  BY DEF AllAnswered, ActivationUnanswered
<1> QED
  BY <1>1, MildIsOrderly, StepIsOrderly

\* A version becomes active by its own activation, or a compensation goes
\* back to it; what is published is the row; what is remembered was the row.
Flow ==
  /\ row' # row =>
       \/ row'.ver = row.ver
       \/ \E d \in Deployments : CommitActivation(d) \/ OverwriteRow(d)
  /\ published' \in {published, None, row}
  /\ \A d \in Deployments : MayUse(d)' => base'[d] = row \/ (MayUse(d) /\ base'[d] = base[d])

\* A step of a deployment that changes none of the three.
LEMMA QuietFlow ==
  ASSUME CallbackInv, UNCHANGED <<row, published, base>>, NEW s \in Sessions, NEW step, Go(s, step),
         step \in {"health", "activate", "publish", "write", "published", "restore", "overwrite"}
           => MayUse(s) \/ s \notin Deployments
  PROVE  Flow
BY GoMovesOne, DeploymentAssumption DEF CallbackInv, Flow, MayUse, Sessions

LEMMA DeployFlow ==
  ASSUME Routes = AllRoutes, CallbackInv, NEW d \in Deployments, Deploy(d) \/ RestoreFails(d)
  PROVE  Flow
<1> USE DEF At
<1>0. /\ d \in Sessions /\ ~aborted[d] /\ TypeInv
      /\ mine[d] \in Routes \cup {None} /\ seen[d] \in Routes \cup {None}
      /\ base \in [Sessions -> Routes \cup {None}]
  BY DEF Sessions, CallbackInv, Calm, TypeInv, TypeOK
<1>1. CASE \/ Upload(d) \/ CreateVersion(d) \/ Acquire(d) \/ CheckBeforeBatch(d)
           \/ ActivationRefused(d) \/ CheckBeforePublish(d) \/ CheckAfterPublish(d)
  BY <1>0, <1>1, QuietFlow
  DEF Upload, CreateVersion, Acquire, AcquireLock, LockRefused, CheckBeforeBatch, CheckHealth,
      ActivationRefused, CheckBeforePublish, CheckAfterPublish, Leave, pointer, memory, MayUse
<1>2. CASE PrepareActivation(d)
  <2>1. UNCHANGED <<row, published>> /\ base' = [base EXCEPT ![d] = row]
    BY <1>2 DEF PrepareActivation, pointer
  <2>2. \A e \in Deployments : e # d => pc'[e] = pc[e] /\ base'[e] = base[e]
    BY <1>0, <1>2, <2>1, GoMovesOne DEF PrepareActivation, Leave, Sessions
  <2> QED
    <3>1. base'[d] = row
      BY <1>0, <2>1
    <3>2. ASSUME NEW e \in Deployments, MayUse(e)'
          PROVE  base'[e] = row \/ (MayUse(e) /\ base'[e] = base[e])
      BY <2>2, <3>1, <3>2 DEF MayUse
    <3> QED
      BY <2>1, <3>2 DEF Flow
<1>3. CASE CommitActivation(d)
  <2>1. UNCHANGED <<published, base>> /\ pc[d] = "activate" /\ Go(d, "publish")
    BY <1>3 DEF CommitActivation, pointer
  <2> QED
    BY <1>0, <1>3, <2>1, GoMovesOne DEF Flow, MayUse, Sessions
<1>4. CASE OverwriteRow(d)
  <2>1. UNCHANGED <<published, base>> /\ pc[d] = "overwrite" /\ Go(d, "reread")
    BY <1>4 DEF OverwriteRow, pointer, memory
  <2> QED
    BY <1>0, <1>4, <2>1, GoMovesOne DEF Flow, MayUse, Sessions
<1>5. CASE Publish(d)
  <2>1. /\ pc[d] = "write" /\ UNCHANGED <<row, base>>
        /\ \E step \in {"published", "restore"} : Go(d, step)
    BY <1>5 DEF Publish, memory
  <2>2. mine[d] = row
    BY <1>0, <2>1 DEF CallbackInv, RowsKnown, Known
  <2>3. published' \in {published, row}
    BY <1>0, <1>5, <2>2, PointerCalls DEF Publish, TypeInv, TypeOK
  <2> QED
    BY <1>0, <2>1, <2>3, GoMovesOne DEF Flow, MayUse, Sessions
<1>6. CASE PublishRestored(d)
  <2>1. /\ pc[d] = "rewrite" /\ UNCHANGED <<row, base>>
        /\ \E step \in {"compare", "clear"} : Go(d, step)
    BY <1>6 DEF PublishRestored, memory
  <2>2. seen[d] = row
    BY <1>0, <2>1 DEF CallbackInv, RowsKnown, Known
  <2>3. published' \in {published, row}
    BY <1>0, <1>6, <2>2, PointerCalls DEF PublishRestored, TypeInv, TypeOK
  <2> QED
    BY <1>0, <2>1, <2>3, GoMovesOne DEF Flow, MayUse, Sessions
<1>7. CASE ClearAndReport(d)
  <2>1. UNCHANGED <<row, base>> /\ Go(d, "record")
    BY <1>7 DEF ClearAndReport, memory
  <2>2. published' \in {published, None}
    BY <1>7 DEF ClearAndReport, ClearDone, ClearFailed
  <2> QED
    BY <1>0, <2>1, <2>2, GoMovesOne DEF Flow, MayUse, Sessions
<1>8. CASE \/ ReadForRestore(d) \/ Reread(d) \/ CompareWorker(d) \/ DeleteIfInactive(d)
           \/ RecordFailure(d) \/ RestoreFails(d)
  BY <1>0, <1>8, QuietFlow
  DEF ReadForRestore, Reread, CompareWorker, DeleteIfInactive, RecordFailure, RestoreFails, Leave,
      pointer, memory, MayUse
<1>9. CASE End(d)
  BY <1>0, <1>9, QuietFlow
  DEF End, Release, ReleaseLock, CleanupWorker, Fail, Complete, Finish, pointer, memory
<1> QED
  BY <1>1, <1>2, <1>3, <1>4, <1>5, <1>6, <1>7, <1>8, <1>9 DEF Deploy, Activate, Compensate

LEMMA PolicyFlow ==
  ASSUME Routes = AllRoutes, CallbackInv, NEW p \in PolicyChanges, ChangePolicy(p)
  PROVE  Flow
<1> USE DEF At
<1>0. /\ p \in Sessions /\ p \notin Deployments /\ row \in Routes /\ TypeInv
      /\ base \in [Sessions -> Routes \cup {None}]
  BY DeploymentAssumption DEF Sessions, CallbackInv, TypeInv, TypeOK
<1>1. \E step : Go(p, step)
  BY DEF ChangePolicy, AcquireLock, LockRefused, ReadPolicy, CommitPolicy, PolicyUnanswered,
         PolicyRefused, PublishPolicy, ReadForCompensation, PublishCompensation, ReleaseLock, Leave
<1>2. \A d \in Deployments : pc'[d] = pc[d] /\ base'[d] = base[d]
  <2>1. base' \in {base, [base EXCEPT ![p] = row]}
    BY DEF ChangePolicy, AcquireLock, LockRefused, ReadPolicy, CommitPolicy, PolicyUnanswered,
           PolicyRefused, PublishPolicy, ReadForCompensation, PublishCompensation, ReleaseLock,
           Leave, memory
  <2> QED
    BY <1>0, <1>1, <2>1, GoMovesOne DEF Sessions
<1>3. row'.ver = row.ver
  <2>1. row' \in {row, [row EXCEPT !.pol = @ + 1]}
    BY DEF ChangePolicy, AcquireLock, LockRefused, ReadPolicy, CommitPolicy, PolicyUnanswered,
           PolicyRefused, PublishPolicy, ReadForCompensation, PublishCompensation, ReleaseLock
  <2> QED
    BY <1>0, <2>1 DEF AllRoutes
<1>4. published' \in {published, row}
  <2>1. CASE PublishPolicy(p) \/ PublishCompensation(p)
    <3>1. pc[p] \in {"publish", "republish"}
      BY <2>1 DEF PublishPolicy, PublishCompensation
    <3>2. mine[p] = row
      BY <1>0, <3>1 DEF CallbackInv, RowsKnown, Known
    <3> QED
      BY <1>0, <2>1, <3>2, PointerCalls DEF PublishPolicy, PublishCompensation, TypeInv, TypeOK
  <2>2. CASE ~(PublishPolicy(p) \/ PublishCompensation(p))
    BY <2>2
    DEF ChangePolicy, AcquireLock, LockRefused, ReadPolicy, CommitPolicy, PolicyUnanswered,
        PolicyRefused, ReadForCompensation, ReleaseLock, pointer, Leave
  <2> QED
    BY <2>1, <2>2
<1> QED
  BY <1>2, <1>3, <1>4 DEF Flow, MayUse

LEMMA StepsFlow ==
  ASSUME Routes = AllRoutes, CallbackInv, NEW s \in Sessions, Moves(s)
  PROVE  Flow
<1>1. CASE LeaseRunsOut(s)
  BY <1>1 DEF LeaseRunsOut, Flow, MayUse, pointer, memory
<1>2. CASE Crash(s)
  BY <1>2, QuietFlow DEF Crash, pointer, memory
<1> QED
  BY <1>1, <1>2, DeployFlow, PolicyFlow DEF Moves

\* A version that is out of use comes into use by its own activation only.
LEMMA UnusedStays ==
  ASSUME CallbackInv, Flow, NEW v \in Versions, Unused(v),
         ~(v \in Deployments /\ CommitActivation(v))
  PROVE  Unused(v)'
<1>1. row'.ver # v
  <2>1. ASSUME NEW d \in Deployments, CommitActivation(d) PROVE row'.ver = d
    BY <2>1 DEF CommitActivation, ActivatedRow
  <2>2. ASSUME NEW d \in Deployments, OverwriteRow(d) PROVE row'.ver = base[d].ver /\ MayUse(d)
    BY <2>2 DEF OverwriteRow, RestoredRow, MayUse, At
  <2> QED
    BY <2>1, <2>2 DEF Flow, Unused
<1>2. published' # None => published'.ver # v
  BY DEF Flow, Unused
<1>3. \A d \in Deployments : MayUse(d)' => base'[d].ver # v
  BY DEF Flow, Unused
<1> QED
  BY <1>1, <1>2, <1>3 DEF Unused

-----------------------------------------------------------------------------
(* Versions in use keep their Workers.                                     *)

\* Has d's version never been active, or been taken back?
NotIn(d) ==
  \/ pc[d] \in {"upload", "version", "acquire", "prepare", "health", "activate", "compare",
                "delete", "failing", "fail"}
  \/ pc[d] = "leave" /\ outcome[d] \notin {"route", "handled"}

\* Is d's failure dealt with again, since it was reported and not recorded?
Unrecorded(d) == "status" \in Faults /\ d \in repair /\ pc[d] \in {"leave", "failing", "fail"}

VersionOk(d) ==
  /\ NotIn(d) => Unused(d) \/ Unrecorded(d)
  /\ MayUse(d) => base[d].ver # d
  /\ pc[d] \in {"reread", "rewrite"} => row.ver # d
  /\ pc[d] = "record" \/ status[d] = "failed" => d \in repair \/ Unused(d)
  /\ status[d] # "running" =>
       pc[d] \in {"done", "crashed"} \/ (pc[d] = "leave" /\ outcome[d] = "handled")
  /\ pc[d] \in {"version", "acquire", "prepare", "health", "activate"} => d \in workers

VersionsInv ==
  /\ \A d \in Deployments : VersionOk(d)
  /\ "status" \notin Faults => \A v \in Versions : v \in workers \/ Unused(v)

LEMMA VersionsInit == Init => VersionsInv
<1> SUFFICES ASSUME Init PROVE VersionsInv
  OBVIOUS
<1>1. \A v \in Deployments : Unused(v)
  BY DeploymentAssumption DEF Init, Unused, FirstRow, MayUse, Sessions
<1> QED
  BY <1>1 DEF Init, VersionsInv, VersionOk, NotIn, Unrecorded, MayUse, Versions, Sessions

\* What a step leaves as it was for the sessions that do not make it.
LEMMA OthersStay ==
  ASSUME CallbackInv, NEW s \in Sessions, Moves(s), NEW d \in Deployments, d # s
  PROVE  /\ pc'[d] = pc[d] /\ outcome'[d] = outcome[d] /\ base'[d] = base[d]
         /\ status'[d] = status[d]
         /\ d \in workers => d \in workers'
         /\ d \in repair => d \in repair'
         /\ ~CommitActivation(d)
         /\ row' # row => InCallback(s)
<1> USE DEF At
<1>0. /\ d \in Sessions /\ DOMAIN base = Sessions /\ DOMAIN outcome = Sessions
      /\ DOMAIN status = Deployments
  BY DEF Sessions, CallbackInv, TypeInv, TypeOK
<1>1. CASE LeaseRunsOut(s) \/ Crash(s)
  BY <1>0, <1>1, GoMovesOne
  DEF LeaseRunsOut, Crash, CommitActivation, CallbackInv, pointer, memory
<1>2. CASE s \in Deployments /\ (Deploy(s) \/ RestoreFails(s))
  <2>1. /\ \E step : Go(s, step)
        /\ \A t \in Sessions : t # s => outcome'[t] = outcome[t] /\ base'[t] = base[t]
        /\ \A t \in Deployments : t # s => status'[t] = status[t]
        /\ d \in workers => d \in workers'
        /\ repair \subseteq repair'
        /\ row' # row => pc[s] \in {"activate", "overwrite"}
    <3>1. CASE Activate(s)
      BY <1>0, <3>1
      DEF Activate, Upload, CreateVersion, Acquire, AcquireLock, LockRefused, PrepareActivation,
          CheckBeforeBatch, CheckHealth, CommitActivation, ActivationRefused, CheckBeforePublish,
          Publish, CheckAfterPublish, Leave, memory
    <3>2. CASE Compensate(s) \/ RestoreFails(s)
      BY <1>0, <3>2
      DEF Compensate, ReadForRestore, OverwriteRow, Reread, PublishRestored, ClearAndReport,
          CompareWorker, DeleteIfInactive, RecordFailure, RestoreFails, Leave, memory
    <3>3. CASE End(s)
      BY <1>0, <3>3
      DEF End, Release, ReleaseLock, CleanupWorker, Fail, Complete, Finish, memory
    <3> QED
      BY <1>2, <3>1, <3>2, <3>3 DEF Deploy
  <2> QED
    BY <1>0, <2>1, GoMovesOne DEF CommitActivation, InCallback, Outside, CallbackInv, SessionSteps
<1>3. CASE s \in PolicyChanges /\ ChangePolicy(s)
  <2>1. /\ \E step : Go(s, step)
        /\ \A t \in Sessions : t # s => outcome'[t] = outcome[t] /\ base'[t] = base[t]
        /\ UNCHANGED <<status, workers>>
        /\ repair \subseteq repair'
        /\ row' # row => pc[s] \in {"change", "rechange"}
    BY <1>0, <1>3
    DEF ChangePolicy, AcquireLock, LockRefused, ReadPolicy, CommitPolicy, PolicyUnanswered,
        PolicyRefused, PublishPolicy, ReadForCompensation, PublishCompensation, ReleaseLock,
        Leave, memory
  <2> QED
    BY <1>0, <2>1, GoMovesOne DEF CommitActivation, InCallback, Outside, CallbackInv, SessionSteps
<1> QED
  BY <1>1, <1>2, <1>3 DEF Moves

LEMMA OthersKeepVersions ==
  ASSUME Routes = AllRoutes, CallbackInv, NEW s \in Sessions, Moves(s),
         NEW d \in Deployments, d # s, VersionOk(d)
  PROVE  VersionOk(d)'
<1>1. Unused(d) => Unused(d)'
  BY StepsFlow, OthersStay, UnusedStays DEF Versions
<1>2. pc[d] \in {"reread", "rewrite"} => row' = row
  BY OthersStay, OneCallback DEF InCallback, Outside, Sessions
<1> QED
  BY <1>1, <1>2, OthersStay DEF VersionOk, NotIn, Unrecorded, MayUse

\* A step of the deployment itself.
LEMMA OwnVersionOk ==
  ASSUME Routes = AllRoutes, AllAnswered, CallbackInv, NEW d \in Deployments, Moves(d), VersionOk(d)
  PROVE  VersionOk(d)'
<1> USE DEF At
<1>0. /\ d \in Sessions /\ d \in Versions /\ d \notin PolicyChanges /\ TypeInv /\ Known(d)
      /\ DOMAIN base = Sessions /\ DOMAIN outcome = Sessions /\ DOMAIN status = Deployments
      /\ ~aborted[d] /\ ~lost[d]
  BY DeploymentAssumption
  DEF Sessions, Versions, CallbackInv, RowsKnown, Calm, TypeInv, TypeOK
<1>1. CASE CommitActivation(d)
  <2>1. /\ pc[d] = "activate" /\ Go(d, "publish")
        /\ UNCHANGED <<status, base>>
    BY <1>1 DEF CommitActivation
  <2> QED
    BY <1>0, <2>1, GoMovesOne DEF VersionOk, NotIn, Unrecorded, MayUse
<1>2. ASSUME ~CommitActivation(d) PROVE Unused(d) => Unused(d)'
  BY <1>0, <1>2, StepsFlow, UnusedStays
<1>3. CASE Upload(d) \/ CreateVersion(d) \/ Acquire(d)
  BY <1>0, <1>2, <1>3, GoMovesOne
  DEF CommitActivation, Upload, CreateVersion, Acquire, AcquireLock, LockRefused, VersionOk, NotIn,
      Unrecorded, MayUse, memory
<1>4. CASE PrepareActivation(d)
  <2>1. /\ pc[d] = "prepare" /\ base' = [base EXCEPT ![d] = row] /\ UNCHANGED <<status, workers>>
        /\ \/ Go(d, "health")
           \/ Go(d, "leave") /\ outcome' = [outcome EXCEPT ![d] = "error"]
    BY <1>4 DEF PrepareActivation, Leave
  <2>2. base'[d] = row /\ row.ver # d /\ Unused(d)'
    BY <1>0, <1>2, <2>1 DEF VersionOk, NotIn, Unrecorded, Unused, CommitActivation
  <2>3. CASE Go(d, "health")
    BY <1>0, <2>1, <2>2, <2>3, GoMovesOne DEF VersionOk, NotIn, Unrecorded, MayUse
  <2>4. CASE Go(d, "leave") /\ outcome' = [outcome EXCEPT ![d] = "error"]
    BY <1>0, <2>1, <2>2, <2>4, GoMovesOne DEF VersionOk, NotIn, Unrecorded, MayUse
  <2> QED
    BY <2>1, <2>3, <2>4
<1>5. CASE CheckBeforeBatch(d)
  BY <1>0, <1>2, <1>5, GoMovesOne
  DEF CommitActivation, CheckBeforeBatch, CheckHealth, VersionOk, NotIn, Unrecorded, MayUse
<1>6. CASE ActivationRefused(d) /\ ~CommitActivation(d)
  <2>1. /\ pc[d] = "activate" /\ Go(d, "leave") /\ UNCHANGED status
        /\ outcome'[d] \in {"null", "error"}
    BY <1>0, <1>6 DEF ActivationRefused, Leave
  <2> QED
    BY <1>0, <1>2, <1>6, <2>1, GoMovesOne DEF VersionOk, NotIn, Unrecorded, MayUse
<1>7. CASE CheckBeforePublish(d) \/ Publish(d) \/ CheckAfterPublish(d)
  <2>1. /\ pc[d] \in {"publish", "write", "published"} /\ UNCHANGED <<status, base>>
        /\ \/ \E step \in {"write", "published", "restore"} : Go(d, step)
           \/ Go(d, "leave") /\ outcome'[d] = "route"
    BY <1>0, <1>7
    DEF CheckBeforePublish, Publish, CheckAfterPublish, CheckHealth, Leave, memory
  <2> QED
    BY <1>0, <2>1, GoMovesOne DEF VersionOk, NotIn, Unrecorded, MayUse
<1>8. CASE ReadForRestore(d)
  <2>1. /\ pc[d] = "restore" /\ UNCHANGED <<status, base, row>>
        /\ Go(d, "overwrite")
    BY <1>0, <1>8 DEF ReadForRestore, IsStillMine, Known
  <2> QED
    BY <1>0, <2>1, GoMovesOne DEF VersionOk, NotIn, Unrecorded, MayUse
<1>9. CASE OverwriteRow(d)
  <2>1. /\ pc[d] = "overwrite" /\ UNCHANGED <<status, base>> /\ Go(d, "reread")
        /\ row'.ver = base[d].ver
    BY <1>9 DEF OverwriteRow, RestoredRow, memory
  <2> QED
    BY <1>0, <2>1, GoMovesOne DEF VersionOk, NotIn, Unrecorded, MayUse
<1>10. CASE Reread(d) \/ RestoreFails(d)
  <2>1. /\ pc[d] \in {"restore", "overwrite", "reread"} /\ UNCHANGED <<status, row>>
        /\ Go(d, "clear") \/ (pc[d] = "reread" /\ Go(d, "rewrite"))
    BY <1>10 DEF Reread, RestoreFails
  <2> QED
    BY <1>0, <2>1, GoMovesOne DEF VersionOk, NotIn, Unrecorded, MayUse
<1>11. CASE PublishRestored(d)
  <2>1. /\ pc[d] = "rewrite" /\ UNCHANGED <<status, row, base>>
        /\ \/ WriteDone(seen[d]) /\ Go(d, "compare")
           \/ Go(d, "clear")
    BY <1>11 DEF PublishRestored, memory
  <2>2. CASE WriteDone(seen[d]) /\ Go(d, "compare")
    <3>1. published' = row /\ row' = row /\ row.ver # d
      BY <1>0, <2>1, <2>2 DEF WriteDone, Known, VersionOk
    <3>2. ASSUME NEW e \in Deployments PROVE ~MayUse(e)'
      <4>1. CASE e = d
        BY <1>0, <2>2, <4>1, GoMovesOne DEF MayUse
      <4>2. CASE e # d
        <5>1. ~InCallback(e)
          BY <1>0, <2>1, <4>2, OneCallback DEF InCallback, Outside, Sessions
        <5> QED
          BY <1>0, <2>2, <4>2, <5>1, GoMovesOne DEF MayUse, InCallback, Outside, Sessions
      <4> QED
        BY <4>1, <4>2
    <3>3. Unused(d)'
      BY <3>1, <3>2 DEF Unused
    <3> QED
      BY <1>0, <2>1, <2>2, <3>3, GoMovesOne DEF VersionOk, NotIn, Unrecorded, MayUse
  <2>3. CASE Go(d, "clear")
    BY <1>0, <2>1, <2>3, GoMovesOne DEF VersionOk, NotIn, Unrecorded, MayUse
  <2> QED
    BY <2>1, <2>2, <2>3
<1>12. CASE ClearAndReport(d)
  <2>1. /\ pc[d] = "clear" /\ Go(d, "record") /\ UNCHANGED <<status, base>>
        /\ repair' = repair \cup {d}
    BY <1>12 DEF ClearAndReport, memory
  <2> QED
    BY <1>0, <2>1, GoMovesOne DEF VersionOk, NotIn, Unrecorded, MayUse
<1>13. CASE CompareWorker(d) \/ DeleteIfInactive(d)
  <2>1. /\ pc[d] \in {"compare", "delete"} /\ UNCHANGED status
        /\ \E step \in {"delete", "record"} : Go(d, step)
    BY <1>13 DEF CompareWorker, DeleteIfInactive
  <2>2. Unused(d)'
    BY <1>2, <2>1 DEF VersionOk, NotIn, Unrecorded, CommitActivation
  <2> QED
    BY <1>0, <2>1, <2>2, GoMovesOne DEF VersionOk, NotIn, Unrecorded, MayUse
<1>14. CASE RecordFailure(d)
  <2>1. /\ pc[d] = "record" /\ Go(d, "leave") /\ UNCHANGED repair
        /\ \/ outcome'[d] = "handled"
           \/ "status" \in Faults /\ UNCHANGED status
    BY <1>0, <1>14 DEF RecordFailure, Leave
  <2> QED
    BY <1>0, <1>2, <2>1, GoMovesOne DEF VersionOk, NotIn, Unrecorded, MayUse, CommitActivation
<1>15. CASE Release(d)
  <2>1. /\ pc[d] = "leave" /\ UNCHANGED <<status, repair>>
        /\ \/ outcome[d] = "route" /\ Go(d, "complete")
           \/ outcome[d] = "handled" /\ Go(d, "done")
           \/ outcome[d] \notin {"route", "handled"} /\ Go(d, "failing")
    BY <1>0, <1>15 DEF Release, ReleaseLock
  <2> QED
    BY <1>0, <1>2, <2>1, GoMovesOne DEF VersionOk, NotIn, Unrecorded, MayUse, CommitActivation
<1>16. CASE CleanupWorker(d)
  <2>1. pc[d] = "failing" /\ Go(d, "fail") /\ UNCHANGED <<status, repair>>
    BY <1>16 DEF CleanupWorker
  <2> QED
    BY <1>0, <1>2, <2>1, GoMovesOne DEF VersionOk, NotIn, Unrecorded, MayUse, CommitActivation
<1>17. CASE Fail(d)
  <2>1. pc[d] = "fail" /\ Go(d, "done") /\ UNCHANGED repair
    BY <1>17 DEF Fail, Finish
  <2> QED
    BY <1>0, <1>2, <2>1, GoMovesOne DEF VersionOk, NotIn, Unrecorded, MayUse, CommitActivation
<1>18. CASE Complete(d)
  <2>1. pc[d] = "complete" /\ Go(d, "done") /\ status'[d] \in {"succeeded", status[d]}
    BY <1>0, <1>18 DEF Complete, Finish
  <2> QED
    BY <1>0, <2>1, GoMovesOne DEF VersionOk, NotIn, Unrecorded, MayUse
<1>19. CASE LeaseRunsOut(d)
  BY <1>2, <1>19
  DEF LeaseRunsOut, VersionOk, NotIn, Unrecorded, MayUse, memory, pointer, CommitActivation, Unused
<1>20. CASE Crash(d)
  <2>1. Go(d, "crashed") /\ UNCHANGED <<status, repair>> /\ ~CommitActivation(d)
    BY <1>0, <1>20, GoMovesOne DEF Crash, CommitActivation
  <2> QED
    BY <1>0, <1>2, <2>1, GoMovesOne DEF VersionOk, NotIn, Unrecorded, MayUse
<1> QED
  BY <1>0, <1>1, <1>3, <1>4, <1>5, <1>6, <1>7, <1>8, <1>9, <1>10, <1>11, <1>12, <1>13, <1>14, <1>15,
     <1>16, <1>17, <1>18, <1>19, <1>20
  DEF Moves, Deploy, Activate, Compensate, End

LEMMA VersionsNext ==
  ASSUME Routes = AllRoutes, AllAnswered, CallbackInv, VersionsInv, [Next]_vars
  PROVE  VersionsInv'
<1>1. CASE UNCHANGED vars
  BY <1>1
  DEF vars, pointer, memory, VersionsInv, VersionOk, NotIn, Unrecorded, Unused, MayUse
<1>2. ASSUME NEW s \in Sessions, Moves(s) PROVE VersionsInv'
  <2>1. ASSUME NEW d \in Deployments PROVE VersionOk(d)'
    BY <1>2, OwnVersionOk, OthersKeepVersions DEF VersionsInv
  <2>2. ASSUME NEW v \in Versions, v \in workers, v \notin workers'
        PROVE  v \in Deployments /\ pc[v] \in {"delete", "failing"}
    <3>1. \/ s \in Deployments /\ (DeleteIfInactive(s) \/ CleanupWorker(s))
          \/ workers \subseteq workers'
      BY <1>2
      DEF Moves, Deploy, Activate, Upload, CreateVersion, Acquire, AcquireLock, LockRefused,
          PrepareActivation, CheckBeforeBatch, CommitActivation, ActivationRefused,
          CheckBeforePublish, Publish, CheckAfterPublish, Compensate, ReadForRestore, OverwriteRow,
          Reread, PublishRestored, ClearAndReport, CompareWorker, RecordFailure, RestoreFails, End,
          Release, ReleaseLock, Fail, Complete, Finish, ChangePolicy, ReadPolicy, CommitPolicy,
          PolicyUnanswered, PolicyRefused, PublishPolicy, ReadForCompensation,
          PublishCompensation, LeaseRunsOut, Crash
    <3> QED
      BY <2>2, <3>1 DEF DeleteIfInactive, CleanupWorker, At
  <2>3. ASSUME "status" \notin Faults, NEW v \in Versions PROVE v \in workers' \/ Unused(v)'
    <3>1. CASE v \in Deployments /\ CommitActivation(v)
      BY <3>1 DEF CommitActivation, At, VersionsInv, VersionOk
    <3>2. CASE Unused(v) /\ ~(v \in Deployments /\ CommitActivation(v))
      BY <1>2, <3>2, StepsFlow, UnusedStays
    <3>3. CASE v \in workers /\ ~Unused(v)
      BY <2>2, <2>3, <3>3 DEF VersionsInv, VersionOk, NotIn, Unrecorded
    <3> QED
      BY <2>3, <3>1, <3>2, <3>3 DEF VersionsInv
  <2> QED
    BY <2>1, <2>3 DEF VersionsInv
<1> QED
  BY <1>1, <1>2, SomeoneMoves

\* While no more fails than MildFaults, the Worker of the version that D1 says
\* is active is never deleted: compensation compares the row, and the cleanup
\* of a failed deployment deletes a version that was never active
\* (recover-route-snapshot.js, recover-activation-failure.js).
THEOREM ActiveWorkerIsKept ==
  ASSUME Routes = AllRoutes, MildFaults
  PROVE  Spec => []ActiveWorkerExists
<1>1. CallbackInv /\ VersionsInv => ActiveWorkerExists
  BY DEF MildFaults, CallbackInv, TypeInv, TypeOK, AllRoutes, VersionsInv, Unused,
         ActiveWorkerExists
<1> QED
  BY <1>1, MildIsOrderly, CallbackInit, CallbackNext, VersionsInit, VersionsNext, PTL DEF Spec

\* Nor is the Worker of the version that routers dispatch to.
THEOREM PublishedWorkerIsKept ==
  ASSUME Routes = AllRoutes, MildFaults
  PROVE  Spec => []PublishedWorkerExists
<1>1. CallbackInv /\ VersionsInv => PublishedWorkerExists
  BY DEF MildFaults, CallbackInv, TypeInv, TypeOK, AllRoutes, VersionsInv, Unused,
         PublishedWorkerExists
<1> QED
  BY <1>1, MildIsOrderly, CallbackInit, CallbackNext, VersionsInit, VersionsNext, PTL DEF Spec

\* A deployment that is recorded as failed and is active nevertheless has
\* reported that a repair is required (recover-route-snapshot.js).
THEOREM FailuresAreReported ==
  ASSUME Routes = AllRoutes, AllAnswered
  PROVE  Spec => []FailedActiveIsReported
<1>1. VersionsInv => FailedActiveIsReported
  BY DEF VersionsInv, VersionOk, Unused, FailedActiveIsReported
<1> QED
  BY <1>1, MildIsOrderly, CallbackInit, CallbackNext, VersionsInit, VersionsNext, PTL DEF Spec

-----------------------------------------------------------------------------
(* The site's Workers.                                                     *)

Expected == {d \in Deployments : At(d, "upload")}

\* Apart from its upload, its deletions and its end, a session leaves the
\* Workers alone, and changes the row or the pointer, but not both.
LEMMA WorkersRest ==
  ASSUME NEW s \in Sessions, Moves(s), ~Crash(s),
         s \in Deployments => ~Upload(s) /\ ~DeleteIfInactive(s) /\ ~CleanupWorker(s)
  PROVE  /\ UNCHANGED workers
         /\ UNCHANGED row \/ UNCHANGED published
         /\ UNCHANGED pc \/ (pc[s] # "upload" /\ \E step : step # "upload" /\ Go(s, step))
<1> USE DEF At, Leave, CheckHealth, pointer, memory, signals
<1>1. CASE LeaseRunsOut(s)
  BY <1>1 DEF LeaseRunsOut
<1>2. CASE AcquireLock(s, "prepare") \/ AcquireLock(s, "read") \/ LockRefused(s, "failing")
           \/ LockRefused(s, "done") \/ ReleaseLock(s, "done")
  BY <1>2 DEF AcquireLock, LockRefused, ReleaseLock
<1>3. CASE Release(s)
  BY <1>3 DEF Release, ReleaseLock
<1>4. CASE CreateVersion(s) \/ PrepareActivation(s) \/ CheckBeforeBatch(s) \/ CommitActivation(s)
           \/ ActivationRefused(s) \/ CheckBeforePublish(s) \/ CheckAfterPublish(s)
  BY <1>4 DEF CreateVersion, PrepareActivation, CheckBeforeBatch, CommitActivation,
              ActivationRefused, CheckBeforePublish, CheckAfterPublish
<1>5. CASE Publish(s) \/ ReadForRestore(s) \/ OverwriteRow(s) \/ Reread(s) \/ PublishRestored(s)
           \/ ClearAndReport(s) \/ CompareWorker(s) \/ RecordFailure(s) \/ RestoreFails(s)
  BY <1>5 DEF Publish, ReadForRestore, OverwriteRow, Reread, PublishRestored, ClearAndReport,
              CompareWorker, RecordFailure, RestoreFails
<1>6. CASE Fail(s) \/ Complete(s)
  BY <1>6 DEF Fail, Complete, Finish
<1>7. CASE CommitPolicy(s, "change", "publish") \/ CommitPolicy(s, "rechange", "republish")
           \/ PolicyUnanswered(s)
  BY <1>7 DEF CommitPolicy, PolicyUnanswered
<1>8. CASE ReadPolicy(s) \/ PolicyRefused(s) \/ PublishPolicy(s) \/ ReadForCompensation(s)
           \/ PublishCompensation(s)
  BY <1>8 DEF ReadPolicy, PolicyRefused, PublishPolicy, ReadForCompensation, PublishCompensation
<1> QED
  BY <1>1, <1>2, <1>3, <1>4, <1>5, <1>6, <1>7, <1>8
  DEF Moves, Deploy, Activate, Acquire, Compensate, End, ChangePolicy

\* Each step is one of the site, or none.
LEMMA StepsOfTheSite ==
  ASSUME Routes = AllRoutes, MildFaults, CallbackInv, VersionsInv, TypeInv', VersionsInv',
         NEW s \in Sessions, Moves(s)
  PROVE  [Site!SiteNext]_(Site!siteVars)
<1>0. /\ TypeInv /\ row \in AllRoutes /\ row' \in AllRoutes
      /\ s \in Deployments => s \in Versions
  BY DEF CallbackInv, TypeInv, TypeOK, Versions
<1>1. \A v \in Versions : v \in workers' \/ (row'.ver # v /\ v \notin Shown')
  BY DEF MildFaults, VersionsInv, Unused, Shown
<1>2. ASSUME NEW step, step # "upload", Go(s, step) PROVE Expected' = Expected \ {s}
  BY <1>0, <1>2, GoMovesOne DEF Expected, At, Sessions
<1>3. CASE s \in Deployments /\ Upload(s)
  <2>1. s \in Expected /\ Expected' = Expected \ {s} /\ workers' = workers \cup {s}
    BY <1>2, <1>3 DEF Upload, At, Expected
  <2>2. UNCHANGED <<row.ver, Shown>>
    BY <1>3 DEF Upload, Shown, pointer
  <2> QED
    BY <1>0, <1>3, <2>1, <2>2 DEF Site!SiteNext, Site!Upload, Expected
<1>4. CASE s \in Deployments /\ (DeleteIfInactive(s) \/ CleanupWorker(s))
  <2>1. pc[s] # "upload" /\ \E step : step # "upload" /\ Go(s, step)
    BY <1>4 DEF DeleteIfInactive, CleanupWorker, At
  <2>2. Expected' = Expected
    BY <1>2, <2>1 DEF Expected, At
  <2>3. UNCHANGED <<row.ver, Shown>> /\ workers' \in {workers, workers \ {s}}
    BY <1>4 DEF DeleteIfInactive, CleanupWorker, Shown, pointer
  <2>4. CASE workers' = workers
    BY <2>2, <2>3, <2>4 DEF Site!siteVars, Expected
  <2>5. CASE workers' # workers
    <3>1. s \in workers /\ workers' = workers \ {s}
      BY <2>3, <2>5
    <3>2. s # row.ver /\ s \notin Shown
      BY <1>0, <1>1, <1>4, <2>3, <3>1
    <3> QED
      BY <1>0, <1>4, <2>2, <2>3, <3>1, <3>2 DEF Site!SiteNext, Site!Delete, Expected
  <2> QED
    BY <2>4, <2>5
<1>5. CASE Crash(s)
  <2>1. Expected' = Expected \ {s} /\ UNCHANGED <<workers, row.ver, Shown>>
    BY <1>2, <1>5 DEF Crash, Shown, pointer
  <2>2. CASE s \in Expected
    BY <1>0, <2>1, <2>2 DEF Site!SiteNext, Site!GiveUp, Expected
  <2>3. CASE s \notin Expected
    BY <2>1, <2>3 DEF Site!siteVars, Expected
  <2> QED
    BY <2>2, <2>3
<1>6. CASE /\ ~Crash(s)
           /\ s \in Deployments => ~Upload(s) /\ ~DeleteIfInactive(s) /\ ~CleanupWorker(s)
  <2>1. /\ UNCHANGED workers
        /\ UNCHANGED row \/ UNCHANGED published
        /\ UNCHANGED pc \/ (pc[s] # "upload" /\ \E step : step # "upload" /\ Go(s, step))
    BY <1>6, WorkersRest
  <2>2. Expected' = Expected
    BY <1>2, <2>1 DEF Expected, At
  <2>3. CASE UNCHANGED row
    <3>1. Shown' \subseteq Shown \cup {row.ver}
      BY StepsFlow DEF Flow, Shown
    <3> QED
      BY <2>1, <2>2, <2>3, <3>1 DEF Site!SiteNext, Site!Show, Expected
  <2>4. CASE UNCHANGED published
    <3>1. row'.ver \in Versions /\ row'.ver \in workers
      BY <1>0, <1>1, <2>1 DEF AllRoutes
    <3>2. UNCHANGED Shown
      BY <2>4 DEF Shown
    <3> QED
      BY <2>1, <2>2, <3>1, <3>2 DEF Site!SiteNext, Site!Activate, Expected
  <2> QED
    BY <2>1, <2>3, <2>4
<1> QED
  BY <1>3, <1>4, <1>5, <1>6

\* Deployments and policy changes implement the site: while no more fails
\* than MildFaults, no compensation goes back to a version whose Worker is
\* gone, routers are shown only what is active at that moment, and no Worker is
\* deleted under D1 or the pointer (deploy-site-handler.js,
\* recover-route-snapshot.js, recover-activation-failure.js).
THEOREM SiteRefinement ==
  ASSUME Routes = AllRoutes, MildFaults
  PROVE  Spec => WorkersArePromised
<1>1. ASSUME Init PROVE Site!SiteInit
  <2>1. row.ver = Initial /\ workers = {Initial}
    BY <1>1 DEF Init, FirstRow
  <2>2. Shown \subseteq {Initial}
    BY <1>1 DEF Init, FirstRow, Shown
  <2>3. Expected \in SUBSET Versions /\ {Initial} \in SUBSET (Versions \ Expected)
    BY DeploymentAssumption DEF Expected, Versions, Sessions
  <2> QED
    BY <2>1, <2>2, <2>3 DEF Site!SiteInit, Expected
<1>2. /\ CallbackInv /\ VersionsInv /\ CallbackInv' /\ VersionsInv' /\ [Next]_vars
      => [Site!SiteNext]_(Site!siteVars)
  <2>1. CASE UNCHANGED vars
    BY <2>1 DEF vars, pointer, Site!siteVars, Shown, At
  <2>2. ASSUME CallbackInv, VersionsInv, CallbackInv', VersionsInv', NEW s \in Sessions, Moves(s)
        PROVE  [Site!SiteNext]_(Site!siteVars)
    BY <2>2, StepsOfTheSite DEF CallbackInv
  <2> QED
    BY <2>1, <2>2, MildIsOrderly, SomeoneMoves
<1> QED
  BY <1>1, <1>2, MildIsOrderly, CallbackInit, CallbackNext, VersionsInit, VersionsNext, PTL
  DEF Spec, WorkersArePromised, Site!SiteSpec

\* What the site promises: whoever keeps to SiteWorkers leads neither D1 nor
\* a router to a Worker that is gone.
THEOREM PromisesKeepWorkers ==
  WorkersArePromised => [](ActiveWorkerExists /\ PublishedWorkerExists)
<1> DEFINE Kept == row.ver \in workers /\ Shown \subseteq workers
<1>1. Site!SiteInit => Kept
  BY DEF Site!SiteInit, Shown
<1>2. Kept /\ [Site!SiteNext]_(Site!siteVars) => Kept'
  <2> SUFFICES ASSUME Kept, [Site!SiteNext]_(Site!siteVars) PROVE Kept'
    OBVIOUS
  <2>1. ASSUME NEW v \in Versions, Site!Upload(v) \/ Site!GiveUp(v) \/ Site!Activate(v)
        PROVE  Kept'
    BY <2>1 DEF Site!Upload, Site!GiveUp, Site!Activate, Shown
  <2>2. ASSUME NEW v \in Versions, Site!Delete(v) PROVE Kept'
    BY <2>2 DEF Site!Delete, Shown
  <2>3. CASE Site!Show
    BY <2>3 DEF Site!Show, Shown
  <2>4. CASE UNCHANGED Site!siteVars
    BY <2>4 DEF Site!siteVars, Shown
  <2> QED
    BY <2>1, <2>2, <2>3, <2>4 DEF Site!SiteNext
<1>3. Kept => ActiveWorkerExists /\ PublishedWorkerExists
  BY DEF ActiveWorkerExists, PublishedWorkerExists, Shown
<1> QED
  BY <1>1, <1>2, <1>3, PTL DEF WorkersArePromised, Site!SiteSpec

-----------------------------------------------------------------------------
(* What routers see follows the row.                                       *)

\* Where a session stands that has changed the row, and has not yet published
\* it or reported that it could not.
Doubt == {"publish", "write", "restore", "overwrite", "reread", "rewrite", "clear", "compensate",
          "rechange", "republish", "crashed"}

\* Where a session stands whose callback is over.
Past == {"leave", "failing", "fail", "complete", "done", "crashed"}

\* The row is that of a commit which failed for its handler.
Unnoticed(s) == pc[s] \in Past /\ outcome[s] = "unanswered" /\ mine[s] = row

Followed ==
  published = row \/ repair # {} \/ \E s \in Sessions : pc[s] \in Doubt \/ Unnoticed(s)

LEMMA DeployFollows ==
  ASSUME CallbackInv, NEW d \in Deployments, Deploy(d) \/ RestoreFails(d),
         pc[d] \in Doubt \/ published = row \/ row' # row
  PROVE  published' = row' \/ repair' # {} \/ pc'[d] \in Doubt
<1> USE DEF At
<1>0. d \in Sessions /\ Known(d) /\ TypeInv
  BY DEF Sessions, CallbackInv, RowsKnown
<1>1. CASE CommitActivation(d) \/ CheckBeforePublish(d)
  <2>1. \E step \in {"publish", "write", "restore"} : Go(d, step)
    BY <1>1 DEF CommitActivation, CheckBeforePublish, CheckHealth
  <2> QED
    BY <1>0, <2>1, GoMovesOne DEF Doubt
<1>2. CASE Publish(d) \/ PublishRestored(d)
  <2>1. /\ pc[d] \in {"write", "rewrite"} /\ UNCHANGED row
        /\ \/ Go(d, "restore") \/ Go(d, "clear")
           \/ pc[d] = "write" /\ published' = mine[d]
           \/ pc[d] = "rewrite" /\ published' = seen[d]
    BY <1>2 DEF Publish, PublishRestored, WriteDone
  <2> QED
    BY <1>0, <2>1, GoMovesOne DEF Doubt, Known
<1>3. CASE ReadForRestore(d) \/ OverwriteRow(d) \/ Reread(d) \/ RestoreFails(d)
  <2>1. \E step \in {"overwrite", "reread", "rewrite", "clear"} : Go(d, step)
    BY <1>3 DEF ReadForRestore, OverwriteRow, Reread, RestoreFails
  <2> QED
    BY <1>0, <2>1, GoMovesOne DEF Doubt
<1>4. CASE ClearAndReport(d)
  BY <1>4 DEF ClearAndReport
<1>5. CASE \/ Upload(d) \/ CreateVersion(d) \/ Acquire(d) \/ PrepareActivation(d)
           \/ CheckBeforeBatch(d) \/ ActivationRefused(d) \/ CheckAfterPublish(d)
  <2>1. UNCHANGED <<row, published>> /\ pc[d] \notin Doubt
    BY <1>5
    DEF Upload, CreateVersion, Acquire, AcquireLock, LockRefused, PrepareActivation,
        CheckBeforeBatch, ActivationRefused, CheckAfterPublish, pointer, Doubt
  <2> QED
    BY <2>1
<1>6. CASE CompareWorker(d) \/ DeleteIfInactive(d) \/ RecordFailure(d) \/ End(d)
  <2>1. UNCHANGED <<row, published>> /\ pc[d] \notin Doubt
    BY <1>6
    DEF CompareWorker, DeleteIfInactive, RecordFailure, End, Release, ReleaseLock, CleanupWorker,
        Fail, Complete, Finish, pointer, Doubt
  <2> QED
    BY <2>1
<1> QED
  BY <1>1, <1>2, <1>3, <1>4, <1>5, <1>6 DEF Deploy, Activate, Compensate

LEMMA PolicyFollows ==
  ASSUME CallbackInv, NEW p \in PolicyChanges, ChangePolicy(p),
         pc[p] \in Doubt \/ published = row \/ row' # row
  PROVE  published' = row' \/ repair' # {} \/ pc'[p] \in Doubt \/ Unnoticed(p)'
<1> USE DEF At
<1>0. p \in Sessions /\ Known(p) /\ TypeInv
  BY DEF Sessions, CallbackInv, RowsKnown
<1>1. CASE CommitPolicy(p, "change", "publish") \/ CommitPolicy(p, "rechange", "republish")
  <2>1. \E step \in {"publish", "republish"} : Go(p, step)
    BY <1>1 DEF CommitPolicy
  <2> QED
    BY <1>0, <2>1, GoMovesOne DEF Doubt
<1>2. CASE PublishPolicy(p) \/ PublishCompensation(p)
  <2>1. /\ pc[p] \in {"publish", "republish"} /\ UNCHANGED row
        /\ Go(p, "compensate") \/ published' = mine[p] \/ p \in repair'
    BY <1>2 DEF PublishPolicy, PublishCompensation, WriteDone
  <2> QED
    BY <1>0, <2>1, GoMovesOne DEF Doubt, Known
<1>3. CASE PolicyRefused(p) \/ ReadForCompensation(p)
  <2>1. \/ UNCHANGED <<row, published>> /\ pc[p] \notin Doubt
        \/ p \in repair' \/ Go(p, "rechange")
    BY <1>3 DEF PolicyRefused, ReadForCompensation, Doubt, pointer
  <2> QED
    BY <1>0, <2>1, GoMovesOne DEF Doubt
<1>4. CASE \/ AcquireLock(p, "read") \/ LockRefused(p, "done") \/ ReadPolicy(p)
           \/ ReleaseLock(p, "done")
  <2>1. UNCHANGED <<row, published>> /\ pc[p] \notin Doubt
    BY <1>4 DEF AcquireLock, LockRefused, ReadPolicy, ReleaseLock, pointer, Doubt
  <2> QED
    BY <2>1
<1>5. CASE PolicyUnanswered(p)
  <2>1. /\ Go(p, "leave") /\ mine' = [mine EXCEPT ![p] = row']
        /\ outcome' = [outcome EXCEPT ![p] = "unanswered"]
    BY <1>5 DEF PolicyUnanswered, Leave
  <2>2. mine'[p] = row' /\ outcome'[p] = "unanswered"
    BY <1>0, <2>1 DEF TypeInv, TypeOK
  <2> QED
    BY <1>0, <2>1, <2>2, GoMovesOne DEF Unnoticed, Past
<1> QED
  BY <1>1, <1>2, <1>3, <1>4, <1>5 DEF ChangePolicy

\* The callback that is over is not entered again.
LEMMA PastIsPast ==
  ASSUME CallbackInv, NEW s \in Sessions, Moves(s), NEW t \in Sessions, pc[t] \in Past
  PROVE  pc'[t] \in Past /\ outcome'[t] = outcome[t] /\ mine'[t] = mine[t]
<1> USE DEF At
<1>0. DOMAIN mine = Sessions /\ DOMAIN outcome = Sessions
  BY DEF CallbackInv, TypeInv, TypeOK
<1>1. CASE LeaseRunsOut(s) \/ Crash(s)
  BY <1>1, GoMovesOne DEF LeaseRunsOut, Crash, CallbackInv, memory, Past
<1>2. CASE s \in Deployments /\ (Deploy(s) \/ RestoreFails(s))
  <2>1. /\ \E step : Go(s, step) /\ (pc[s] \in Past => step \in Past)
        /\ t # s \/ pc[s] \in Past => outcome'[t] = outcome[t] /\ mine'[t] = mine[t]
    <3>1. CASE Activate(s)
      BY <1>0, <3>1
      DEF Activate, Upload, CreateVersion, Acquire, AcquireLock, LockRefused, PrepareActivation,
          CheckBeforeBatch, CheckHealth, CommitActivation, ActivationRefused, CheckBeforePublish,
          Publish, CheckAfterPublish, Leave, memory, Past
    <3>2. CASE Compensate(s) \/ RestoreFails(s)
      BY <1>0, <3>2
      DEF Compensate, ReadForRestore, OverwriteRow, Reread, PublishRestored, ClearAndReport,
          CompareWorker, DeleteIfInactive, RecordFailure, RestoreFails, Leave, memory, Past
    <3>3. CASE End(s)
      BY <1>0, <3>3
      DEF End, Release, ReleaseLock, CleanupWorker, Fail, Complete, Finish, memory, Past
    <3> QED
      BY <1>2, <3>1, <3>2, <3>3 DEF Deploy
  <2> QED
    BY <2>1, GoMovesOne DEF CallbackInv
<1>3. CASE s \in PolicyChanges /\ ChangePolicy(s)
  <2>1. /\ \E step : Go(s, step) /\ (pc[s] \in Past => step \in Past)
        /\ t # s \/ pc[s] \in Past => outcome'[t] = outcome[t] /\ mine'[t] = mine[t]
    BY <1>0, <1>3
    DEF ChangePolicy, AcquireLock, LockRefused, ReadPolicy, CommitPolicy, PolicyUnanswered,
        PolicyRefused, PublishPolicy, ReadForCompensation, PublishCompensation, ReleaseLock,
        Leave, memory, Past
  <2> QED
    BY <2>1, GoMovesOne DEF CallbackInv
<1> QED
  BY <1>1, <1>2, <1>3 DEF Moves

LEMMA FollowedNext ==
  ASSUME NoAborts, CallbackInv, Followed, [Next]_vars
  PROVE  Followed'
<1>1. CASE UNCHANGED vars
  BY <1>1 DEF vars, pointer, memory, Followed, Unnoticed
<1>2. ASSUME NEW s \in Sessions, Moves(s) PROVE Followed'
  <2>1. repair \subseteq repair' /\ (LeaseRunsOut(s) \/ \E step : Go(s, step))
    BY <1>2
    DEF Moves, Deploy, Activate, Upload, CreateVersion, Acquire, AcquireLock, LockRefused,
        PrepareActivation, CheckBeforeBatch, CheckHealth, CommitActivation, ActivationRefused,
        CheckBeforePublish, Publish, CheckAfterPublish, Compensate, ReadForRestore, OverwriteRow,
        Reread, PublishRestored, ClearAndReport, CompareWorker, DeleteIfInactive, RecordFailure,
        RestoreFails, End, Release, ReleaseLock, CleanupWorker, Fail, Complete, Finish,
        ChangePolicy, ReadPolicy, CommitPolicy, PolicyUnanswered, PolicyRefused, PublishPolicy,
        ReadForCompensation, PublishCompensation, LeaseRunsOut, Crash, Leave
  <2>2. CASE repair # {}
    BY <2>1, <2>2 DEF Followed
  <2>3. CASE \E t \in Sessions \ {s} : pc[t] \in Doubt
    BY <2>1, <2>3, GoMovesOne DEF Followed, LeaseRunsOut, CallbackInv
  <2>4. CASE pc[s] \in Doubt \/ published = row \/ row' # row
    <3>1. CASE LeaseRunsOut(s)
      BY <1>2, <2>4, <3>1 DEF LeaseRunsOut, Followed, pointer
    <3>2. CASE Crash(s)
      BY <3>2, GoMovesOne DEF Crash, Followed, Doubt, CallbackInv
    <3>3. CASE ~LeaseRunsOut(s) /\ ~Crash(s)
      BY <1>2, <2>4, <3>3, DeployFollows, PolicyFollows DEF Moves, Followed
    <3> QED
      BY <3>1, <3>2, <3>3
  <2>5. CASE row' = row /\ \E t \in Sessions : Unnoticed(t)
    BY <1>2, <2>5, PastIsPast DEF Followed, Unnoticed
  <2> QED
    BY <2>2, <2>3, <2>4, <2>5 DEF Followed
<1>3. ASSUME NEW d \in Deployments, ActivationUnanswered(d) PROVE Followed'
  <2>1. /\ d \in Sessions /\ Go(d, "leave") /\ row' = ActivatedRow(d)
        /\ mine' = [mine EXCEPT ![d] = ActivatedRow(d)]
        /\ outcome' = [outcome EXCEPT ![d] = "unanswered"]
    BY <1>3 DEF ActivationUnanswered, Leave, Sessions
  <2>2. mine'[d] = row' /\ outcome'[d] = "unanswered"
    BY <2>1 DEF CallbackInv, TypeInv, TypeOK
  <2>3. Unnoticed(d)'
    BY <2>1, <2>2, GoMovesOne DEF CallbackInv, Unnoticed, Past
  <2> QED
    BY <2>1, <2>3 DEF Followed
<1> QED
  BY <1>1, <1>2, <1>3, StepIsOrderly

\* Once no request is under way and none stopped or reported a repair, the
\* routers see the row of D1, unless that is the row of a request whose commit
\* failed for its handler: of an activation whose answer was lost, or of a policy
\* that could not be read back (commit-route-snapshot.js, update-access-policy.js).
THEOREM RoutersConverge ==
  ASSUME Routes = AllRoutes, NoAborts
  PROVE  Spec => []Converged
<1>1. Init => Followed
  BY DEF Init, Followed
<1>2. Followed => Converged
  BY DEF Followed, Converged, Doubt, Unnoticed
<1> QED
  BY <1>1, <1>2, CallbackInit, CallbackNext, FollowedNext, PTL DEF Spec

-----------------------------------------------------------------------------
(* Rows and snapshots.                                                     *)

\* A committed row is replaced by a newer one, and by whom it may be.
LEMMA RowGrows ==
  ASSUME Routes = AllRoutes, CallbackInv, NEW s \in Sessions, Moves(s), row' # row
  PROVE  /\ row'.gen >= row.gen /\ row'.pol >= row.pol
         /\ row'.gen > row.gen \/ row'.pol > row.pol
         /\ Replaced(s)
<1> USE DEF At
<1>0. Known(s) /\ TypeInv /\ row \in AllRoutes
  BY DEF CallbackInv, RowsKnown, TypeInv, TypeOK
<1>1. \/ s \in Deployments /\ (CommitActivation(s) \/ OverwriteRow(s))
      \/ \E step \in {"change", "rechange"}, next \in {"publish", "republish"} :
           CommitPolicy(s, step, next)
      \/ PolicyUnanswered(s)
  BY DEF Moves, Deploy, Activate, Upload, CreateVersion, Acquire, AcquireLock, LockRefused,
         PrepareActivation, CheckBeforeBatch, ActivationRefused, CheckBeforePublish, Publish,
         CheckAfterPublish, Compensate, ReadForRestore, Reread, PublishRestored, ClearAndReport,
         CompareWorker, DeleteIfInactive, RecordFailure, RestoreFails, End, Release, ReleaseLock,
         CleanupWorker, Fail, Complete, Finish, ChangePolicy, ReadPolicy, PolicyRefused,
         PublishPolicy, ReadForCompensation, PublishCompensation, LeaseRunsOut, Crash, memory, vars
<1>2. CASE s \in Deployments /\ CommitActivation(s)
  BY <1>0, <1>2 DEF CommitActivation, ActivatedRow, AllRoutes, Replaced
<1>3. CASE s \in Deployments /\ OverwriteRow(s)
  <2>1. pc[s] = "overwrite" /\ row' = RestoredRow(s)
    BY <1>3 DEF OverwriteRow
  <2>2. seen[s] = row /\ row.ver = s /\ base[s] \in AllRoutes
    BY <1>0, <1>3, <2>1 DEF Known, TypeInv, Places
  <2>3. row'.gen = Newest(base[s].gen, row.gen) + 1 /\ row'.pol = row.pol
    BY <2>1, <2>2 DEF RestoredRow
  <2>4. Newest(base[s].gen, row.gen) \in Nat /\ Newest(base[s].gen, row.gen) >= row.gen
    BY <1>0, <2>2 DEF Newest, AllRoutes
  <2> QED
    BY <1>0, <2>1, <2>2, <2>3, <2>4 DEF AllRoutes, Replaced
<1>4. CASE \E step \in {"change", "rechange"}, next \in {"publish", "republish"} :
             CommitPolicy(s, step, next)
  BY <1>0, <1>4 DEF CommitPolicy, AllRoutes, Replaced
<1>5. CASE PolicyUnanswered(s)
  BY <1>0, <1>5 DEF PolicyUnanswered, AllRoutes, Replaced
<1> QED
  BY <1>1, <1>2, <1>3, <1>4, <1>5

\* An activation whose answer is lost replaces the row like any other.
LEMMA UnansweredRow ==
  ASSUME Routes = AllRoutes, CallbackInv, NEW d \in Deployments, ActivationUnanswered(d)
  PROVE  /\ row'.gen > row.gen /\ row'.pol = row.pol
         /\ published' = published /\ Replaced(d)
BY DEF ActivationUnanswered, ActivatedRow, CallbackInv, TypeInv, TypeOK, AllRoutes, Replaced,
       pointer, At

\* The success of a deployment is not overwritten by another (route-transactions.js).
THEOREM SuccessIsNotOverwritten ==
  ASSUME Routes = AllRoutes, NoAborts
  PROVE  Spec => SuccessIsKept
<1>1. ASSUME CallbackInv, [Next]_vars PROVE [row' # row => \E s \in Sessions : Replaced(s)]_vars
  BY <1>1, StepIsOrderly, RowGrows, UnansweredRow DEF Sessions
<1> QED
  BY <1>1, CallbackInit, CallbackNext, PTL DEF Spec, SuccessIsKept

\* What is published was the row, and is behind it once the row went on.
Behind ==
  published # None =>
    \/ published = row
    \/ /\ published.gen <= row.gen /\ published.pol <= row.pol
       /\ published.gen < row.gen \/ published.pol < row.pol

LEMMA BehindNext ==
  ASSUME Routes = AllRoutes, NoAborts, CallbackInv, Behind, [Next]_vars
  PROVE  Behind'
<1>1. CASE UNCHANGED vars
  BY <1>1 DEF vars, pointer, Behind
<1>2. ASSUME NEW s \in Sessions, Moves(s) PROVE Behind'
  <2>1. published' \in {published, None, row}
    BY <1>2, StepsFlow DEF Flow
  <2>2. /\ row \in AllRoutes /\ row' \in AllRoutes
        /\ published # None => published \in AllRoutes
    BY <1>2, TypeNext DEF CallbackInv, TypeInv, TypeOK
  <2>3. CASE row' = row
    BY <2>1, <2>2, <2>3 DEF Behind
  <2>4. CASE row' # row
    <3>1. /\ row'.gen >= row.gen /\ row'.pol >= row.pol
          /\ row'.gen > row.gen \/ row'.pol > row.pol
      BY <1>2, <2>4, RowGrows
    <3> QED
      BY <2>1, <2>2, <3>1 DEF Behind, AllRoutes
  <2> QED
    BY <2>3, <2>4
<1>3. ASSUME NEW d \in Deployments, ActivationUnanswered(d) PROVE Behind'
  <2>1. row \in AllRoutes /\ row' \in AllRoutes /\ (published # None => published \in AllRoutes)
    BY TypeNext DEF CallbackInv, TypeInv, TypeOK
  <2> QED
    BY <1>3, <2>1, UnansweredRow DEF Behind, AllRoutes
<1> QED
  BY <1>1, <1>2, <1>3, StepIsOrderly

\* A snapshot that is published is not rewritten with other content.
THEOREM SnapshotsStay ==
  ASSUME Routes = AllRoutes, NoAborts
  PROVE  Spec => SnapshotsAreImmutable
<1> DEFINE Kept == published # None /\ published' # None /\ SameTuple(published, published')
                     => published' = published
<1>1. Init => Behind
  BY DEF Init, Behind
<1>2. ASSUME CallbackInv, Behind, [Next]_vars PROVE [Kept]_vars
  <2>1. CASE UNCHANGED vars
    BY <2>1
  <2>2. ASSUME NEW s \in Sessions, Moves(s) PROVE Kept
    <3>1. published' \in {published, None, row}
      BY <1>2, <2>2, StepsFlow DEF Flow
    <3>2. row \in AllRoutes /\ (published # None => published \in AllRoutes)
      BY <1>2 DEF CallbackInv, TypeInv, TypeOK
    <3> QED
      BY <1>2, <3>1, <3>2 DEF Behind, AllRoutes, SameTuple
  <2>3. ASSUME NEW d \in Deployments, ActivationUnanswered(d) PROVE Kept
    BY <1>2, <2>3, UnansweredRow
  <2> QED
    BY <1>2, <2>1, <2>2, <2>3, StepIsOrderly
<1> QED
  BY <1>1, <1>2, CallbackInit, CallbackNext, BehindNext, PTL DEF Spec, SnapshotsAreImmutable
=============================================================================
