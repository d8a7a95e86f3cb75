-------------------------- MODULE DeploymentRecord --------------------------
(***************************************************************************)
(* What becomes of the record of a deployment: the row that its own        *)
(* request completes (application/deployments/complete-deployment.js,      *)
(* complete-failed-deployment.js), that a GET or a replay of the request   *)
(* corrects when D1's route leads to its version                           *)
(* (reconcile-committed-deployment.js), and that the next request of the   *)
(* site fails from a recovery marker (recover-failed-deployments.js).      *)
(*                                                                         *)
(* updateDeployment has no condition: whoever writes last has the last     *)
(* word.  Everything here is about who can be late.                        *)
(***************************************************************************)
EXTENDS Integers, FiniteSets, DeploymentNames

CONSTANTS
  Rollbacks,  \* rollbacks; their record is a deployment as well
  Readers,    \* GETs of a deployment, and replays of its request
  Followers,  \* later requests of the site: they start with the recovery
  MaxLosses   \* bound on the writes of a final state that fail

Records == Deploys \cup Rollbacks
VersionsOf == Deploys \cup {First}
Visitors == Readers \cup Followers

VARIABLES
  active,    \* D1: active_version_id of the site's route
  status,    \* D1: the deployments' status; those before the last count as one
  version,   \* D1: the deployments' version_id
  markers,   \* KV or the Durable Object: recovery markers
  holder,    \* the request that holds the site's commit lock
  step,      \* where each request and each visitor is
  previous,  \* the version that a request replaced
  subject,   \* the deployment that a visitor looks at
  before,    \* the status that the completion of a failure read first
  losses,    \* how many writes failed
  wasActive, \* history: versions that the route led to
  filed      \* history: markers that were written

rows == <<active, status, version>>
visit == <<step, subject, before>>
record == <<wasActive, filed>>
vars == <<rows, markers, holder, visit, previous, losses, record>>

Final(q) == status[q] \in {"succeeded", "failed"}
On(x, s) == step[x] = s
To(x, s) == step' = [step EXCEPT ![x] = s]

\* What a request or a visitor works on.
Of(x) == IF x \in Records THEN x ELSE subject[x]

Lose == losses < MaxLosses /\ losses' = losses + 1

----------------------------------------------------------------------------
(* A request.                                                              *)

\* validate-rollback-version.js: the deployment of the version succeeded.
Create(q) ==
  /\ On(q, "new")
  /\ status' = [status EXCEPT ![q] = "pending"]
  /\ IF q \in Deploys
     THEN UNCHANGED version
     ELSE \E v \in {d \in Deploys : status[d] = "succeeded"} \cup {First} :
            version' = [version EXCEPT ![q] = v]
  /\ To(q, "prepare")
  /\ UNCHANGED <<active, markers, holder, subject, before, previous, losses, record>>

\* The record is told the version; a failed step before the lock ends here too.
Prepare(q) ==
  /\ On(q, "prepare")
  /\ \/ /\ version' = [version EXCEPT ![q] = IF q \in Deploys THEN q ELSE @]
        /\ To(q, "lock")
     \/ To(q, "recall") /\ UNCHANGED version
     \/ To(q, "look") /\ UNCHANGED version
  /\ UNCHANGED <<active, status, markers, holder, subject, before, previous, losses, record>>

Lock(q) ==
  /\ On(q, "lock") /\ holder = Nobody
  /\ holder' = q
  /\ previous' = [previous EXCEPT ![q] = active]
  /\ To(q, "activate")
  /\ UNCHANGED <<rows, markers, subject, before, losses, record>>

Activate(q) ==
  /\ On(q, "activate")
  /\ active' = version[q]
  /\ wasActive' = wasActive \cup {version[q]}
  /\ To(q, "publish")
  /\ UNCHANGED <<status, version, markers, holder, subject, before, previous, losses, filed>>

Refused(q) ==
  /\ On(q, "activate")
  /\ holder' = Nobody
  /\ To(q, "recall")
  /\ UNCHANGED <<rows, markers, subject, before, previous, losses, record>>

Publish(q) ==
  /\ On(q, "publish")
  /\ holder' = Nobody
  /\ To(q, "succeed")
  /\ UNCHANGED <<rows, markers, subject, before, previous, losses, record>>

\* The snapshot is not written; the route is restored, unless that fails too.
PublishFails(q) ==
  /\ On(q, "publish")
  /\ active' \in {active, previous[q]}
  /\ holder' = Nobody
  /\ To(q, "recall")
  /\ UNCHANGED <<status, version, markers, subject, before, previous, losses, record>>

\* complete-deployment.js: the answer is the same when the write fails.
Succeed(q) ==
  /\ On(q, "succeed")
  /\ \/ status' = [status EXCEPT ![q] = "succeeded"] /\ UNCHANGED losses
     \/ Lose /\ UNCHANGED status
  /\ To(q, "done")
  /\ UNCHANGED <<active, version, markers, holder, subject, before, previous, record>>

----------------------------------------------------------------------------
(* The completion of a failure, by the request itself or by a follower.    *)

\* The status before is read first: it decides on the webhook, not on the write.
Recall(x) ==
  /\ On(x, "recall")
  /\ before' = [before EXCEPT ![x] = status[Of(x)]]
  /\ To(x, "fail")
  /\ UNCHANGED <<rows, markers, holder, subject, previous, losses, record>>

Over(x) == IF x \in Records THEN "done" ELSE "idle"

\* Slip: when neither write succeeds, nothing is left behind.
FailForgetfully(x) ==
  /\ On(x, "fail")
  /\ \/ /\ status' = [status EXCEPT ![Of(x)] = "failed"]
        /\ To(x, IF x \in Followers THEN "delete" ELSE Over(x))
        /\ UNCHANGED losses
     \/ /\ Lose
        /\ To(x, Over(x))
        /\ UNCHANGED status
  /\ filed' = IF status' = status THEN filed \cup {Of(x)} ELSE filed
  /\ UNCHANGED <<active, version, markers, holder, subject, before, previous, wasActive>>

\* complete-failed-deployment.js: after two failed writes a marker is stored
\* or, when neither KV nor the object takes it, only a report is left; the request ends.
Fail(x) ==
  /\ On(x, "fail")
  /\ \/ /\ status' = [status EXCEPT ![Of(x)] = "failed"]
        /\ To(x, IF x \in Followers THEN "delete" ELSE Over(x))
        /\ UNCHANGED <<markers, losses, filed>>
     \/ /\ Lose
        /\ \/ markers' = markers \cup {Of(x)} /\ filed' = filed \cup {Of(x)}
           \/ UNCHANGED <<markers, filed>>
        /\ To(x, Over(x))
        /\ UNCHANGED status
  /\ UNCHANGED <<active, version, holder, subject, before, previous, wasActive>>

----------------------------------------------------------------------------
(* Visitors.  An unexpected failure of a request takes the same steps      *)
(* (recover-unexpected-request-failure.js).                                *)

Read(r) ==
  /\ r \in Readers /\ On(r, "idle")
  /\ \E q \in Records :
       /\ status[q] # "none"
       /\ subject' = [subject EXCEPT ![r] = q]
  /\ To(r, "look")
  /\ UNCHANGED <<rows, markers, holder, before, previous, losses, record>>

Recover(f) ==
  /\ f \in Followers /\ On(f, "idle")
  /\ \E q \in markers : subject' = [subject EXCEPT ![f] = q]
  /\ To(f, "look")
  /\ UNCHANGED <<rows, markers, holder, before, previous, losses, record>>

\* The deployment is read; a final state ends the visit.
Look(x) ==
  /\ On(x, "look")
  /\ To(x, IF ~Final(Of(x)) THEN "route" ELSE IF x \in Followers THEN "delete" ELSE Over(x))
  /\ UNCHANGED <<rows, markers, holder, subject, before, previous, losses, record>>

\* Slip: any version of the site's will do.
CommittedAnyhow(q) == version[q] # Nobody

\* A deployment owns its version; a rollback may share it.
Committed(q) == version[q] # Nobody /\ active = version[q]

Compare(x) ==
  /\ On(x, "route")
  /\ To(x, IF Committed(Of(x)) THEN "confirm" ELSE IF x \in Readers THEN Over(x) ELSE "recall")
  /\ UNCHANGED <<rows, markers, holder, subject, before, previous, losses, record>>

\* A failed write is answered with a record that says succeeded.
Confirm(x) ==
  /\ On(x, "confirm")
  /\ \/ status' = [status EXCEPT ![Of(x)] = "succeeded"] /\ UNCHANGED losses
     \/ Lose /\ UNCHANGED status
  /\ To(x, IF x \in Followers THEN "verify" ELSE Over(x))
  /\ UNCHANGED <<active, version, markers, holder, subject, before, previous, record>>

\* Slip: the answer of the reconciliation is taken at its word.
VerifyNothing(f) ==
  /\ On(f, "verify")
  /\ To(f, "delete")
  /\ UNCHANGED <<rows, markers, holder, subject, before, previous, losses, record>>

\* The follower reads again what the reconciliation wrote.
Verify(f) ==
  /\ On(f, "verify")
  /\ To(f, IF Final(Of(f)) THEN "delete" ELSE "idle")
  /\ UNCHANGED <<rows, markers, holder, subject, before, previous, losses, record>>

\* Best effort: a marker that stays is met again by the next request.
Delete(f) ==
  /\ On(f, "delete")
  /\ \/ markers' = markers \ {subject[f]} /\ UNCHANGED losses
     \/ Lose /\ UNCHANGED markers
  /\ To(f, "idle")
  /\ UNCHANGED <<rows, holder, subject, before, previous, record>>

----------------------------------------------------------------------------
Init ==
  /\ active = First /\ wasActive = {First}
  /\ status = [q \in Records |-> "none"] /\ version = [q \in Records |-> Nobody]
  /\ markers = {} /\ filed = {} /\ holder = Nobody
  /\ step = [x \in Records \cup Visitors |-> IF x \in Records THEN "new" ELSE "idle"]
  /\ previous = [q \in Records |-> Nobody]
  /\ subject = [x \in Visitors |-> Nobody]
  /\ before = [x \in Records \cup Visitors |-> "none"]
  /\ losses = 0

Request(q) ==
  \/ Create(q) \/ Prepare(q) \/ Lock(q) \/ Activate(q) \/ Refused(q) \/ Publish(q) \/ PublishFails(q) \/ Succeed(q)
Complete(x) == Look(x) \/ Compare(x) \/ Confirm(x) \/ Recall(x) \/ Fail(x)
Follow(f) == Recover(f) \/ Verify(f) \/ Delete(f)

Next ==
  \/ \E q \in Records : Request(q)
  \/ \E x \in Records \cup Visitors : Complete(x)
  \/ \E r \in Readers : Read(r)
  \/ \E f \in Followers : Follow(f)

Spec == Init /\ [][Next]_vars

\* The site's requests go on, and others come after them.
FairSpec ==
  /\ Spec
  /\ \A f \in Followers : WF_vars(Follow(f)) /\ WF_vars(Complete(f))

----------------------------------------------------------------------------
(* Properties                                                              *)

TypeOK ==
  /\ active \in VersionsOf /\ wasActive \subseteq VersionsOf
  /\ status \in [Records -> {"none", "pending", "succeeded", "failed"}]
  /\ version \in [Records -> VersionsOf \cup {Nobody}]
  /\ markers \subseteq Records /\ filed \subseteq Records
  /\ holder \in Records \cup {Nobody}
  /\ previous \in [Records -> VersionsOf \cup {Nobody}]
  /\ subject \in [Visitors -> Records \cup {Nobody}]
  /\ before \in [Records \cup Visitors -> {"none", "pending", "succeeded", "failed"}]
  /\ losses \in 0 .. MaxLosses

\* No marker is lost before the failure that it stands for, or a success, is recorded:
\* recover-failed-deployments.js deletes it only when the row itself is final.
MarkerOutlivesDoubt == \A q \in filed : Final(q) \/ q \in markers

\* A deployment is recorded as succeeded only if the route led to its version
\* at some time, whoever wrote the record and however late.
SuccessWasActive == \A q \in Records : status[q] = "succeeded" => version[q] \in wasActive

\* As long as requests come, a failure that could not be recorded is settled in the end.
FailureIsSettled == \A q \in Records : q \in filed ~> Final(q)

=============================================================================
