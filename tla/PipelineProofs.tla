--------------------------- MODULE PipelineProofs ---------------------------
(***************************************************************************)
(* Theorems about the record of a deployment, its variables and the        *)
(* platform's own development, for any number of requests and lost writes. *)
(*                                                                         *)
(* No write of a record's final state has a condition, so what is proved   *)
(* is about when it is decided: by a visitor that looked a while ago, at a *)
(* record that others have written since.  The variables are proved from   *)
(* what every reading of them, once taken, still says of the present.  An  *)
(* item is proved from what a request that moves it may carry.  The last   *)
(* section is about the three and the transfers together, as the run       *)
(* MCPipeline explores them.                                               *)
(***************************************************************************)
EXTENDS SiteOwnershipProofs, MCPipeline

-----------------------------------------------------------------------------
(* The record: types.                                                      *)

\* Requests, readers and followers are different things.
KindsDiffer ==
  /\ Deploys \cap Rollbacks = {} /\ Records \cap Visitors = {} /\ Readers \cap Followers = {}
  /\ Nobody \notin VersionsOf \cup Records
  /\ MaxLosses \in Nat

Steps == {"new", "prepare", "lock", "activate", "publish", "succeed", "done", "recall", "fail",
          "idle", "look", "route", "confirm", "verify", "delete"}

\* What a visitor works on exists, and a request starts from nothing.
Subjects ==
  /\ \A x \in Visitors : step[x] # "idle" => subject[x] \in Records /\ status[subject[x]] # "none"
  /\ \A q \in Records : step[q] = "new" <=> status[q] = "none"
  /\ \A q \in markers : status[q] # "none"
  /\ \A q \in Records : step[q] \notin {"idle", "verify", "delete"}
  /\ \A x \in Visitors :
       step[x] \in {"idle", "look", "route", "confirm", "recall", "fail", "verify", "delete"}
  /\ \A r \in Readers : step[r] \notin {"verify", "delete"}

\* A request that goes on knows its version, and the version that it replaced.
Placed ==
  \A q \in Records :
    /\ step[q] \in {"lock", "activate", "publish", "succeed"} => version[q] \in VersionsOf
    /\ step[q] \in {"activate", "publish"} => previous[q] \in VersionsOf
    /\ q \in Rollbacks /\ step[q] # "new" => version[q] \in VersionsOf

TypeInv == TypeOK /\ Placed /\ step \in [Records \cup Visitors -> Steps] /\ Subjects

LEMMA TypeInit == ASSUME KindsDiffer PROVE Init => TypeInv
BY DEF Init, TypeInv, TypeOK, Subjects, Placed, Steps, KindsDiffer, Records, Visitors, VersionsOf

\* What x works on is a record that was created.
LEMMA OfIsCreated ==
  ASSUME KindsDiffer, TypeInv, NEW x \in Records \cup Visitors, step[x] \notin {"new", "idle"}
  PROVE  Of(x) \in Records /\ status[Of(x)] # "none"
BY DEF KindsDiffer, TypeInv, Subjects, Of, Visitors

\* A request's own steps.
LEMMA RequestKeepsTypes ==
  ASSUME KindsDiffer, TypeInv, NEW q \in Records, Request(q)
  PROVE  TypeInv'
<1> USE DEF On, To, rows, visit, record, TypeInv
<1>1. TypeOK' /\ (step \in [Records \cup Visitors -> Steps])'
  <2> USE DEF TypeOK, Steps
  <2>1. CASE Create(q)
    BY <2>1 DEF Create, VersionsOf
  <2>2. CASE Prepare(q)
    BY <2>2 DEF Prepare, VersionsOf
  <2>3. CASE Lock(q)
    BY <2>3 DEF Lock
  <2>4. CASE Activate(q)
    <3>1. version[q] \in VersionsOf
      BY <2>4 DEF Activate, Placed
    <3> QED
      BY <2>4, <3>1 DEF Activate
  <2>5. CASE Refused(q) \/ Publish(q)
    BY <2>5 DEF Refused, Publish
  <2>6. CASE PublishFails(q)
    BY <2>6 DEF PublishFails, Placed
  <2>7. CASE Succeed(q)
    BY <2>7 DEF Succeed, Lose, KindsDiffer
  <2> QED
    BY <2>1, <2>2, <2>3, <2>4, <2>5, <2>6, <2>7 DEF Request
<1>2. /\ q \notin Visitors
      /\ status' = status \/ \E s \in {"pending", "succeeded"} : status' = [status EXCEPT ![q] = s]
      /\ \E s \in Steps : step' = [step EXCEPT ![q] = s]
      /\ step'[q] \notin {"idle", "verify", "delete", "new"}
      /\ UNCHANGED <<subject, markers>>
      /\ status'[q] # "none"
  BY DEF Request, Create, Prepare, Lock, Activate, Refused, Publish, PublishFails, Succeed, TypeOK,
         Steps, Lose, KindsDiffer, Subjects
<1>3. Subjects'
  BY <1>2 DEF Subjects, TypeOK, KindsDiffer, Visitors
<1>4. Placed'
  <2>1. CASE Create(q)
    <3>1. \A p \in Records : p # q => version'[p] = version[p] /\ step'[p] = step[p]
      BY <2>1 DEF Create, TypeOK
    <3>2. step'[q] = "prepare"
      BY <2>1 DEF Create
    <3>3. q \in Rollbacks => version'[q] \in VersionsOf
      BY <2>1 DEF Create, TypeOK, VersionsOf, KindsDiffer
    <3> QED
      BY <2>1, <3>1, <3>2, <3>3 DEF Create, Placed
  <2>2. CASE Prepare(q)
    <3>1. \A p \in Records : p # q => version'[p] = version[p] /\ step'[p] = step[p]
      BY <2>2 DEF Prepare, TypeOK
    <3>2. /\ step'[q] \in {"lock", "recall", "look"}
          /\ step'[q] = "lock" /\ q \in Deploys => version'[q] \in VersionsOf
          /\ q \in Rollbacks => version'[q] = version[q]
      BY <2>2 DEF Prepare, TypeOK, VersionsOf, KindsDiffer
    <3> QED
      BY <2>2, <3>1, <3>2 DEF Prepare, Placed, On, Records
  <2>3. CASE Lock(q)
    BY <2>3 DEF Lock, Placed, TypeOK
  <2>4. CASE Activate(q) \/ Refused(q) \/ Publish(q) \/ PublishFails(q) \/ Succeed(q)
    BY <2>4 DEF Activate, Refused, Publish, PublishFails, Succeed, Placed, TypeOK
  <2> QED
    BY <2>1, <2>2, <2>3, <2>4 DEF Request
<1> QED
  BY <1>1, <1>3, <1>4

\* The steps that complete a failure or reconcile it, whoever takes them.
LEMMA CompleteKeepsTypes ==
  ASSUME KindsDiffer, TypeInv, NEW x \in Records \cup Visitors, Complete(x)
  PROVE  TypeInv'
<1> USE DEF On, To, rows, visit, record, TypeInv
<1>0. /\ step[x] \in {"look", "route", "confirm", "recall", "fail"}
      /\ Of(x) \in Records /\ status[Of(x)] # "none"
  BY OfIsCreated DEF Complete, Look, Compare, Confirm, Recall, Fail
<1>1. /\ UNCHANGED <<active, version, holder, subject, previous, wasActive>>
      /\ \/ status' = status
         \/ \E s \in {"succeeded", "failed"} : status' = [status EXCEPT ![Of(x)] = s]
      /\ losses' \in 0 .. MaxLosses
      /\ markers' \in {markers, markers \cup {Of(x)}} /\ filed' \in {filed, filed \cup {Of(x)}}
      /\ before' = before \/ before' = [before EXCEPT ![x] = status[Of(x)]]
  BY DEF Complete, Look, Compare, Confirm, Recall, Fail, Lose, TypeOK, KindsDiffer
<1>2. \E s \in Steps :
        /\ step' = [step EXCEPT ![x] = s]
        /\ s \in {"route", "confirm", "recall", "fail"}
           \/ (x \in Records /\ s = "done")
           \/ (x \in Visitors /\ s = "idle")
           \/ (x \in Followers /\ s \in {"verify", "delete"})
  BY DEF Complete, Look, Compare, Confirm, Recall, Fail, Over, Steps, Visitors
<1>3. TypeOK' /\ (step \in [Records \cup Visitors -> Steps])'
  BY <1>0, <1>1, <1>2 DEF TypeOK
<1>4. Subjects'
  BY <1>0, <1>1, <1>2 DEF Subjects, TypeOK, KindsDiffer, Visitors
<1>5. Placed'
  BY <1>0, <1>1, <1>2 DEF Placed, Subjects
<1> QED
  BY <1>3, <1>4, <1>5

LEMMA VisitKeepsTypes ==
  ASSUME KindsDiffer, TypeInv, NEW x \in Visitors, Read(x) \/ (x \in Followers /\ Follow(x))
  PROVE  TypeInv'
<1> USE DEF On, To, rows, visit, record, TypeInv
<1>0. x \notin Records
  BY DEF KindsDiffer
<1>1. /\ UNCHANGED <<rows, holder, before, previous, record>>
      /\ losses' \in 0 .. MaxLosses
      /\ markers' \subseteq markers
      /\ \/ UNCHANGED subject /\ step[x] \in {"verify", "delete"}
         \/ \E q \in Records : status[q] # "none" /\ subject' = [subject EXCEPT ![x] = q]
      /\ \E s \in {"look", "idle"} \cup (IF x \in Followers THEN {"delete"} ELSE {}) :
           step' = [step EXCEPT ![x] = s]
  BY DEF Read, Follow, Recover, Verify, Delete, Lose, TypeOK, KindsDiffer, Subjects
<1>2. TypeOK' /\ (step \in [Records \cup Visitors -> Steps])'
  BY <1>1 DEF TypeOK, Steps
<1>3. Subjects'
  BY <1>0, <1>1 DEF Subjects, TypeOK, KindsDiffer, Visitors
<1>4. Placed'
  BY <1>0, <1>1 DEF Placed
<1> QED
  BY <1>2, <1>3, <1>4

LEMMA TypeNext == ASSUME KindsDiffer PROVE TypeInv /\ [Next]_vars => TypeInv'
<1> SUFFICES ASSUME TypeInv, [Next]_vars PROVE TypeInv'
  OBVIOUS
<1>1. CASE UNCHANGED vars
  BY <1>1 DEF vars, rows, visit, record, TypeInv, TypeOK, Subjects, Placed
<1>2. CASE Next
  BY <1>2, RequestKeepsTypes, CompleteKeepsTypes, VisitKeepsTypes DEF Next, Visitors
<1> QED
  BY <1>1, <1>2

-----------------------------------------------------------------------------
(* Markers.                                                                *)

\* A marker is deleted by a follower that has seen the final state.
MarkersInv ==
  /\ MarkerOutlivesDoubt
  /\ \A f \in Followers : On(f, "delete") => Final(subject[f])

\* A final state stays final: only a request that is created has no status.
LEMMA FinalStays ==
  ASSUME KindsDiffer, TypeInv, [Next]_vars, NEW q \in Records, Final(q)
  PROVE  Final(q)'
<1> USE DEF Final, On, To, rows, visit, record
<1>1. CASE UNCHANGED vars
  BY <1>1 DEF vars
<1>2. ASSUME NEW p \in Records, Request(p) PROVE Final(q)'
  BY <1>2
  DEF Request, Create, Prepare, Lock, Activate, Refused, Publish, PublishFails, Succeed, TypeInv,
      TypeOK, Subjects
<1>3. ASSUME NEW x \in Records \cup Visitors, Complete(x) PROVE Final(q)'
  BY <1>3 DEF Complete, Look, Compare, Confirm, Recall, Fail, TypeInv, TypeOK
<1>4. ASSUME NEW x \in Visitors, Read(x) \/ Follow(x) PROVE Final(q)'
  BY <1>4 DEF Read, Follow, Recover, Verify, Delete
<1> QED
  BY <1>1, <1>2, <1>3, <1>4 DEF Next, Visitors

LEMMA MarkersNext ==
  ASSUME KindsDiffer, TypeInv, MarkersInv, [Next]_vars
  PROVE  MarkersInv'
<1> USE DEF On, To, rows, visit, record
<1>0. \A q \in Records : Final(q) => Final(q)'
  BY FinalStays
<1>1. CASE UNCHANGED vars
  BY <1>1 DEF vars, MarkersInv, MarkerOutlivesDoubt, Final
<1>2. ASSUME NEW q \in Records, Request(q) PROVE MarkersInv'
  BY <1>0, <1>2
  DEF Request, Create, Prepare, Lock, Activate, Refused, Publish, PublishFails, Succeed, TypeInv,
      TypeOK, Subjects, MarkersInv, MarkerOutlivesDoubt, KindsDiffer, Visitors
<1>3. ASSUME NEW x \in Records \cup Visitors, Complete(x) PROVE MarkersInv'
  <2>1. Of(x) \in Records
    BY <1>3, OfIsCreated DEF Complete, Look, Compare, Confirm, Recall, Fail
  <2>2. MarkerOutlivesDoubt'
    BY <1>0, <1>3, <2>1
    DEF Complete, Look, Compare, Confirm, Recall, Fail, MarkersInv, MarkerOutlivesDoubt, TypeInv,
        TypeOK
  <2>3. ASSUME NEW f \in Followers, step'[f] = "delete"
        PROVE  status'[subject'[f]] \in {"succeeded", "failed"}
    <3>1. UNCHANGED subject
      BY <1>3 DEF Complete, Look, Compare, Confirm, Recall, Fail
    <3>2. CASE f # x
      BY <1>0, <1>3, <2>3, <3>1, <3>2
      DEF Complete, Look, Compare, Confirm, Recall, Fail, Final, MarkersInv, TypeInv, Subjects,
          Visitors
    <3>3. CASE f = x
      <4>1. Of(x) = subject[x]
        BY <3>3 DEF Of, KindsDiffer, Visitors
      <4>2. CASE Look(x)
        BY <1>0, <2>1, <2>3, <3>1, <3>3, <4>1, <4>2 DEF Look, Final, TypeInv, Over
      <4>3. CASE Fail(x)
        BY <2>1, <2>3, <3>1, <3>3, <4>1, <4>3 DEF Fail, Final, TypeInv, TypeOK, Over
      <4>4. CASE Compare(x) \/ Confirm(x) \/ Recall(x)
        BY <2>3, <3>3, <4>4 DEF Compare, Confirm, Recall, Over, TypeInv, Visitors
      <4> QED
        BY <1>3, <4>2, <4>3, <4>4 DEF Complete
    <3> QED
      BY <3>2, <3>3
  <2> QED
    BY <2>2, <2>3 DEF MarkersInv, Final
<1>4. ASSUME NEW r \in Readers, Read(r) PROVE MarkersInv'
  BY <1>0, <1>4
  DEF Read, MarkersInv, MarkerOutlivesDoubt, KindsDiffer, TypeInv, TypeOK, Subjects, Visitors
<1>5. ASSUME NEW f \in Followers, Follow(f) PROVE MarkersInv'
  <2>1. CASE Recover(f)
    BY <1>0, <2>1
    DEF Recover, MarkersInv, MarkerOutlivesDoubt, TypeInv, TypeOK, Subjects, Visitors
  <2>2. CASE Verify(f)
    BY <1>0, <2>2
    DEF Verify, Of, MarkersInv, MarkerOutlivesDoubt, TypeInv, TypeOK, Subjects, Visitors,
        KindsDiffer
  <2>3. CASE Delete(f)
    BY <1>0, <2>3
    DEF Delete, MarkersInv, MarkerOutlivesDoubt, TypeInv, TypeOK, Subjects, Visitors
  <2> QED
    BY <1>5, <2>1, <2>2, <2>3 DEF Follow
<1> QED
  BY <1>1, <1>2, <1>3, <1>4, <1>5 DEF Next

\* No marker is lost before the failure that it stands for, or a success, is recorded:
\* recover-failed-deployments.js deletes it only after it has read a final state.
THEOREM MarkersAreKept == ASSUME KindsDiffer PROVE Spec => []MarkerOutlivesDoubt
<1>1. Init => TypeInv /\ MarkersInv
  BY TypeInit DEF Init, MarkersInv, MarkerOutlivesDoubt, On, KindsDiffer, Records, Visitors
<1>2. TypeInv /\ MarkersInv /\ [Next]_vars => (TypeInv /\ MarkersInv)'
  BY TypeNext, MarkersNext
<1>3. MarkersInv => MarkerOutlivesDoubt
  BY DEF MarkersInv
<1> QED
  BY <1>1, <1>2, <1>3, PTL DEF Spec

\* The record keeps the types of its columns, whoever writes it and however late.
THEOREM TypeCorrect == ASSUME KindsDiffer PROVE Spec => []TypeOK
<1>1. TypeInv => TypeOK
  BY DEF TypeInv
<1> QED
  BY <1>1, TypeInit, TypeNext, PTL DEF Spec

-----------------------------------------------------------------------------
(* Successes.                                                              *)

\* A success is decided when the route leads to the version, and that the
\* route did so once is never undone: it does not matter when it is written.
SuccessInv ==
  /\ SuccessWasActive
  /\ active \in wasActive
  /\ \A q \in Records :
       /\ step[q] \in {"publish", "succeed"} => version[q] \in wasActive
       /\ step[q] \in {"activate", "publish"} => previous[q] \in wasActive
       /\ q \in Deploys /\ step[q] \in {"new", "prepare"} => version[q] = Nobody
  /\ \A x \in Records \cup Visitors : On(x, "confirm") => version[Of(x)] \in wasActive

\* A version that the route led to stays the record's version.
LEMMA VersionStays ==
  ASSUME KindsDiffer, TypeInv, SuccessInv, [Next]_vars,
         NEW q \in Records, status[q] # "none", version[q] \in wasActive
  PROVE  version'[q] = version[q] /\ version[q] \in wasActive'
<1> USE DEF On, To, rows, visit, record
<1>1. CASE UNCHANGED vars
  BY <1>1 DEF vars
<1>2. ASSUME NEW p \in Records, Request(p)
      PROVE  version'[q] = version[q] /\ version[q] \in wasActive'
  <2>1. CASE Create(p)
    BY <2>1 DEF Create, TypeInv, TypeOK, Subjects
  <2>2. CASE Prepare(p)
    BY <2>2 DEF Prepare, TypeInv, TypeOK, SuccessInv, KindsDiffer
  <2>3. CASE Activate(p)
    BY <2>3 DEF Activate
  <2>4. CASE Lock(p) \/ Refused(p) \/ Publish(p) \/ PublishFails(p) \/ Succeed(p)
    BY <2>4 DEF Lock, Refused, Publish, PublishFails, Succeed
  <2> QED
    BY <1>2, <2>1, <2>2, <2>3, <2>4 DEF Request
<1>3. ASSUME NEW x \in Records \cup Visitors, Complete(x)
      PROVE  version'[q] = version[q] /\ version[q] \in wasActive'
  BY <1>3 DEF Complete, Look, Compare, Confirm, Recall, Fail
<1>4. ASSUME NEW x \in Visitors, Read(x) \/ Follow(x)
      PROVE  version'[q] = version[q] /\ version[q] \in wasActive'
  BY <1>4 DEF Read, Follow, Recover, Verify, Delete
<1> QED
  BY <1>1, <1>2, <1>3, <1>4 DEF Next, Visitors

LEMMA SuccessNext ==
  ASSUME KindsDiffer, TypeInv, SuccessInv, [Next]_vars
  PROVE  SuccessInv'
<1> USE DEF On, To, rows, visit, record
<1>0. \A q \in Records : status[q] # "none" /\ version[q] \in wasActive =>
                           version'[q] = version[q] /\ version[q] \in wasActive'
  BY VersionStays
<1>1. CASE UNCHANGED vars
  BY <1>1 DEF vars, SuccessInv, SuccessWasActive, Of
<1>2. ASSUME NEW p \in Records, Request(p) PROVE SuccessInv'
  <2>0. p \notin Visitors
    BY DEF KindsDiffer
  <2>1. SuccessWasActive'
    BY <1>0, <1>2
    DEF Request, Create, Prepare, Lock, Activate, Refused, Publish, PublishFails, Succeed, TypeInv,
        TypeOK, Subjects, SuccessInv, SuccessWasActive
  <2>2. (active \in wasActive)'
    BY <1>2
    DEF Request, Create, Prepare, Lock, Activate, Refused, Publish, PublishFails, Succeed,
        SuccessInv
  <2>3. ASSUME NEW q \in Records
        PROVE  /\ step'[q] \in {"publish", "succeed"} => version'[q] \in wasActive'
               /\ step'[q] \in {"activate", "publish"} => previous'[q] \in wasActive'
               /\ q \in Deploys /\ step'[q] \in {"new", "prepare"} => version'[q] = Nobody
    <3>1. CASE q # p
      BY <1>2, <3>1
      DEF Request, Create, Prepare, Lock, Activate, Refused, Publish, PublishFails, Succeed,
          TypeInv, TypeOK, SuccessInv
    <3>2. CASE q = p
      BY <1>2, <3>2
      DEF Request, Create, Prepare, Lock, Activate, Refused, Publish, PublishFails, Succeed,
          TypeInv, TypeOK, SuccessInv
    <3> QED
      BY <3>1, <3>2
  <2>4. ASSUME NEW x \in Records \cup Visitors, step'[x] = "confirm"
        PROVE  version'[Of(x)'] \in wasActive'
    <3>1. x # p /\ step[x] = "confirm" /\ Of(x)' = Of(x)
      BY <1>2, <2>4
      DEF Request, Create, Prepare, Lock, Activate, Refused, Publish, PublishFails, Succeed,
          TypeInv, Of
    <3> QED
      BY <1>0, <3>1, OfIsCreated DEF SuccessInv
  <2> QED
    BY <2>1, <2>2, <2>3, <2>4 DEF SuccessInv
<1>3. ASSUME NEW x \in Records \cup Visitors, Complete(x) PROVE SuccessInv'
  <2>1. Of(x) \in Records /\ status[Of(x)] # "none"
    BY <1>3, OfIsCreated DEF Complete, Look, Compare, Confirm, Recall, Fail
  <2>2. UNCHANGED <<active, version, previous, subject, wasActive>>
    BY <1>3 DEF Complete, Look, Compare, Confirm, Recall, Fail
  <2>3. SuccessWasActive'
    BY <1>3, <2>1, <2>2
    DEF Complete, Look, Compare, Confirm, Recall, Fail, TypeInv, TypeOK, SuccessInv,
        SuccessWasActive
  <2>4. ASSUME NEW q \in Records, step'[q] \in {"publish", "succeed", "activate", "new", "prepare"}
        PROVE  step[q] = step'[q]
    BY <1>3, <2>4
    DEF Complete, Look, Compare, Confirm, Recall, Fail, Over, TypeInv, KindsDiffer
  <2>5. ASSUME NEW y \in Records \cup Visitors, step'[y] = "confirm"
        PROVE  version[Of(y)] \in wasActive
    <3>1. CASE y # x
      BY <1>3, <2>5, <3>1
      DEF Complete, Look, Compare, Confirm, Recall, Fail, TypeInv, SuccessInv
    <3>2. CASE y = x
      BY <1>3, <2>5, <3>2
      DEF Complete, Look, Compare, Confirm, Recall, Fail, Over, Committed, TypeInv, SuccessInv
    <3> QED
      BY <3>1, <3>2
  <2> QED
    BY <2>2, <2>3, <2>4, <2>5 DEF SuccessInv, Of
<1>4. ASSUME NEW x \in Visitors, Read(x) \/ (x \in Followers /\ Follow(x)) PROVE SuccessInv'
  <2>1. UNCHANGED <<rows, previous, wasActive>>
    BY <1>4 DEF Read, Follow, Recover, Verify, Delete
  <2>2. /\ x \notin Records
        /\ \A y \in Records \cup Visitors : y # x => step'[y] = step[y] /\ Of(y)' = Of(y)
        /\ step'[x] # "confirm"
    BY <1>4 DEF Read, Follow, Recover, Verify, Delete, TypeInv, TypeOK, KindsDiffer, Of, Visitors
  <2> QED
    BY <2>1, <2>2 DEF SuccessInv, SuccessWasActive
<1> QED
  BY <1>1, <1>2, <1>3, <1>4 DEF Next, Visitors

\* A deployment is recorded as succeeded only if the route led to its version at
\* some time (reconcile-committed-deployment.js, complete-deployment.js).
THEOREM SuccessesWereActive == ASSUME KindsDiffer PROVE Spec => []SuccessWasActive
<1>1. Init => TypeInv /\ SuccessInv
  BY TypeInit
  DEF Init, SuccessInv, SuccessWasActive, On, KindsDiffer, Records, Visitors, VersionsOf
<1>2. TypeInv /\ SuccessInv /\ [Next]_vars => (TypeInv /\ SuccessInv)'
  BY TypeNext, SuccessNext
<1>3. SuccessInv => SuccessWasActive
  BY DEF SuccessInv
<1> QED
  BY <1>1, <1>2, <1>3, PTL DEF Spec


-----------------------------------------------------------------------------
(* Variables: types.                                                       *)

\* A deployment that goes on to its activation knows the version before it,
\* a sync its Worker; only a deployment that brings variables writes them, or
\* takes them back.
StagesAreReached ==
  /\ \A d \in Deploys :
       /\ progress[d] \in {"prepared", "activated"} => resolved[d] \in Versions
       /\ progress[d] \in {"committing", "restoring"} => d \in Declaring
  /\ \A w \in Writers :
       progress[w] \in {"leased", "read", "pushed"} => resolved[w] \in Versions

ConfigTypeInv == ConfigTypeOK /\ StagesAreReached

WriterStep(w) ==
  \/ MutateVar(w) \/ MutateUnanswered(w) \/ MutateRefused(w) \/ SyncTarget(w) \/ SyncGivesUp(w)
  \/ SyncRead(w) \/ SyncPush(w) \/ SyncPushFails(w) \/ SyncVerify(w)

DeploymentStep(d) ==
  \/ ReadConfig(d) \/ Upload(d) \/ ValidateCommit(d) \/ CommitConfig(d)
  \/ CommitUnread(d) \/ CommitRefused(d) \/ ValidateActivation(d)
  \/ PrepareActivation(d) \/ LockBusy(d) \/ ActivateVersion(d) \/ PublishVersion(d)
  \/ PublishVersionFails(d) \/ RestoreCompare(d) \/ RestoreConfig(d) \/ RestoreRefused(d)

\* What a request that changes a variable leaves alone: the deployments and
\* the route, and every Worker but the one that it found.
LEMMA WriterFrame ==
  ASSUME ConfigTypeOK, NEW w \in Writers, WriterStep(w)
  PROVE  /\ \A d \in Deploys :
              /\ progress'[d] = progress[d] /\ resolved'[d] = resolved[d]
              /\ seen'[d] = seen[d] /\ answer'[d] = answer[d]
         /\ \A v \in Writers \ {w} :
              /\ progress'[v] = progress[v] /\ resolved'[v] = resolved[v]
              /\ seen'[v] = seen[v] /\ answer'[v] = answer[v]
         /\ UNCHANGED <<routed, history>>
         /\ siteLock' \in {siteLock, w, Nobody}
         /\ resolved'[w] # resolved[w] => resolved'[w] = routed /\ siteLock = Nobody
         /\ \A v \in Versions : v # resolved[w] => bindings'[v] = bindings[v]
         /\ progress'[w] \in {"leased", "read", "pushed"} =>
              \/ progress[w] \in {"leased", "read", "pushed"}
              \/ resolved'[w] = routed /\ siteLock' = w
<1>1. /\ w \in Requests /\ w \notin Deploys
      /\ \A d \in Deploys \cup Writers : d \in Requests
  BY ConfigAssumption DEF Requests
<1>2. /\ progress \in [Requests -> Stages] /\ resolved \in [Requests -> Versions \cup {Nobody}]
      /\ DOMAIN seen = Requests /\ DOMAIN answer = Requests /\ DOMAIN bindings = Versions
  BY DEF ConfigTypeOK
<1> USE <1>1, <1>2 DEF locks, bounds, history, Go, Answer
<1>3. CASE MutateVar(w)
  BY <1>3 DEF MutateVar
<1>4. CASE MutateRefused(w)
  BY <1>4 DEF MutateRefused
<1>5. CASE SyncTarget(w)
  BY <1>5 DEF SyncTarget
<1>6. CASE SyncGivesUp(w)
  BY <1>6 DEF SyncGivesUp
<1>7. CASE SyncRead(w)
  BY <1>7 DEF SyncRead, SyncChanged, ReleaseBoth, Free, See
<1>8. CASE SyncPush(w)
  BY <1>8 DEF SyncPush
<1>9. CASE SyncPushFails(w)
  BY <1>9 DEF SyncPushFails, ReleaseBoth, Free
<1>10. CASE SyncVerify(w)
  BY <1>10 DEF SyncVerify, SyncChanged, ReleaseBoth, Free
<1>11. CASE MutateUnanswered(w)
  BY <1>11 DEF MutateUnanswered
<1> QED BY <1>3, <1>4, <1>5, <1>6, <1>7, <1>8, <1>9, <1>10, <1>11 DEF WriterStep

\* What a request does to its own entries.
LEMMA WriterKeepsTypes ==
  ASSUME ConfigTypeInv, NEW w \in Writers,
         WriterStep(w)
  PROVE  ConfigTypeInv'
<1>0. StagesAreReached'
  BY WriterFrame DEF ConfigTypeInv, ConfigTypeOK, StagesAreReached, Versions
<1> SUFFICES ConfigTypeOK'
  BY <1>0 DEF ConfigTypeInv
<1> USE ConfigAssumption DEF ConfigTypeInv, ConfigTypeOK, Requests, Values,
        Versions, Stages, Answers, locks, bounds, history, Go, Answer
<1>1. CASE MutateVar(w)
  <2>1. values' \in Texts
    BY <1>1 DEF MutateVar, Write, Texts
  <2> QED BY <1>1, <2>1 DEF MutateVar, Write
<1>2. CASE MutateRefused(w)
  BY <1>2 DEF MutateRefused
<1>3. CASE SyncTarget(w)
  BY <1>3 DEF SyncTarget
<1>4. CASE SyncGivesUp(w)
  BY <1>4 DEF SyncGivesUp
<1>5. CASE SyncRead(w)
  <2>1. CASE configLock # Nobody \/ routed # resolved[w]
    BY <1>5, <2>1, SMTT(60) DEF SyncRead, SyncChanged, ReleaseBoth, Free
  <2>2. CASE ~(configLock # Nobody \/ routed # resolved[w])
    BY <1>5, <2>2, SMTT(60) DEF SyncRead, See, Reading
  <2> QED BY <2>1, <2>2
<1>6. CASE SyncPush(w)
  BY <1>6 DEF SyncPush
<1>7. CASE SyncPushFails(w)
  BY <1>7, SMTT(60) DEF SyncPushFails, Slip, ReleaseBoth, Free
<1>8. CASE SyncVerify(w)
  <2>1. CASE configLock # w \/ routed # resolved[w]
    BY <1>8, <2>1, SMTT(60) DEF SyncVerify, SyncChanged, ReleaseBoth, Free
  <2>2. CASE ~(configLock # w \/ routed # resolved[w])
    BY <1>8, <2>2, SMTT(60) DEF SyncVerify, ReleaseBoth, Free
  <2> QED BY <2>1, <2>2
<1>9. CASE MutateUnanswered(w)
  <2>1. values' \in Texts
    BY <1>9 DEF MutateUnanswered, Write, Texts
  <2> QED BY <1>9, <2>1 DEF MutateUnanswered, Write, Slip
<1> QED BY <1>1, <1>2, <1>3, <1>4, <1>5, <1>6, <1>7, <1>8, <1>9 DEF WriterStep

LEMMA DeploymentKeepsTypes ==
  ASSUME ConfigTypeInv, NEW d \in Deploys,
         DeploymentStep(d)
  PROVE  ConfigTypeInv'
<1>0. Wanted(d) \in Texts
  BY ConfigAssumption DEF ConfigTypeInv, ConfigTypeOK, Wanted, Everywhere, Texts, Values, Requests
<1> USE ConfigAssumption DEF ConfigTypeInv, ConfigTypeOK, StagesAreReached, Requests, Values,
        Versions, Stages, Answers, locks, bounds, history, Go, Answer, Slip
<1>1. CASE ReadConfig(d)
  BY <1>1 DEF ReadConfig, See, Reading
<1>2. CASE Upload(d)
  BY <1>0, <1>2 DEF Upload
<1>3. CASE ValidateCommit(d)
  BY <1>3 DEF ValidateCommit
<1>4. CASE CommitConfig(d)
  BY <1>0, <1>4 DEF CommitConfig, Replace, Write, See
<1>5. CASE CommitRefused(d)
  BY <1>5 DEF CommitRefused, Reject
<1>6. CASE ValidateActivation(d)
  BY <1>6 DEF ValidateActivation
<1>7. CASE PrepareActivation(d)
  BY <1>7 DEF PrepareActivation, See
<1>8. CASE LockBusy(d)
  BY <1>8 DEF LockBusy
<1>9. CASE ActivateVersion(d)
  BY <1>9 DEF ActivateVersion, Free
<1>10. CASE PublishVersion(d)
  BY <1>10 DEF PublishVersion, Free
<1>11. CASE PublishVersionFails(d)
  BY <1>11 DEF PublishVersionFails, Free
<1>12. CASE RestoreCompare(d)
  BY <1>12 DEF RestoreCompare
<1>13. CASE RestoreConfig(d)
  BY <1>13 DEF RestoreConfig, Replace, Write
<1>14. CASE RestoreRefused(d)
  BY <1>14 DEF RestoreRefused
<1>15. CASE CommitUnread(d)
  BY <1>0, <1>15 DEF CommitUnread, Replace, Write
<1> QED BY <1>1, <1>2, <1>3, <1>4, <1>5, <1>6, <1>7, <1>8, <1>9, <1>10, <1>11, <1>12, <1>13,
           <1>14, <1>15 DEF DeploymentStep

LEMMA LapseKeepsTypes ==
  ASSUME ConfigTypeInv, Lapse
  PROVE  ConfigTypeInv'
BY ConfigAssumption DEF ConfigTypeInv, ConfigTypeOK, StagesAreReached, Lapse, history

LEMMA StutterKeepsTypes ==
  ASSUME ConfigTypeInv, UNCHANGED configVars
  PROVE  ConfigTypeInv'
BY DEF ConfigTypeInv, ConfigTypeOK, StagesAreReached, configVars, Versions, Requests

\* Types, of D1's variables and of every Worker's (values, bindings,
\* runtime-config-mutation.js and runtime-config-sync.js).
THEOREM ConfigTypeCorrect == ConfigSpec => []ConfigTypeInv
<1>1. ConfigInit => ConfigTypeInv
  BY ConfigAssumption DEF ConfigInit, ConfigTypeInv, ConfigTypeOK, StagesAreReached, Requests,
     Versions, Values, Texts, Everywhere, Stages, Answers, Reading
<1>2. ConfigTypeInv /\ [ConfigNext]_configVars => ConfigTypeInv'
  BY WriterKeepsTypes, DeploymentKeepsTypes, LapseKeepsTypes, StutterKeepsTypes
     DEF ConfigNext, WriterStep, DeploymentStep
<1> QED BY <1>1, <1>2, PTL DEF ConfigSpec

-----------------------------------------------------------------------------
(* Variables: what a failed deployment leaves behind.                      *)

Uncommitted == {"new", "resolved", "uploaded", "committing"}

\* A reading is of its time: while nothing is written it says what D1 says.
ReadingsAreOfTheirTime ==
  \A p \in Requests :
    /\ seen[p].generation <= generation
    /\ seen[p].generation = generation => seen[p].values = values
    /\ progress[p] \in Uncommitted /\ seen[p].generation = generation
         => seen[p].original = values

\* What a deployment goes back to is never its own, and before its commit its
\* variables are nowhere.
OwnVariablesAreNew ==
  \A d \in Declaring : \A n \in Names :
    /\ seen[d].original[n] # d
    /\ progress[d] \in Uncommitted =>
         values[n] # d /\ \A p \in Requests : seen[p].original[n] # d

HastyHaveRead == \A e \in hasty : progress[e] # "new"

\* Somebody replaced, without having seen it, what was written after a reading
\* in which n was d's.
Excused(d, n) == \E e \in hasty : seen[e].original[n] = d

\* A deployment that would restore a failed one's variables, and may do so at
\* once, is an excuse waiting to be needed: there is one already.
NothingOfIsLeft(d) ==
  \A n \in Names :
    /\ values[n] = d => Excused(d, n)
    /\ \A e \in Declaring \ hasty :
         /\ Unchanged(e)
         /\ progress[e] \notin Uncommitted
         /\ seen[e].original[n] = d
         => Excused(d, n)

FailedLeaveNothing ==
  \A d \in Declaring \ (unrestored \cup unanswered) : answer[d] = "failed" => NothingOfIsLeft(d)

WithdrawalInv ==
  /\ ConfigTypeInv
  /\ ReadingsAreOfTheirTime
  /\ OwnVariablesAreNew
  /\ HastyHaveRead
  /\ FailedLeaveNothing

LEMMA WithdrawalIsEnough == WithdrawalInv => FailedConfigIsWithdrawn
BY DEF WithdrawalInv, FailedLeaveNothing, NothingOfIsLeft, Excused, FailedConfigIsWithdrawn

LEMMA WithdrawalInit == ConfigInit /\ ConfigTypeInv => WithdrawalInv
BY ConfigAssumption DEF ConfigInit, WithdrawalInv, ReadingsAreOfTheirTime, OwnVariablesAreNew,
   HastyHaveRead, FailedLeaveNothing, Requests, Reading, Everywhere, Uncommitted

\* A step that neither reads nor writes variables, and fails a deployment only
\* before its commit or because its variables could not be taken back.
LEMMA QuietSteps ==
  ASSUME WithdrawalInv, ConfigTypeInv',
         UNCHANGED <<values, generation, seen, unanswered, hasty>>,
         unrestored \subseteq unrestored',
         \A p \in Requests : progress'[p] \in Uncommitted => progress[p] \in Uncommitted,
         \A p \in Requests : progress[p] # "new" => progress'[p] # "new",
         \A d \in Declaring :
           answer'[d] = "failed" =>
             answer[d] = "failed" \/ progress[d] \in Uncommitted \/ d \in unrestored'
  PROVE  WithdrawalInv'
<1> USE DEF WithdrawalInv
<1>1. ReadingsAreOfTheirTime' /\ OwnVariablesAreNew' /\ HastyHaveRead'
  BY ConfigAssumption DEF ReadingsAreOfTheirTime, OwnVariablesAreNew, HastyHaveRead, Requests,
     ConfigTypeInv, ConfigTypeOK
<1>2. ASSUME NEW d \in Declaring, d \notin unrestored' \cup unanswered', answer'[d] = "failed"
      PROVE  NothingOfIsLeft(d)'
  <2>1. ASSUME NEW n \in Names, values[n] = d
        PROVE  Excused(d, n)
    BY <1>2, <2>1 DEF FailedLeaveNothing, NothingOfIsLeft, OwnVariablesAreNew
  <2>2. ASSUME NEW n \in Names, NEW e \in Declaring \ hasty, Unchanged(e),
               progress'[e] \notin Uncommitted, seen[e].original[n] = d
        PROVE  Excused(d, n)
    <3>0. e \in Requests
      BY ConfigAssumption DEF Requests
    <3>1. CASE progress[e] \in Uncommitted
      <4>1. values[n] = d
        BY <2>2, <3>0, <3>1 DEF ReadingsAreOfTheirTime, Unchanged
      <4> QED BY <2>1, <4>1
    <3>2. CASE progress[e] \notin Uncommitted
      <4>1. progress[d] \notin Uncommitted
        BY <2>2, <3>0 DEF OwnVariablesAreNew
      <4> QED BY <1>2, <2>2, <3>2, <4>1 DEF FailedLeaveNothing, NothingOfIsLeft
    <3> QED BY <3>1, <3>2
  <2> QED BY <2>1, <2>2 DEF NothingOfIsLeft, Excused, Unchanged
<1> QED BY <1>1, <1>2 DEF FailedLeaveNothing

\* A reading.
LEMMA ReadingSteps ==
  ASSUME WithdrawalInv, ConfigTypeInv', NEW p \in Requests,
         p \in Declaring => progress[p] = "new" /\ progress'[p] \in Uncommitted,
         UNCHANGED <<values, generation, hasty, unrestored, unanswered, answer>>,
         seen' = [seen EXCEPT ![p] = Reading], p \notin hasty,
         \A q \in Requests \ {p} : progress'[q] = progress[q]
  PROVE  WithdrawalInv'
<1> USE DEF WithdrawalInv
<1>0. /\ seen'[p].generation = generation /\ seen'[p].values = values
      /\ seen'[p].original = values
      /\ \A q \in Requests \ {p} : seen'[q] = seen[q]
  BY DEF Reading, ConfigTypeInv, ConfigTypeOK
<1>1. ReadingsAreOfTheirTime'
  BY <1>0 DEF ReadingsAreOfTheirTime, ConfigTypeInv, ConfigTypeOK
<1>2. OwnVariablesAreNew'
  BY <1>0, ConfigAssumption DEF OwnVariablesAreNew, Requests, Uncommitted
<1>3. HastyHaveRead'
  BY ConfigAssumption DEF HastyHaveRead, Requests, ConfigTypeInv, ConfigTypeOK
<1>4. ASSUME NEW d, NEW n \in Names, Excused(d, n)
      PROVE  Excused(d, n)'
  BY <1>0, <1>4, ConfigAssumption DEF Excused, Requests, ConfigTypeInv, ConfigTypeOK
<1>5. ASSUME NEW d \in Declaring, d \notin unrestored' \cup unanswered', answer'[d] = "failed"
      PROVE  NothingOfIsLeft(d)'
  <2>1. NothingOfIsLeft(d)
    BY <1>5 DEF FailedLeaveNothing
  <2>2. ASSUME NEW n \in Names, values'[n] = d
        PROVE  Excused(d, n)'
    BY <1>4, <2>1, <2>2 DEF NothingOfIsLeft
  <2>3. ASSUME NEW n \in Names, NEW e \in Declaring \ hasty, Unchanged(e)',
               progress'[e] \notin Uncommitted, seen'[e].original[n] = d
        PROVE  Excused(d, n)'
    <3>1. e \in Requests \ {p}
      BY <2>3, ConfigAssumption DEF Requests
    <3>2. Unchanged(e) /\ progress[e] \notin Uncommitted /\ seen[e].original[n] = d
      BY <1>0, <2>3, <3>1 DEF Unchanged
    <3> QED BY <1>4, <2>1, <2>3, <3>2 DEF NothingOfIsLeft
  <2> QED BY <2>2, <2>3 DEF NothingOfIsLeft
<1> QED BY <1>1, <1>2, <1>3, <1>5 DEF FailedLeaveNothing

\* A request that changes one variable: whoever has read is of an earlier time.
LEMMA MutationSteps ==
  ASSUME WithdrawalInv, ConfigTypeInv', NEW w \in Writers, MutateVar(w) \/ MutateUnanswered(w)
  PROVE  WithdrawalInv'
<1> USE DEF WithdrawalInv
<1>0. /\ w \in Requests /\ w \notin Declaring /\ values \in [Names -> Values]
      /\ NameOf[w] \in Names
  BY ConfigAssumption DEF Requests, ConfigTypeInv, ConfigTypeOK, Texts
<1>1. /\ values' = [values EXCEPT ![NameOf[w]] = w] /\ generation' = generation + 1
      /\ UNCHANGED <<seen, hasty, unrestored, unanswered>>
      /\ \E s \in {"mutated", "done"} : progress' = [progress EXCEPT ![w] = s]
      /\ \A d \in Declaring : answer'[d] = answer[d]
  <2>1. DOMAIN answer = Requests /\ Declaring \subseteq Requests
    BY ConfigAssumption DEF ConfigTypeInv, ConfigTypeOK, Requests
  <2>2. CASE MutateVar(w)
    BY <2>2 DEF MutateVar, Write, Go, history
  <2>3. CASE MutateUnanswered(w)
    BY <1>0, <2>1, <2>3 DEF MutateUnanswered, Write, Go, Answer, history
  <2> QED BY <2>2, <2>3
<1>2. \A p \in Requests : ~Unchanged(p)'
  BY <1>1 DEF ReadingsAreOfTheirTime, Unchanged, ConfigTypeInv, ConfigTypeOK
<1>3. \A p \in Requests \ {w} : progress'[p] = progress[p]
  BY <1>1 DEF ConfigTypeInv, ConfigTypeOK
<1>4. \A n \in Names, d \in Declaring : values'[n] = d => values[n] = d
  BY <1>0, <1>1
<1>5. ReadingsAreOfTheirTime'
  BY <1>1, <1>2 DEF ReadingsAreOfTheirTime, Unchanged, ConfigTypeInv, ConfigTypeOK
<1>6. OwnVariablesAreNew'
  BY <1>0, <1>1, <1>3, <1>4, ConfigAssumption DEF OwnVariablesAreNew, Requests
<1>7. HastyHaveRead'
  BY <1>0, <1>1, <1>3, ConfigAssumption DEF HastyHaveRead, Requests, ConfigTypeInv, ConfigTypeOK
<1>8. FailedLeaveNothing'
  BY <1>1, <1>2, <1>4, ConfigAssumption DEF FailedLeaveNothing, NothingOfIsLeft, Excused, Requests
<1> QED BY <1>5, <1>6, <1>7, <1>8

\* The preparation notes the generation that the activation expects.
LEMMA PreparationSteps ==
  ASSUME WithdrawalInv, ConfigTypeInv', NEW d \in Deploys, PrepareActivation(d)
  PROVE  WithdrawalInv'
<1> USE DEF WithdrawalInv
<1>1. /\ UNCHANGED <<values, generation, hasty, unrestored, unanswered, answer>>
      /\ progress[d] = "validated" /\ progress' = [progress EXCEPT ![d] = "prepared"]
      /\ seen' = [seen EXCEPT ![d] = [seen[d] EXCEPT !.expected = generation]]
  BY DEF PrepareActivation, See, Go
<1>2. \A p \in Requests :
        /\ seen'[p].generation = seen[p].generation /\ seen'[p].values = seen[p].values
        /\ seen'[p].original = seen[p].original
  BY <1>1 DEF ConfigTypeInv, ConfigTypeOK, Requests
<1>3. \A p \in Requests :
        /\ progress'[p] \in Uncommitted <=> progress[p] \in Uncommitted
        /\ progress'[p] = "new" <=> progress[p] = "new"
  BY <1>1 DEF ConfigTypeInv, ConfigTypeOK, Uncommitted
<1>4. ReadingsAreOfTheirTime'
  BY <1>1, <1>2, <1>3 DEF ReadingsAreOfTheirTime
<1>5. OwnVariablesAreNew'
  BY <1>1, <1>2, <1>3, ConfigAssumption DEF OwnVariablesAreNew, Requests
<1>6. HastyHaveRead'
  BY <1>1, <1>3, ConfigAssumption DEF HastyHaveRead, Requests, ConfigTypeInv, ConfigTypeOK
<1>7. FailedLeaveNothing'
  <2>1. \A p \in hasty : p \in Requests
    BY DEF ConfigTypeInv, ConfigTypeOK, Requests
  <2>2. \A p \in Declaring : p \in Requests
    BY ConfigAssumption DEF Requests
  <2> QED BY <1>1, <1>2, <1>3, <2>1, <2>2
             DEF FailedLeaveNothing, NothingOfIsLeft, Excused, Unchanged
<1> QED BY <1>4, <1>5, <1>6, <1>7

\* A deployment commits its variables: they are no failed one's.  What was
\* there when it read is there no more, or it is hasty.
LEMMA CommitSteps ==
  ASSUME WithdrawalInv, ConfigTypeInv', NEW e \in Deploys, CommitConfig(e)
  PROVE  WithdrawalInv'
<1> USE DEF WithdrawalInv
<1>0. e \in Requests
  BY DEF Requests
<1>1. /\ progress[e] = "committing" /\ progress' = [progress EXCEPT ![e] = "ready"]
      /\ values' = Wanted(e) /\ generation' = generation + 1
      /\ hasty' = IF Unchanged(e) THEN hasty ELSE hasty \cup {e}
      /\ seen' = [seen EXCEPT ![e] = [values |-> Wanted(e), generation |-> generation + 1,
                    expected |-> seen[e].expected, original |-> seen[e].original]]
      /\ UNCHANGED <<unrestored, unanswered, answer>>
  BY DEF CommitConfig, Replace, Write, See, Go
<1>2. /\ \A p \in Requests \ {e} : seen'[p] = seen[p] /\ progress'[p] = progress[p]
      /\ seen'[e].generation = generation' /\ seen'[e].values = values'
      /\ \A p \in Requests : seen'[p].original = seen[p].original
      /\ progress'[e] = "ready"
  BY <1>0, <1>1 DEF ConfigTypeInv, ConfigTypeOK
<1>3. e \in Declaring /\ \A n \in Names : values'[n] = e
  BY <1>1 DEF ConfigTypeInv, StagesAreReached, Wanted, Everywhere
<1>4. \A p \in Requests \ {e} : ~Unchanged(p)'
  BY <1>1, <1>2 DEF ReadingsAreOfTheirTime, Unchanged, ConfigTypeInv, ConfigTypeOK
<1>5. answer[e] # "failed"
  BY <1>0, <1>1, ConfigAssumption DEF ConfigTypeInv, ConfigTypeOK
<1>6. ReadingsAreOfTheirTime'
  <2>1. ASSUME NEW p \in Requests \ {e}
        PROVE  seen'[p].generation < generation'
    BY <1>1, <1>2, <2>1 DEF ReadingsAreOfTheirTime, ConfigTypeInv, ConfigTypeOK
  <2>2. ASSUME NEW p \in Requests \ {e}
        PROVE  seen'[p].generation <= generation' /\ seen'[p].generation # generation'
    BY <2>1, <2>2 DEF ConfigTypeInv, ConfigTypeOK
  <2>3. generation' <= generation'
    BY DEF ConfigTypeInv, ConfigTypeOK
  <2> QED BY <1>2, <2>2, <2>3 DEF ReadingsAreOfTheirTime, Uncommitted
<1>7. OwnVariablesAreNew'
  BY <1>0, <1>2, <1>3, ConfigAssumption DEF OwnVariablesAreNew, Requests, Uncommitted
<1>8. HastyHaveRead'
  <2>1. hasty \subseteq Requests /\ hasty' \subseteq hasty \cup {e}
    BY <1>1 DEF ConfigTypeInv, ConfigTypeOK, Requests
  <2> QED BY <1>2, <2>1 DEF HastyHaveRead
<1>9. ASSUME NEW d, NEW n, Excused(d, n)
      PROVE  Excused(d, n)'
  <2>1. hasty \subseteq Requests /\ hasty \subseteq hasty'
    BY <1>1 DEF ConfigTypeInv, ConfigTypeOK, Requests
  <2> QED BY <1>2, <1>9, <2>1 DEF Excused
<1>10. ASSUME NEW d \in Declaring, d \notin unrestored' \cup unanswered', answer'[d] = "failed"
       PROVE  NothingOfIsLeft(d)'
  <2>1. NothingOfIsLeft(d) /\ d # e
    BY <1>1, <1>5, <1>10 DEF FailedLeaveNothing
  <2>2. ASSUME NEW n \in Names, NEW q \in Declaring \ hasty', Unchanged(q)',
               seen'[q].original[n] = d
        PROVE  Excused(d, n)'
    <3>1. q = e
      BY <1>4, <2>2, ConfigAssumption DEF Requests
    <3>2. Unchanged(e)
      BY <1>1, <2>2, <3>1
    <3>3. seen[e].original = values
      BY <1>0, <1>1, <3>2 DEF ReadingsAreOfTheirTime, Unchanged, Uncommitted
    <3>4. values[n] = d
      BY <1>0, <1>2, <2>2, <3>1, <3>3
    <3> QED BY <1>9, <2>1, <3>4 DEF NothingOfIsLeft
  <2> QED BY <1>3, <2>1, <2>2 DEF NothingOfIsLeft
<1> QED BY <1>6, <1>7, <1>8, <1>10 DEF FailedLeaveNothing

\* A commit that failed for its deployment leaves the deployment's variables,
\* and nobody else's.
LEMMA UnreadSteps ==
  ASSUME WithdrawalInv, ConfigTypeInv', NEW e \in Deploys, CommitUnread(e)
  PROVE  WithdrawalInv'
<1> USE DEF WithdrawalInv
<1>0. e \in Requests
  BY DEF Requests
<1>1. /\ progress[e] = "committing" /\ progress' = [progress EXCEPT ![e] = "done"]
      /\ values' = Wanted(e) /\ generation' = generation + 1
      /\ hasty \subseteq hasty' /\ hasty' \subseteq hasty \cup {e}
      /\ unanswered' = unanswered \cup {e}
      /\ answer' = [answer EXCEPT ![e] = "failed"]
      /\ UNCHANGED <<seen, unrestored>>
  BY DEF CommitUnread, Replace, Write, Go, Answer
<1>2. /\ \A p \in Requests \ {e} : progress'[p] = progress[p] /\ answer'[p] = answer[p]
      /\ progress'[e] = "done"
  BY <1>0, <1>1 DEF ConfigTypeInv, ConfigTypeOK
<1>3. e \in Declaring /\ \A n \in Names : values'[n] = e
  BY <1>1 DEF ConfigTypeInv, StagesAreReached, Wanted, Everywhere
<1>4. \A p \in Requests : seen'[p].generation <= generation' /\ ~Unchanged(p)'
  BY <1>1 DEF ReadingsAreOfTheirTime, Unchanged, ConfigTypeInv, ConfigTypeOK
<1>5. ReadingsAreOfTheirTime'
  BY <1>4 DEF ReadingsAreOfTheirTime, Unchanged
<1>6. OwnVariablesAreNew'
  BY <1>0, <1>1, <1>2, <1>3, ConfigAssumption DEF OwnVariablesAreNew, Requests, Uncommitted
<1>7. HastyHaveRead'
  <2>1. hasty \subseteq Requests
    BY DEF ConfigTypeInv, ConfigTypeOK, Requests
  <2> QED BY <1>1, <1>2, <2>1 DEF HastyHaveRead
<1>8. FailedLeaveNothing'
  <2>1. ASSUME NEW d \in Declaring, d \notin unrestored' \cup unanswered', answer'[d] = "failed",
               NEW n \in Names
        PROVE  values'[n] # d
    BY <1>1, <1>3, <2>1
  <2> QED BY <1>4, <2>1, ConfigAssumption DEF FailedLeaveNothing, NothingOfIsLeft, Requests
<1> QED BY <1>5, <1>6, <1>7, <1>8

\* A failed deployment takes its variables back: what comes back is nothing of
\* a failed one, or this one replaced more than it had seen.
LEMMA RestorationSteps ==
  ASSUME WithdrawalInv, ConfigTypeInv', NEW e \in Deploys, RestoreConfig(e)
  PROVE  WithdrawalInv'
<1> USE DEF WithdrawalInv
<1>0. e \in Requests
  BY DEF Requests
<1>1. /\ progress[e] = "restoring" /\ progress' = [progress EXCEPT ![e] = "done"]
      /\ values' = seen[e].original /\ generation' = generation + 1
      /\ hasty' = IF Unchanged(e) THEN hasty ELSE hasty \cup {e}
      /\ answer' = [answer EXCEPT ![e] = "failed"]
      /\ UNCHANGED <<seen, unrestored, unanswered>>
  BY DEF RestoreConfig, Replace, Write, Go, Answer
<1>2. /\ \A p \in Requests \ {e} : progress'[p] = progress[p] /\ answer'[p] = answer[p]
      /\ progress'[e] = "done"
  BY <1>0, <1>1 DEF ConfigTypeInv, ConfigTypeOK
<1>3. e \in Declaring
  BY <1>1 DEF ConfigTypeInv, StagesAreReached
<1>4. \A p \in Requests : seen'[p].generation <= generation' /\ ~Unchanged(p)'
  BY <1>1 DEF ReadingsAreOfTheirTime, Unchanged, ConfigTypeInv, ConfigTypeOK
<1>5. hasty \subseteq Requests /\ hasty' \subseteq hasty \cup {e} /\ hasty \subseteq hasty'
  BY <1>1 DEF ConfigTypeInv, ConfigTypeOK, Requests
<1>6. ReadingsAreOfTheirTime'
  BY <1>4 DEF ReadingsAreOfTheirTime, Unchanged
<1>7. OwnVariablesAreNew'
  BY <1>0, <1>1, <1>2, <1>3, ConfigAssumption DEF OwnVariablesAreNew, Requests, Uncommitted
<1>8. HastyHaveRead'
  BY <1>2, <1>5 DEF HastyHaveRead
<1>9. ASSUME NEW d, NEW n, Excused(d, n)
      PROVE  Excused(d, n)'
  BY <1>1, <1>5, <1>9 DEF Excused
<1>10. ASSUME NEW d \in Declaring, d \notin unrestored' \cup unanswered', answer'[d] = "failed",
              NEW n \in Names, values'[n] = d
       PROVE  Excused(d, n)'
  <2>1. d # e /\ d \in Requests /\ seen[e].original[n] = d
    BY <1>1, <1>3, <1>10, ConfigAssumption DEF OwnVariablesAreNew, Requests
  <2>2. NothingOfIsLeft(d)
    BY <1>1, <1>2, <1>10, <2>1 DEF FailedLeaveNothing
  <2>3. CASE e \in hasty'
    BY <1>1, <2>1, <2>3 DEF Excused
  <2>4. CASE e \notin hasty'
    <3>1. Unchanged(e) /\ e \notin hasty
      BY <1>1, <2>4
    <3>2. Excused(d, n)
      BY <1>1, <1>3, <2>1, <2>2, <3>1 DEF NothingOfIsLeft, Uncommitted
    <3> QED BY <1>9, <3>2
  <2> QED BY <2>3, <2>4
<1>11. FailedLeaveNothing'
  BY <1>4, <1>10, ConfigAssumption DEF FailedLeaveNothing, NothingOfIsLeft, Requests
<1> QED BY <1>6, <1>7, <1>8, <1>11

\* A request that changes a variable fails no deployment.
LEMMA WriterKeepsWithdrawal ==
  ASSUME WithdrawalInv, ConfigTypeInv', NEW w \in Writers,
         WriterStep(w)
  PROVE  WithdrawalInv'
<1>1. /\ w \in Requests /\ w \notin Declaring /\ w \notin hasty
      /\ progress \in [Requests -> Stages] /\ answer \in [Requests -> Answers]
      /\ Declaring \subseteq Requests
  BY ConfigAssumption DEF Requests, WithdrawalInv, ConfigTypeInv, ConfigTypeOK
<1>2. CASE MutateVar(w) \/ MutateUnanswered(w)
  BY <1>2, MutationSteps
<1>3. CASE SyncRead(w) /\ seen' # seen
  <2>1. /\ UNCHANGED <<values, generation, hasty, unrestored, unanswered, answer>>
        /\ seen' = [seen EXCEPT ![w] = Reading]
        /\ progress' = [progress EXCEPT ![w] = "read"]
    BY <1>3 DEF SyncRead, SyncChanged, See, Go, history
  <2> QED BY <1>1, <2>1, ReadingSteps
<1>4. CASE ~MutateVar(w) /\ ~MutateUnanswered(w) /\ ~(SyncRead(w) /\ seen' # seen)
  <2>1. /\ UNCHANGED <<values, generation, seen, hasty, unrestored, unanswered>>
        /\ \E s \in Stages \ Uncommitted : progress' = [progress EXCEPT ![w] = s]
        /\ \A d \in Declaring : answer'[d] = answer[d]
    <3> USE <1>1 DEF Go, Answer, history, Stages, Uncommitted
    <3>1. CASE MutateRefused(w)
      BY <3>1 DEF MutateRefused
    <3>2. CASE SyncTarget(w)
      BY <3>2 DEF SyncTarget
    <3>3. CASE SyncGivesUp(w)
      BY <3>3 DEF SyncGivesUp
    <3>4. CASE SyncRead(w)
      BY <1>4, <3>4 DEF SyncRead, SyncChanged
    <3>5. CASE SyncPush(w)
      BY <3>5 DEF SyncPush
    <3>6. CASE SyncPushFails(w)
      BY <3>6 DEF SyncPushFails
    <3>7. CASE SyncVerify(w)
      BY <3>7 DEF SyncVerify, SyncChanged
    <3> QED BY <1>4, <3>1, <3>2, <3>3, <3>4, <3>5, <3>6, <3>7 DEF WriterStep
  <2>2. PICK s \in Stages \ Uncommitted : progress' = [progress EXCEPT ![w] = s]
    BY <2>1
  <2>3. /\ \A p \in Requests : progress'[p] \in Uncommitted => progress[p] \in Uncommitted
        /\ \A p \in Requests : progress[p] # "new" => progress'[p] # "new"
    BY <1>1, <2>2 DEF Uncommitted
  <2> QED BY <2>1, <2>3, QuietSteps
<1> QED BY <1>2, <1>3, <1>4 DEF WriterStep

\* The steps of a deployment that leave D1 as it is.
QuietDeployment(d) ==
  \/ Upload(d) \/ ValidateCommit(d) \/ CommitRefused(d) \/ ValidateActivation(d) \/ LockBusy(d)
  \/ ActivateVersion(d) \/ PublishVersion(d) \/ PublishVersionFails(d)
  \/ RestoreCompare(d) \/ RestoreRefused(d)

LEMMA DeploymentIsQuiet ==
  ASSUME ConfigTypeInv, NEW d \in Deploys, QuietDeployment(d)
  PROVE  /\ UNCHANGED <<values, generation, seen, unanswered, hasty>>
         /\ unrestored \subseteq unrestored'
         /\ \A p \in Requests : progress'[p] \in Uncommitted => progress[p] \in Uncommitted
         /\ \A p \in Requests : progress[p] # "new" => progress'[p] # "new"
         /\ \A c \in Declaring :
              answer'[c] = "failed" =>
                answer[c] = "failed" \/ progress[c] \in Uncommitted \/ c \in unrestored'
<1>1. /\ d \in Requests /\ progress \in [Requests -> Stages] /\ answer \in [Requests -> Answers]
      /\ Declaring \subseteq Requests
  BY ConfigAssumption DEF Requests, ConfigTypeInv, ConfigTypeOK
<1> USE <1>1 DEF Go, Answer, history, Uncommitted
<1>2. CASE Upload(d)
  BY <1>2 DEF Upload
<1>3. CASE ValidateCommit(d)
  BY <1>3 DEF ValidateCommit
<1>4. CASE CommitRefused(d)
  BY <1>4 DEF CommitRefused, Reject
<1>5. CASE ValidateActivation(d)
  BY <1>5 DEF ValidateActivation
<1>6. CASE LockBusy(d)
  BY <1>6 DEF LockBusy
<1>7. CASE ActivateVersion(d)
  BY <1>7 DEF ActivateVersion
<1>8. CASE PublishVersion(d)
  BY <1>8 DEF PublishVersion
<1>9. CASE PublishVersionFails(d)
  BY <1>9 DEF PublishVersionFails
<1>10. CASE RestoreCompare(d)
  BY <1>10 DEF RestoreCompare
<1>11. CASE RestoreRefused(d)
  BY <1>11 DEF RestoreRefused
<1> QED BY <1>2, <1>3, <1>4, <1>5, <1>6, <1>7, <1>8, <1>9, <1>10, <1>11 DEF QuietDeployment

LEMMA DeploymentKeepsWithdrawal ==
  ASSUME WithdrawalInv, ConfigTypeInv', NEW d \in Deploys,
         DeploymentStep(d)
  PROVE  WithdrawalInv'
<1>1. CASE ReadConfig(d)
  <2>1. /\ UNCHANGED <<values, generation, hasty, unrestored, unanswered, answer>>
        /\ seen' = [seen EXCEPT ![d] = Reading]
        /\ progress[d] = "new" /\ progress' = [progress EXCEPT ![d] = "resolved"]
    BY <1>1 DEF ReadConfig, See, Go, history
  <2>2. /\ d \in Requests /\ d \notin hasty
        /\ progress[d] = "new" /\ progress'[d] \in Uncommitted
        /\ \A q \in Requests \ {d} : progress'[q] = progress[q]
    BY <2>1 DEF Requests, WithdrawalInv, HastyHaveRead, ConfigTypeInv, ConfigTypeOK, Uncommitted
  <2> QED BY <2>1, <2>2, ReadingSteps
<1>2. CASE CommitConfig(d)
  BY <1>2, CommitSteps
<1>3. CASE PrepareActivation(d)
  BY <1>3, PreparationSteps
<1>4. CASE RestoreConfig(d)
  BY <1>4, RestorationSteps
<1>5. CASE QuietDeployment(d)
  BY <1>5, DeploymentIsQuiet, QuietSteps DEF WithdrawalInv
<1>6. CASE CommitUnread(d)
  BY <1>6, UnreadSteps
<1> QED BY <1>1, <1>2, <1>3, <1>4, <1>5, <1>6 DEF DeploymentStep, QuietDeployment

LEMMA WithdrawalCorrect == ConfigSpec => []WithdrawalInv
<1>1. ConfigInit /\ ConfigTypeInv => WithdrawalInv
  BY WithdrawalInit
<1>2. WithdrawalInv /\ ConfigTypeInv' /\ [ConfigNext]_configVars => WithdrawalInv'
  <2> SUFFICES ASSUME WithdrawalInv, ConfigTypeInv', [ConfigNext]_configVars
               PROVE  WithdrawalInv'
    OBVIOUS
  <2>1. ASSUME NEW w \in Writers, WriterStep(w)
        PROVE  WithdrawalInv'
    BY <2>1, WriterKeepsWithdrawal
  <2>2. ASSUME NEW d \in Deploys, DeploymentStep(d)
        PROVE  WithdrawalInv'
    BY <2>2, DeploymentKeepsWithdrawal
  <2>3. CASE Lapse \/ UNCHANGED configVars
    BY <2>3, QuietSteps DEF Lapse, history, configVars
  <2> QED BY <2>1, <2>2, <2>3 DEF ConfigNext, WriterStep, DeploymentStep
<1> QED BY <1>1, <1>2, ConfigTypeCorrect, PTL DEF ConfigSpec

\* The variables of a failed deployment are taken back, unless the restoration
\* found them overwritten, or was refused, or the commit itself failed after it had
\* taken effect, or another deployment replaced what it had not seen
\* (restore-runtime-config.js, commit-runtime-config.js).
THEOREM FailedConfigsAreWithdrawn == ConfigSpec => []FailedConfigIsWithdrawn
BY WithdrawalCorrect, WithdrawalIsEnough, PTL

-----------------------------------------------------------------------------
(* Variables: what the active Worker carries.                              *)

Past == {"activated", "failing", "restoring", "done"}

\* A version that leads somewhere, or did when a request read the route, was
\* activated: its deployment uploads nothing any more.
VersionsInUse ==
  /\ routed \in Deploys => progress[routed] \in Past
  /\ \A p \in Requests : resolved[p] \in Deploys => progress[resolved[p]] \in Past

\* While a deployment holds the commit lock, the route leads to the version
\* that it found or to its own, and no sync is about its own.
HolderOwnsRoute ==
  \A d \in Deploys : siteLock = d =>
    /\ progress[d] \in {"prepared", "activated"}
    /\ progress[d] = "prepared" => routed = resolved[d]
    /\ progress[d] = "activated" => routed = d
    /\ \A w \in Writers : progress[w] \in {"leased", "read", "pushed"} => resolved[w] # d

\* Until its activation a Worker carries what its deployment wants, and that
\* is what the deployment has read or written.
WorkersAreWanted ==
  \A d \in Deploys :
    /\ progress[d] \in {"uploaded", "committing", "ready", "validated", "prepared"}
         => bindings[d] = Wanted(d)
    /\ progress[d] \in {"ready", "validated", "prepared"} => seen[d].values = Wanted(d)
    /\ progress[d] = "prepared" /\ d \notin raced => seen[d].expected = seen[d].generation

VersionsInv == VersionsInUse /\ HolderOwnsRoute /\ WorkersAreWanted

LEMMA VersionsInit == ConfigInit => VersionsInv
BY ConfigAssumption DEF ConfigInit, VersionsInv, VersionsInUse, HolderOwnsRoute, WorkersAreWanted,
   Requests

LEMMA WriterKeepsVersions ==
  ASSUME ConfigTypeInv, VersionsInv, NEW w \in Writers, WriterStep(w)
  PROVE  VersionsInv'
<1>1. ConfigTypeOK
  BY DEF ConfigTypeInv
<1>2. VersionsInUse'
  BY <1>1, WriterFrame DEF VersionsInv, VersionsInUse, Requests
<1>3. HolderOwnsRoute'
  BY <1>1, WriterFrame, ConfigAssumption DEF VersionsInv, HolderOwnsRoute, Versions
<1>4. WorkersAreWanted'
  <2>1. ASSUME NEW d \in Deploys, bindings'[d] # bindings[d]
        PROVE  progress[d] \in Past
    BY <1>1, <2>1, WriterFrame DEF VersionsInv, VersionsInUse, Versions, Requests
  <2>2. \A d \in Deploys : Wanted(d)' = Wanted(d) /\ progress'[d] = progress[d]
    BY <1>1, WriterFrame DEF Wanted, Everywhere
  <2>3. \A d \in Deploys : seen'[d] = seen[d] /\ raced' = raced
    BY <1>1, WriterFrame DEF history
  <2> QED BY <2>1, <2>2, <2>3 DEF VersionsInv, WorkersAreWanted, Past
<1> QED BY <1>2, <1>3, <1>4 DEF VersionsInv

LEMMA DeploymentKeepsVersions ==
  ASSUME ConfigTypeInv, ReadingsAreOfTheirTime, VersionsInv, NEW d \in Deploys, DeploymentStep(d)
  PROVE  VersionsInv'
<1>1. \A e \in Deploys : e \in Requests /\ e # Nobody /\ e \notin Writers
  BY ConfigAssumption DEF Requests
<1>2. \A w \in Writers : w \in Requests
  BY DEF Requests
<1> USE <1>1, <1>2 DEF ConfigTypeInv, ConfigTypeOK, StagesAreReached, VersionsInv, VersionsInUse,
        HolderOwnsRoute, WorkersAreWanted, Versions, Wanted, locks, bounds, history, Go, Answer,
        Past
<1>3. CASE ReadConfig(d)
  BY <1>3 DEF ReadConfig, See, Reading
<1>4. CASE Upload(d)
  BY <1>4 DEF Upload
<1>5. CASE ValidateCommit(d)
  BY <1>5 DEF ValidateCommit
<1>6. CASE CommitConfig(d)
  BY <1>6 DEF CommitConfig, Replace, Write, See
<1>7. CASE CommitRefused(d)
  BY <1>7 DEF CommitRefused, Reject
<1>8. CASE ValidateActivation(d)
  BY <1>8 DEF ValidateActivation
<1>9. CASE PrepareActivation(d)
  <2>1. /\ seen'[d].expected = generation
        /\ seen'[d].values = seen[d].values /\ seen'[d].generation = seen[d].generation
        /\ \A p \in Requests \ {d} : seen'[p] = seen[p]
    BY <1>9 DEF PrepareActivation, See
  <2>2. /\ progress[d] = "validated" /\ progress' = [progress EXCEPT ![d] = "prepared"]
        /\ resolved' = [resolved EXCEPT ![d] = routed] /\ siteLock' = d
        /\ d \notin raced' => Unchanged(d)
        /\ raced \subseteq raced'
        /\ UNCHANGED <<routed, bindings>>
    BY <1>9 DEF PrepareActivation
  <2>3. VersionsInUse'
    BY <2>2
  <2>4. HolderOwnsRoute'
    BY <2>2
  <2>5. WorkersAreWanted'
    BY <2>1, <2>2 DEF Unchanged
  <2> QED BY <2>3, <2>4, <2>5
<1>10. CASE LockBusy(d)
  BY <1>10 DEF LockBusy
<1>11. CASE ActivateVersion(d)
  BY <1>11 DEF ActivateVersion, Free
<1>12. CASE PublishVersion(d)
  BY <1>12 DEF PublishVersion, Free
<1>13. CASE PublishVersionFails(d)
  BY <1>13 DEF PublishVersionFails, Free
<1>14. CASE RestoreCompare(d)
  BY <1>14 DEF RestoreCompare
<1>15. CASE RestoreConfig(d)
  BY <1>15 DEF RestoreConfig, Replace, Write
<1>16. CASE RestoreRefused(d)
  BY <1>16 DEF RestoreRefused
<1>17. CASE CommitUnread(d)
  BY <1>17 DEF CommitUnread, Replace, Write
<1> QED BY <1>3, <1>4, <1>5, <1>6, <1>7, <1>8, <1>9, <1>10, <1>11, <1>12, <1>13, <1>14, <1>15,
           <1>16, <1>17 DEF DeploymentStep

\* Nothing has happened that voids the promise: no deployment was raced or took
\* its variables back, no sync failed or lost its lock.
Clean ==
  /\ raced = {}
  /\ \A w \in Writers :
       /\ answer[w] \notin {"failed", "changed"}
       /\ progress[w] \in {"read", "pushed"} => configLock = w
  /\ \A d \in Declaring : answer[d] # "failed" /\ progress[d] \notin {"failing", "restoring"}

\* Whoever wrote a value has seen it to a Worker.
Settled(x) ==
  /\ x \in Writers => answer[x] = "active_worker"
  /\ x \in Declaring => progress[x] = "activated" \/ answer[x] = "succeeded"

\* A Worker carries D1's variables, or somebody still has to see to it.
Carries(v) == bindings[v] = values \/ \E n \in Names : ~Settled(values[n])

\* A sync under the runtime lock has read what D1 says, and has written it.
SyncsAreRight ==
  \A w \in Writers :
    /\ progress[w] \in {"read", "pushed"} => seen[w].values = values
    /\ progress[w] = "pushed" => bindings[resolved[w]] = values

\* So does the version that a deployment without variables of its own goes back
\* to when it cannot be published.
CarriedInv ==
  Clean =>
    /\ Carries(routed)
    /\ \A d \in Deploys \ Declaring : siteLock = d => Carries(resolved[d])
    /\ SyncsAreRight

ReachInv == WithdrawalInv /\ VersionsInv /\ CarriedInv

LEMMA CarriedIsEnough == ReachInv => ConfigReachesWorker
<1> SUFFICES ASSUME ReachInv, Quiet, raced = {},
                    \A w \in Writers : answer[w] \notin {"failed", "changed"},
                    \A d \in Declaring : answer[d] \in {Nobody, "succeeded"},
                    \A n \in Names : values[n] \in Writers => answer[values[n]] = "active_worker"
             PROVE  bindings[routed] = values
  BY DEF ConfigReachesWorker
<1>1. \A p \in Requests : progress[p] \in {"new", "done"}
  BY DEF Quiet
<1>2. Clean
  BY <1>1, ConfigAssumption DEF Clean, Requests
<1>3. \A d \in Declaring : progress[d] = "done" => answer[d] = "succeeded"
  BY ConfigAssumption
     DEF ReachInv, WithdrawalInv, ConfigTypeInv, ConfigTypeOK, Requests
<1>4. ASSUME NEW n \in Names, values[n] \in Declaring
      PROVE  progress[values[n]] = "done"
  BY <1>1, <1>4, ConfigAssumption
     DEF ReachInv, WithdrawalInv, OwnVariablesAreNew, Uncommitted, Requests
<1>5. \A n \in Names : Settled(values[n])
  BY <1>3, <1>4 DEF Settled
<1> QED BY <1>2, <1>5 DEF ReachInv, CarriedInv, Carries

LEMMA CarriedInit == ConfigInit => CarriedInv
BY ConfigAssumption DEF ConfigInit, CarriedInv, Carries, SyncsAreRight, Requests, Versions,
   Everywhere

\* A step that leaves D1, the Workers and the route alone, settles nothing and
\* begins no sync.
LEMMA FrameOfCarried ==
  ASSUME CarriedInv, Clean' => Clean,
         UNCHANGED <<values, bindings, routed>>,
         \A d \in Deploys : siteLock' = d => siteLock = d /\ resolved'[d] = resolved[d],
         \A w \in Writers : progress'[w] \in {"read", "pushed"} =>
           /\ progress'[w] = progress[w] /\ resolved'[w] = resolved[w]
           /\ seen'[w].values = seen[w].values,
         \A n \in Names : Settled(values[n])' => Settled(values[n])
  PROVE  CarriedInv'
<1> SUFFICES ASSUME Clean'
             PROVE  /\ Carries(routed)'
                    /\ \A d \in Deploys \ Declaring : siteLock' = d => Carries(resolved[d])'
                    /\ SyncsAreRight'
  BY DEF CarriedInv
<1>1. /\ Carries(routed)
      /\ \A d \in Deploys \ Declaring : siteLock = d => Carries(resolved[d])
      /\ SyncsAreRight
  BY DEF CarriedInv
<1>2. Carries(routed)'
  BY <1>1 DEF Carries
<1>3. \A d \in Deploys \ Declaring : siteLock' = d => Carries(resolved[d])'
  BY <1>1 DEF Carries
<1>4. SyncsAreRight'
  BY <1>1 DEF SyncsAreRight
<1> QED BY <1>2, <1>3, <1>4

\* What voids the promise is not undone: a sync that lost its lock has only to
\* say so.
LEMMA WriterKeepsCleanness ==
  ASSUME ConfigTypeInv, NEW w \in Writers, WriterStep(w), Clean'
  PROVE  Clean
<1>1. /\ w \in Requests /\ w \notin Declaring /\ w # Nobody
      /\ \A v \in Writers \cup Declaring : v \in Requests
      /\ progress \in [Requests -> Stages] /\ answer \in [Requests -> Answers]
  BY ConfigAssumption DEF Requests, ConfigTypeInv, ConfigTypeOK
<1>2. /\ raced = {}
      /\ \A d \in Declaring : answer[d] # "failed" /\ progress[d] \notin {"failing", "restoring"}
  BY WriterFrame, ConfigAssumption DEF ConfigTypeInv, Clean, history
<1>3. ASSUME NEW v \in Writers \ {w}
      PROVE  /\ answer[v] \notin {"failed", "changed"}
             /\ progress[v] \in {"read", "pushed"} => configLock = v
  <2>1. /\ answer[v] = answer'[v] /\ progress[v] = progress'[v]
    BY <1>3, WriterFrame DEF ConfigTypeInv
  <2>2. configLock' = v => configLock = v
    BY <1>1, <1>3, ConfigAssumption
       DEF WriterStep, MutateVar, MutateUnanswered, MutateRefused, SyncTarget, SyncGivesUp, SyncRead,
           SyncPush, SyncPushFails, SyncVerify, SyncChanged, ReleaseBoth, Free, locks
  <2> QED BY <2>1, <2>2 DEF Clean
<1>4. /\ answer[w] \notin {"failed", "changed"}
      /\ progress[w] \in {"read", "pushed"} => configLock = w
  <2>0. /\ answer'[w] \notin {"failed", "changed"}
        /\ progress'[w] \in {"read", "pushed"} => configLock' = w
        /\ progress[w] # "done" => answer[w] = Nobody
    BY <1>1 DEF Clean, ConfigTypeInv, ConfigTypeOK
  <2> USE <1>1, <2>0, ConfigAssumption DEF Go, Answer, locks
  <2>1. CASE MutateVar(w)
    BY <2>1 DEF MutateVar
  <2>2. CASE MutateRefused(w)
    BY <2>2 DEF MutateRefused
  <2>3. CASE SyncTarget(w)
    BY <2>3 DEF SyncTarget
  <2>4. CASE SyncGivesUp(w)
    BY <2>4 DEF SyncGivesUp
  <2>5. CASE SyncRead(w)
    BY <2>5 DEF SyncRead
  <2>6. CASE SyncPush(w)
    BY <2>6 DEF SyncPush
  <2>7. CASE SyncPushFails(w)
    BY <2>7 DEF SyncPushFails
  <2>8. CASE SyncVerify(w)
    BY <2>8 DEF SyncVerify, SyncChanged
  <2>9. CASE MutateUnanswered(w)
    BY <2>9 DEF MutateUnanswered
  <2> QED BY <2>1, <2>2, <2>3, <2>4, <2>5, <2>6, <2>7, <2>8, <2>9 DEF WriterStep
<1> QED BY <1>2, <1>3, <1>4 DEF Clean

\* What a deployment leaves alone: the other requests.
LEMMA DeploymentFrame ==
  ASSUME ConfigTypeOK, NEW d \in Deploys, DeploymentStep(d)
  PROVE  /\ \A p \in Requests \ {d} :
              /\ progress'[p] = progress[p] /\ resolved'[p] = resolved[p]
              /\ seen'[p] = seen[p] /\ answer'[p] = answer[p]
         /\ configLock' = configLock /\ raced \subseteq raced'
         /\ siteLock' \in {siteLock, d, Nobody}
         /\ \A v \in Versions : v # d => bindings'[v] = bindings[v]
         /\ routed' # routed => ActivateVersion(d) \/ PublishVersionFails(d)
         /\ values' # values => CommitConfig(d) \/ CommitUnread(d) \/ RestoreConfig(d)
         /\ bindings' # bindings => Upload(d)
<1>1. /\ d \in Requests
      /\ DOMAIN progress = Requests /\ DOMAIN resolved = Requests
      /\ DOMAIN seen = Requests /\ DOMAIN answer = Requests /\ DOMAIN bindings = Versions
  BY DEF ConfigTypeOK, Requests
<1> USE <1>1 DEF locks, bounds, history, Go, Answer
<1>3. CASE ReadConfig(d)
  BY <1>3 DEF ReadConfig, See
<1>4. CASE Upload(d)
  BY <1>4 DEF Upload
<1>5. CASE ValidateCommit(d)
  BY <1>5 DEF ValidateCommit
<1>6. CASE CommitConfig(d)
  BY <1>6 DEF CommitConfig, See
<1>7. CASE CommitRefused(d)
  BY <1>7 DEF CommitRefused, Reject
<1>8. CASE ValidateActivation(d)
  BY <1>8 DEF ValidateActivation
<1>9. CASE PrepareActivation(d)
  BY <1>9 DEF PrepareActivation, See
<1>10. CASE LockBusy(d)
  BY <1>10 DEF LockBusy
<1>11. CASE ActivateVersion(d)
  BY <1>11 DEF ActivateVersion, Free
<1>12. CASE PublishVersion(d)
  BY <1>12 DEF PublishVersion, Free
<1>13. CASE PublishVersionFails(d)
  BY <1>13 DEF PublishVersionFails, Free
<1>14. CASE RestoreCompare(d)
  BY <1>14 DEF RestoreCompare
<1>15. CASE RestoreConfig(d)
  BY <1>15 DEF RestoreConfig
<1>16. CASE RestoreRefused(d)
  BY <1>16 DEF RestoreRefused
<1>17. CASE CommitUnread(d)
  BY <1>17 DEF CommitUnread
<1> QED BY <1>3, <1>4, <1>5, <1>6, <1>7, <1>8, <1>9, <1>10, <1>11, <1>12, <1>13, <1>14, <1>15,
           <1>16, <1>17 DEF DeploymentStep

LEMMA DeploymentKeepsCleanness ==
  ASSUME ConfigTypeInv, NEW d \in Deploys, DeploymentStep(d), Clean'
  PROVE  Clean
<1>1. /\ d \in Requests /\ d \notin Writers
      /\ \A v \in Writers \cup Declaring : v \in Requests
      /\ progress \in [Requests -> Stages] /\ answer \in [Requests -> Answers]
  BY ConfigAssumption DEF Requests, ConfigTypeInv, ConfigTypeOK
<1>2. /\ raced = {}
      /\ \A w \in Writers :
           /\ answer[w] \notin {"failed", "changed"}
           /\ progress[w] \in {"read", "pushed"} => configLock = w
  BY <1>1, DeploymentFrame DEF ConfigTypeInv, Clean
<1>3. \A e \in Declaring \ {d} :
        answer[e] # "failed" /\ progress[e] \notin {"failing", "restoring"}
  BY <1>1, DeploymentFrame DEF ConfigTypeInv, Clean
<1>4. CASE d \in Declaring
  <2>1. answer'[d] # "failed" /\ progress'[d] \notin {"failing", "restoring"}
    BY <1>4 DEF Clean
  <2>2. progress[d] # "done" => answer[d] = Nobody
    BY <1>1 DEF ConfigTypeInv, ConfigTypeOK
  <2>3. progress[d] # "done" /\ progress[d] \notin {"failing", "restoring"}
    BY <1>1, <2>1 DEF DeploymentStep, ReadConfig, Upload, ValidateCommit, CommitConfig,
       CommitUnread, CommitRefused, ValidateActivation, PrepareActivation, LockBusy, ActivateVersion,
       PublishVersion, PublishVersionFails, RestoreCompare, RestoreConfig, RestoreRefused, Reject,
       Go, Answer
  <2> QED BY <1>2, <1>3, <2>2, <2>3, ConfigAssumption DEF Clean
<1> QED BY <1>2, <1>3, <1>4 DEF Clean

LEMMA WriterKeepsCarried ==
  ASSUME WithdrawalInv, VersionsInv, CarriedInv, NEW w \in Writers, WriterStep(w)
  PROVE  CarriedInv'
<1>0. Clean' => Clean
  BY WriterKeepsCleanness DEF WithdrawalInv
<1> SUFFICES ASSUME Clean' PROVE CarriedInv'
  BY DEF CarriedInv
<1>1. /\ Carries(routed) /\ SyncsAreRight
      /\ \A d \in Deploys \ Declaring : siteLock = d => Carries(resolved[d])
  BY <1>0 DEF CarriedInv
<1>2. /\ \A v \in Writers : progress[v] \in {"read", "pushed"} => configLock = v
      /\ ConfigTypeOK /\ StagesAreReached
      /\ w \in Requests /\ w # Nobody
      /\ \A d \in Deploys : d # w /\ d # Nobody
  BY <1>0, ConfigAssumption DEF Clean, WithdrawalInv, ConfigTypeInv, Requests
<1>3. /\ \A d \in Deploys : siteLock' = d => siteLock = d /\ resolved'[d] = resolved[d]
      /\ \A v \in Writers \ {w} :
           /\ progress'[v] = progress[v] /\ resolved'[v] = resolved[v] /\ seen'[v] = seen[v]
      /\ routed' = routed
  BY <1>2, WriterFrame
<1>4. \A x : answer'[w] # "active_worker" \/ x # w => (Settled(x)' => Settled(x))
  BY <1>2, WriterFrame, ConfigAssumption DEF Settled
<1>5. CASE MutateVar(w)
  <2>1. /\ values' = [values EXCEPT ![NameOf[w]] = w] /\ configLock = Nobody
        /\ UNCHANGED <<bindings, answer>> /\ progress[w] = "new"
        /\ progress' = [progress EXCEPT ![w] = "mutated"]
    BY <1>5 DEF MutateVar, Write, Go
  <2>2. NameOf[w] \in Names /\ values'[NameOf[w]] = w
    BY <1>2, <2>1, ConfigAssumption DEF ConfigTypeOK, Texts
  <2>3. answer[w] # "active_worker"
    BY <1>2, <2>1, ConfigAssumption DEF ConfigTypeOK
  <2>4. \A v : Carries(v)'
    BY <2>1, <2>2, <2>3 DEF Carries, Settled
  <2>5. \A v \in Writers : progress'[v] \notin {"read", "pushed"}
    BY <1>2, <2>1, ConfigAssumption DEF ConfigTypeOK, Requests
  <2> QED BY <2>4, <2>5 DEF CarriedInv, SyncsAreRight
<1>6. CASE SyncRead(w)
  <2>1. /\ UNCHANGED <<values, bindings, resolved>>
        /\ \/ progress' = [progress EXCEPT ![w] = "read"] /\ seen' = [seen EXCEPT ![w] = Reading]
              /\ answer' = answer /\ progress[w] = "leased"
           \/ progress' = [progress EXCEPT ![w] = "done"] /\ answer'[w] = "changed"
    BY <1>2, <1>6 DEF SyncRead, SyncChanged, See, Go, Answer, ConfigTypeOK
  <2>2. answer'[w] # "active_worker"
    BY <1>2, <2>1, ConfigAssumption DEF ConfigTypeOK
  <2>3. /\ progress'[w] \in {"read", "pushed"} => seen'[w].values = values
        /\ progress'[w] # "pushed"
    BY <1>2, <2>1 DEF Reading, ConfigTypeOK
  <2>4. SyncsAreRight'
    BY <1>1, <1>3, <2>1, <2>3 DEF SyncsAreRight
  <2>5. \A v : Carries(v) => Carries(v)'
    BY <1>4, <2>1, <2>2 DEF Carries
  <2> QED BY <1>1, <1>3, <2>1, <2>4, <2>5 DEF CarriedInv
<1>7. CASE SyncPush(w)
  <2>1. /\ UNCHANGED <<values, resolved, answer, seen>>
        /\ progress[w] = "read" /\ progress' = [progress EXCEPT ![w] = "pushed"]
        /\ bindings' = [bindings EXCEPT ![resolved[w]] = seen[w].values]
    BY <1>7 DEF SyncPush, Go
  <2>2. seen[w].values = values /\ resolved[w] \in Versions
    BY <1>1, <1>2, <2>1 DEF SyncsAreRight, StagesAreReached
  <2>3. \A v \in Versions : bindings'[v] = IF v = resolved[w] THEN values ELSE bindings[v]
    BY <1>2, <2>1, <2>2 DEF ConfigTypeOK
  <2>4. \A v \in Writers \ {w} : progress'[v] \notin {"read", "pushed"}
    BY <1>2, <1>3, <2>1
  <2>5. SyncsAreRight'
    BY <2>1, <2>2, <2>3, <2>4 DEF SyncsAreRight
  <2>6. answer[w] # "active_worker"
    BY <1>2, <2>1, ConfigAssumption DEF ConfigTypeOK
  <2>7. \A v \in Versions : Carries(v) => Carries(v)'
    BY <1>4, <2>1, <2>3, <2>6 DEF Carries
  <2>8. \A d \in Deploys : siteLock = d => resolved[d] \in Versions
    BY <1>2 DEF VersionsInv, HolderOwnsRoute, StagesAreReached
  <2> QED BY <1>1, <1>2, <1>3, <2>1, <2>5, <2>7, <2>8 DEF CarriedInv, ConfigTypeOK
<1>8. CASE SyncVerify(w)
  <2>1. /\ UNCHANGED <<values, bindings, resolved, seen>> /\ progress[w] = "pushed"
        /\ progress' = [progress EXCEPT ![w] = "done"]
        /\ answer'[w] = "changed" \/ routed = resolved[w]
    BY <1>2, <1>8 DEF SyncVerify, SyncChanged, Go, Answer, ConfigTypeOK
  <2>2. routed = resolved[w] /\ bindings[routed] = values
    BY <1>1, <2>1 DEF Clean, SyncsAreRight
  <2>3. \A d \in Deploys : siteLock = d => resolved[d] = routed
    BY <2>1, <2>2 DEF VersionsInv, HolderOwnsRoute
  <2>4. SyncsAreRight'
    BY <1>1, <1>2, <1>3, <2>1 DEF SyncsAreRight, ConfigTypeOK
  <2> QED BY <1>3, <2>1, <2>2, <2>3, <2>4 DEF CarriedInv, Carries
<1>9. CASE \/ MutateUnanswered(w) \/ MutateRefused(w) \/ SyncTarget(w) \/ SyncGivesUp(w)
           \/ SyncPushFails(w)
  <2>1. ~SyncPushFails(w) /\ ~MutateUnanswered(w)
    BY <1>2 DEF SyncPushFails, MutateUnanswered, Answer, Clean, ConfigTypeOK
  <2>2. /\ UNCHANGED <<values, bindings>> /\ answer'[w] # "active_worker"
        /\ progress'[w] \notin {"read", "pushed"}
    BY <1>2, <1>9, <2>1, ConfigAssumption
       DEF MutateRefused, SyncTarget, SyncGivesUp, Go, Answer, ConfigTypeOK
  <2>3. \A v \in Writers : progress'[v] \in {"read", "pushed"} =>
          /\ progress'[v] = progress[v] /\ resolved'[v] = resolved[v]
          /\ seen'[v].values = seen[v].values
    BY <1>3, <2>2
  <2>4. \A n \in Names : Settled(values[n])' => Settled(values[n])
    BY <1>4, <2>2
  <2> QED BY <1>0, <1>3, <2>2, <2>3, <2>4, FrameOfCarried
<1> QED BY <1>5, <1>6, <1>7, <1>8, <1>9 DEF WriterStep

\* A commit leaves the deployment's own variables, which it has to see to.
LEMMA CommitKeepsCarried ==
  ASSUME WithdrawalInv, VersionsInv, Clean, NEW d \in Deploys, CommitConfig(d)
  PROVE  CarriedInv'
<1>1. /\ progress[d] = "committing" /\ progress' = [progress EXCEPT ![d] = "ready"]
      /\ values' = Wanted(d) /\ configLock = Nobody
      /\ UNCHANGED <<bindings, routed, siteLock, resolved, answer>>
  BY DEF CommitConfig, Replace, Write, Go, locks
<1>2. ConfigTypeOK /\ StagesAreReached /\ d \in Requests /\ d \notin Writers
  BY ConfigAssumption DEF WithdrawalInv, ConfigTypeInv, Requests
<1>3. d \in Declaring /\ values' = [n \in Names |-> d]
  BY <1>1, <1>2 DEF StagesAreReached, Wanted, Everywhere
<1>4. answer[d] # "succeeded" /\ progress'[d] = "ready"
  BY <1>1, <1>2, ConfigAssumption DEF ConfigTypeOK
<1>5. ASSUME NEW v \in Versions
      PROVE  Carries(v)'
  <2>1. CASE Names = {}
    <3>1. bindings[v] \in [{} -> Values] /\ values' \in [{} -> {d}]
      BY <1>2, <1>3, <2>1 DEF ConfigTypeOK, Texts
    <3>2. bindings[v] = [n \in {} |-> d] /\ values' = [n \in {} |-> d]
      BY <1>3, <2>1, <3>1
    <3> QED BY <1>1, <3>2 DEF Carries
  <2>2. CASE Names # {}
    <3>1. PICK n \in Names : TRUE
      BY <2>2
    <3>2. values'[n] = d /\ ~Settled(d)'
      BY <1>1, <1>3, <1>4 DEF Settled
    <3> QED BY <3>2 DEF Carries
  <2> QED BY <2>1, <2>2
<1>6. \A e \in Deploys : siteLock = e => resolved[e] \in Versions
  BY <1>2 DEF VersionsInv, HolderOwnsRoute, StagesAreReached
<1>7. SyncsAreRight'
  <2>1. \A w \in Writers : progress[w] \notin {"read", "pushed"} /\ w \in Requests /\ w # d
    BY <1>1, <1>2, ConfigAssumption DEF Clean, Requests
  <2>2. \A w \in Writers : progress'[w] \notin {"read", "pushed"}
    BY <1>1, <2>1 DEF ConfigTypeOK
  <2> QED BY <2>2 DEF SyncsAreRight
<1>8. routed \in Versions
  BY <1>2 DEF ConfigTypeOK
<1> QED BY <1>1, <1>5, <1>6, <1>7, <1>8 DEF CarriedInv

\* The version that is activated carries what D1 says: nothing was written
\* since its deployment had read it, or had written it itself.
LEMMA ActivatedCarries ==
  ASSUME WithdrawalInv, VersionsInv, Clean, NEW d \in Deploys, ActivateVersion(d), siteLock = d,
         generation = seen[d].expected
  PROVE  bindings[d] = values
<1>1. progress[d] = "prepared" /\ d \notin raced /\ d \in Requests
  BY DEF ActivateVersion, Clean, Requests
<1>2. seen[d].generation = generation
  BY <1>1 DEF VersionsInv, WorkersAreWanted
<1>3. seen[d].values = values
  BY <1>1, <1>2 DEF WithdrawalInv, ReadingsAreOfTheirTime
<1> QED BY <1>1, <1>3 DEF VersionsInv, WorkersAreWanted

LEMMA DeploymentKeepsCarried ==
  ASSUME WithdrawalInv, VersionsInv, CarriedInv, NEW d \in Deploys, DeploymentStep(d)
  PROVE  CarriedInv'
<1>0. Clean' => Clean
  BY DeploymentKeepsCleanness DEF WithdrawalInv
<1> SUFFICES ASSUME Clean' PROVE CarriedInv'
  BY DEF CarriedInv
<1>1. /\ Clean
      /\ Carries(routed) /\ SyncsAreRight
      /\ \A e \in Deploys \ Declaring : siteLock = e => Carries(resolved[e])
  BY <1>0 DEF CarriedInv
<1>2. /\ ConfigTypeOK /\ StagesAreReached
      /\ d \in Requests /\ d # Nobody /\ d \notin Writers
      /\ \A p \in Writers \cup Declaring : p \in Requests
      /\ \A e \in Deploys : e # Nobody
  BY ConfigAssumption DEF WithdrawalInv, ConfigTypeInv, Requests
<1>3. /\ \A p \in Requests \ {d} :
           /\ progress'[p] = progress[p] /\ resolved'[p] = resolved[p]
           /\ seen'[p] = seen[p] /\ answer'[p] = answer[p]
      /\ \A e \in Deploys \ {d} : siteLock' = e => siteLock = e /\ resolved'[e] = resolved[e]
      /\ \A v \in Versions : v # d => bindings'[v] = bindings[v]
      /\ d \in Declaring => answer'[d] # "failed" /\ progress'[d] \notin {"failing", "restoring"}
  BY <1>2, DeploymentFrame DEF Clean, Requests
<1>4. ASSUME NEW x, d \notin Declaring \/ ~Settled(d)' \/ Settled(d), Settled(x)'
      PROVE  Settled(x)
  BY <1>2, <1>3, <1>4 DEF Settled
<1>5. ASSUME bindings' = bindings, values' = values
      PROVE  SyncsAreRight'
  BY <1>1, <1>2, <1>3, <1>5 DEF SyncsAreRight
<1>6. CASE Upload(d)
  <2>1. /\ progress[d] = "resolved" /\ UNCHANGED <<values, routed, resolved, siteLock>>
        /\ ~Settled(d)' \/ d \notin Declaring
    BY <1>2, <1>6, ConfigAssumption DEF Upload, Go, Answer, Settled, locks, ConfigTypeOK
  <2>2. routed # d /\ \A p \in Requests : resolved[p] # d
    BY <2>1 DEF VersionsInv, VersionsInUse, Past
  <2>3. \A v \in Versions \ {d} : Carries(v) => Carries(v)'
    BY <1>3, <1>4, <2>1 DEF Carries
  <2>4. \A e \in Deploys : siteLock = e => resolved[e] \in Versions
    BY <1>2 DEF VersionsInv, HolderOwnsRoute, StagesAreReached
  <2>5. SyncsAreRight'
    BY <1>1, <1>2, <1>3, <2>1, <2>2 DEF SyncsAreRight, StagesAreReached
  <2>6. routed \in Versions /\ \A e \in Deploys : e \in Requests
    BY <1>2 DEF ConfigTypeOK, Requests
  <2> QED BY <1>1, <2>1, <2>2, <2>3, <2>4, <2>5, <2>6 DEF CarriedInv
<1>7. CASE CommitConfig(d)
  BY <1>1, <1>7, CommitKeepsCarried
<1>8. CASE PrepareActivation(d)
  <2>1. /\ UNCHANGED <<values, bindings, routed, answer>> /\ resolved'[d] = routed
        /\ progress' = [progress EXCEPT ![d] = "prepared"] /\ siteLock' = d
        /\ progress[d] = "validated"
    BY <1>2, <1>8 DEF PrepareActivation, Go, ConfigTypeOK
  <2>2. answer[d] # "succeeded" /\ progress'[d] # "activated"
    BY <1>2, <2>1, ConfigAssumption DEF ConfigTypeOK
  <2>3. \A v : Carries(v) => Carries(v)'
    BY <1>4, <2>1, <2>2 DEF Carries, Settled
  <2> QED BY <1>1, <1>5, <2>1, <2>3 DEF CarriedInv
<1>9. CASE ActivateVersion(d)
  <2>1. UNCHANGED <<values, bindings, resolved>>
    BY <1>9 DEF ActivateVersion
  <2>2. CASE siteLock = d /\ generation = seen[d].expected
    <3>1. routed' = d /\ siteLock' = d
      BY <1>9, <2>2 DEF ActivateVersion
    <3>2. Carries(routed)'
      BY <1>1, <1>9, <2>1, <2>2, <3>1, ActivatedCarries DEF Carries
    <3>3. \A e \in Deploys \ Declaring : siteLock' = e => Carries(resolved[e])'
      <4>1. ASSUME d \notin Declaring PROVE Carries(resolved[d])'
        BY <1>1, <1>4, <2>1, <2>2, <4>1 DEF Carries
      <4> QED BY <3>1, <4>1
    <3> QED BY <1>5, <2>1, <3>2, <3>3 DEF CarriedInv
  <2>3. CASE ~(siteLock = d /\ generation = seen[d].expected)
    <3>1. /\ progress'[d] = "failing" /\ UNCHANGED <<routed, answer>>
          /\ siteLock' = Free(siteLock, d)
      BY <1>2, <1>9, <2>3 DEF ActivateVersion, Go, ConfigTypeOK
    <3>2. d \notin Declaring
      BY <1>3, <3>1
    <3>3. \A v : Carries(v) => Carries(v)'
      BY <1>4, <2>1, <3>1, <3>2 DEF Carries
    <3>4. siteLock' # d
      BY <1>2, <3>1 DEF Free
    <3> QED BY <1>1, <1>3, <1>5, <2>1, <3>1, <3>3, <3>4 DEF CarriedInv
  <2> QED BY <2>2, <2>3
<1>10. CASE PublishVersionFails(d)
  <2>1. /\ UNCHANGED <<values, bindings, resolved, answer>> /\ siteLock' = Free(siteLock, d)
        /\ routed' = routed \/ (siteLock = d /\ routed' = resolved[d])
        /\ progress'[d] = "failing"
    BY <1>2, <1>10 DEF PublishVersionFails, Go, ConfigTypeOK
  <2>2. d \notin Declaring
    BY <1>3, <2>1
  <2>3. Carries(routed')
    BY <1>1, <2>1, <2>2
  <2>4. \A v : Carries(v) => Carries(v)'
    BY <1>4, <2>1, <2>2 DEF Carries
  <2>5. Carries(routed)'
    BY <1>4, <2>1, <2>2, <2>3 DEF Carries
  <2>6. siteLock' # d
    BY <1>2, <2>1 DEF Free
  <2> QED BY <1>1, <1>3, <1>5, <2>1, <2>4, <2>5, <2>6 DEF CarriedInv
<1>11. CASE PublishVersion(d)
  <2>1. /\ UNCHANGED <<values, bindings, routed, resolved>> /\ progress[d] = "activated"
        /\ siteLock' = Free(siteLock, d)
    BY <1>11 DEF PublishVersion
  <2>2. Settled(d) /\ siteLock' # d
    BY <1>2, <2>1 DEF Settled, Free
  <2>3. \A v : Carries(v) => Carries(v)'
    BY <1>4, <2>1, <2>2 DEF Carries
  <2> QED BY <1>1, <1>3, <1>5, <2>1, <2>2, <2>3 DEF CarriedInv
<1>12. CASE \/ ReadConfig(d) \/ ValidateCommit(d) \/ CommitUnread(d) \/ CommitRefused(d)
            \/ ValidateActivation(d) \/ LockBusy(d)
            \/ RestoreCompare(d) \/ RestoreConfig(d) \/ RestoreRefused(d)
  <2>1. ~RestoreConfig(d) /\ ~CommitUnread(d)
    BY <1>2, <1>3 DEF RestoreConfig, CommitUnread, Answer, StagesAreReached, ConfigTypeOK
  <2>2. /\ UNCHANGED <<values, bindings, routed, resolved, siteLock>>
        /\ answer'[d] # "succeeded" /\ progress'[d] # "activated"
    BY <1>2, <1>12, <2>1, ConfigAssumption
       DEF ReadConfig, ValidateCommit, CommitRefused, Reject, ValidateActivation, LockBusy,
           RestoreCompare, RestoreRefused, Go, Answer, locks, ConfigTypeOK
  <2>3. \A v : Carries(v) => Carries(v)'
    BY <1>4, <2>2 DEF Carries, Settled
  <2> QED BY <1>1, <1>5, <2>2, <2>3 DEF CarriedInv
<1> QED BY <1>6, <1>7, <1>8, <1>9, <1>10, <1>11, <1>12 DEF DeploymentStep

\* A lease that ends, or nothing.
LapseOrNothing == Lapse \/ UNCHANGED configVars

LEMMA LapseKeepsReach ==
  ASSUME WithdrawalInv, VersionsInv, CarriedInv, LapseOrNothing
  PROVE  VersionsInv' /\ CarriedInv'
<1>1. /\ UNCHANGED <<values, generation, routed, bindings, progress, seen, resolved, answer,
                     raced>>
      /\ siteLock' \in {siteLock, Nobody} /\ configLock' \in {configLock, Nobody}
  BY DEF LapseOrNothing, Lapse, history, configVars
<1>2. /\ \A p \in Writers \cup Deploys : p # Nobody
      /\ \A d \in Deploys : siteLock' = d => siteLock = d
      /\ \A w \in Writers : configLock' = w => configLock = w
  BY <1>1, ConfigAssumption
<1>3. VersionsInv'
  BY <1>1, <1>2 DEF VersionsInv, VersionsInUse, HolderOwnsRoute, WorkersAreWanted, Wanted,
     Everywhere
<1>4. Clean' => Clean
  BY <1>1, <1>2 DEF Clean
<1>5. \A n \in Names : Settled(values[n])' => Settled(values[n])
  BY <1>1 DEF Settled
<1>6. CarriedInv'
  BY <1>1, <1>2, <1>4, <1>5, FrameOfCarried
<1> QED BY <1>3, <1>6

\* When no request is under way the active Worker carries D1's variables, unless a
\* sync told its caller to retry or a deployment was raced or failed with
\* variables of its own (runtime-config-sync.js, deploy-site-handler.js).
THEOREM ConfigsReachWorkers == ConfigSpec => []ConfigReachesWorker
<1>1. ConfigInit /\ WithdrawalInv => ReachInv
  BY VersionsInit, CarriedInit DEF ReachInv
<1>2. ReachInv /\ WithdrawalInv' /\ [ConfigNext]_configVars => ReachInv'
  <2> SUFFICES ASSUME ReachInv, WithdrawalInv', [ConfigNext]_configVars
               PROVE  ReachInv'
    OBVIOUS
  <2>0. /\ WithdrawalInv /\ VersionsInv /\ CarriedInv /\ ConfigTypeInv
        /\ ReadingsAreOfTheirTime
    BY DEF ReachInv, WithdrawalInv
  <2>1. ASSUME NEW w \in Writers, WriterStep(w)
        PROVE  ReachInv'
    BY <2>0, <2>1, WriterKeepsVersions, WriterKeepsCarried DEF ReachInv
  <2>2. ASSUME NEW d \in Deploys, DeploymentStep(d)
        PROVE  ReachInv'
    BY <2>0, <2>2, DeploymentKeepsVersions, DeploymentKeepsCarried DEF ReachInv
  <2>3. CASE LapseOrNothing
    BY <2>0, <2>3, LapseKeepsReach DEF ReachInv
  <2>4. \/ \E w \in Writers : WriterStep(w)
        \/ \E d \in Deploys : DeploymentStep(d)
        \/ LapseOrNothing
    BY DEF ConfigNext, WriterStep, DeploymentStep, LapseOrNothing
  <2> QED BY <2>1, <2>2, <2>3, <2>4
<1> QED BY <1>1, <1>2, WithdrawalCorrect, CarriedIsEnough, PTL DEF ConfigSpec


-----------------------------------------------------------------------------
(* The platform's own development.                                         *)

\* Where a request may go on: a repair has its trigger, and is started only
\* while the repairs that its request had counted were few enough.
Reachable(job) ==
  Places \ ({"pressed"} \cup (IF job.trigger = "none" THEN {"dispatch", "fix", "record"} ELSE {})
                        \cup (IF job.count < MaxFixes THEN {} ELSE {"fix"}))

\* Until the user has started the development no request carries its start.
Fit(job, started) ==
  /\ job \in Jobs
  /\ job.pc \in Reachable(job) \cup {"pressed"}
  /\ job.next \in Seq(Reachable(job))
  /\ ~started => ~job.auto /\ job.copy.auto = "pending" /\ job.pc # "pressed"

ItemInv ==
  /\ ItemTypeOK
  /\ \A r \in Handlers : Fit(req[r], pressed)
  /\ ~pressed => starts = 0 /\ row.auto = "pending"
  /\ FixesAreBounded

-----------------------------------------------------------------------------
(* What a request is after each of the steps that it is made of.           *)

LEMMA IdleFits == \A started \in BOOLEAN : Fit(Idle, started)
BY ItemAssumption DEF Idle, Fit, Jobs, Places, Rows, Reachable, Triggers, Statuses, Early,
  Working, Finished, Closed

LEMMA OnwardFits ==
  ASSUME NEW started \in BOOLEAN, NEW job, Fit(job, started)
  PROVE  Fit(Onward(job), started)
<1>1. CASE job.next = <<>>
  BY <1>1, IdleFits DEF Onward
<1>2. CASE job.next # <<>>
  <2>1. /\ Head(job.next) \in Reachable(job) /\ Tail(job.next) \in Seq(Reachable(job))
        /\ Reachable(job) \subseteq Places /\ "pressed" \notin Reachable(job)
    BY <1>2 DEF Fit, Reachable
  <2>2. Tail(job.next) \in Seq(Places)
    BY <2>1
  <2> DEFINE new == Onward(job)
  <2>3. new = [job EXCEPT !.pc = Head(job.next), !.next = Tail(job.next), !.to = "same",
                          !.how = "patch"]
    BY <1>2 DEF Onward
  <2>4. /\ new.pc = Head(job.next) /\ new.next = Tail(job.next)
        /\ new.trigger = job.trigger /\ new.count = job.count /\ new.auto = job.auto
        /\ new.copy = job.copy /\ new \in Jobs
    BY <2>1, <2>2, <2>3 DEF Fit, Jobs
  <2>5. Reachable(new) = Reachable(job)
    BY <2>4 DEF Reachable
  <2> QED BY <2>1, <2>4, <2>5 DEF Fit
<1> QED BY <1>1, <1>2

\* A request that reads the row first, whatever follows.
LEMMA LoadFits ==
  ASSUME NEW started \in BOOLEAN, NEW job, Fit(job, started),
         NEW to \in Statuses \cup {"same"}, NEW how \in {"update", "fail", "patch"},
         NEW next \in Seq(Reachable(job))
  PROVE  Fit([job EXCEPT !.pc = "load", !.how = how, !.to = to, !.next = next], started)
<1> DEFINE new == [job EXCEPT !.pc = "load", !.how = how, !.to = to, !.next = next]
<1>1. Reachable(job) \subseteq Places /\ "load" \in Reachable(job)
  BY DEF Reachable, Places
<1>2. next \in Seq(Places)
  BY <1>1
<1>3. /\ new.pc = "load" /\ new.next = next /\ new.trigger = job.trigger
      /\ new.count = job.count /\ new.auto = job.auto /\ new.copy = job.copy /\ new \in Jobs
  BY <1>1, <1>2 DEF Fit, Jobs
<1>4. Reachable(new) = Reachable(job)
  BY <1>3 DEF Reachable
<1> QED BY <1>1, <1>3, <1>4 DEF Fit

LEMMA Plans ==
  ASSUME NEW job
  PROVE  /\ <<>> \in Seq(Reachable(job))
         /\ \A p \in Places \ {"pressed", "dispatch", "fix", "record"} :
              <<p>> \in Seq(Reachable(job)) /\ <<"context", p>> \in Seq(Reachable(job))
         /\ job.trigger # "none" =>
              <<"dispatch">> \in Seq(Reachable(job)) /\ <<"context", "dispatch">> \in Seq(Reachable(job))
         /\ (job.trigger # "none" /\ job.count < MaxFixes) => <<"fix">> \in Seq(Reachable(job))
BY DEF Reachable, Places

LEMMA RequestsFit ==
  ASSUME NEW started \in BOOLEAN, NEW job, Fit(job, started),
         NEW next \in Seq(Reachable(job)), NEW to \in Statuses
  PROVE  /\ Fit(Update(job, to, next), started) /\ Fit(Patch(job, next), started)
         /\ Fit(Overwrite(job, to, next), started) /\ Fit(FailItem(job), started)
         /\ Fit(MoveItem(job, to, next), started)
<1>1. "failed" \in Statuses
  BY DEF Statuses, Finished
<1>2. <<>> \in Seq(Reachable(job))
  BY Plans
<1>3. /\ Fit(Update(job, to, next), started) /\ Fit(Patch(job, next), started)
      /\ Fit(Overwrite(job, to, next), started) /\ Fit(FailItem(job), started)
  BY <1>1, <1>2, LoadFits DEF Update, Patch, Overwrite, FailItem
<1> QED BY <1>3 DEF MoveItem

-----------------------------------------------------------------------------
(* Steps that only change the request.                                     *)

LEMMA QuietMove ==
  ASSUME ItemInv, NEW r \in Handlers, NEW new, Fit(new, pressed), Set(r, new),
         begun' \in 0 .. MaxRequests,
         UNCHANGED <<row, log, pressed, starts, fixes, uncounted>>
  PROVE  ItemInv'
<1>1. new \in Jobs
  BY DEF Fit
<1>2. ItemTypeOK'
  BY <1>1 DEF ItemInv, ItemTypeOK, Set
<1>3. \A q \in Handlers : req'[q] = IF q = r THEN new ELSE req[q]
  BY DEF ItemInv, ItemTypeOK, Set
<1>4. \A q \in Handlers : Fit(req'[q], pressed)
  BY <1>3 DEF ItemInv
<1>5. (\A q \in Handlers : Fit(req[q], pressed))'
  BY <1>4
<1> QED BY <1>2, <1>5 DEF ItemInv, FixesAreBounded

\* A request that has just begun.
LEMMA FirstMove ==
  ASSUME ItemInv, NEW r \in Handlers, NEW new, Fit(new, pressed), Set(r, new), Begin(r),
         UNCHANGED <<row, log, pressed, starts, fixes, uncounted>>
  PROVE  ItemInv'
<1>1. begun' \in 0 .. MaxRequests
  BY ItemAssumption DEF ItemInv, ItemTypeOK, Begin
<1> QED BY <1>1, QuietMove

\* A request for a repair on what the user has said.
LEMMA AsksForRepair ==
  ASSUME NEW started \in BOOLEAN, NEW job, Fit(job, started)
  PROVE  Fit([job EXCEPT !.pc = "dispatch", !.trigger = "slack_followup"], started)
<1> DEFINE new == [job EXCEPT !.pc = "dispatch", !.trigger = "slack_followup"]
<1>1. /\ new \in Jobs /\ new.pc = "dispatch" /\ new.next = job.next /\ new.auto = job.auto
      /\ new.count = job.count /\ new.trigger = "slack_followup" /\ new.copy = job.copy
  BY DEF Fit, Jobs, Places, Triggers
<1>2. "dispatch" \in Reachable(new) /\ Reachable(job) \subseteq Reachable(new)
  BY <1>1 DEF Reachable, Places
<1>3. new.next \in Seq(Reachable(new))
  BY <1>1, <1>2 DEF Fit
<1> QED BY <1>1, <1>2, <1>3 DEF Fit

-----------------------------------------------------------------------------
(* The row is read and written.                                            *)

LEMMA LoadKeeps == ASSUME ItemInv, NEW r \in Handlers, Load(r) PROVE ItemInv'
<1> DEFINE job == req[r]
           read == [job EXCEPT !.pc = "store", !.copy = row]
           over == [job EXCEPT !.copy = row, !.mark = Len(log)]
<1>1. /\ Fit(job, pressed) /\ row \in Rows /\ pressed \in BOOLEAN /\ Len(log) \in Nat
      /\ ~pressed => row.auto = "pending"
  BY DEF ItemInv, ItemTypeOK
<1>2. Fit(read, pressed)
  <2>1. /\ read \in Jobs /\ read.pc = "store" /\ read.next = job.next /\ read.copy = row
        /\ read.trigger = job.trigger /\ read.count = job.count /\ read.auto = job.auto
    BY <1>1 DEF Fit, Jobs, Places
  <2>2. Reachable(read) = Reachable(job) /\ "store" \in Reachable(job)
    BY <2>1 DEF Reachable, Places
  <2> QED BY <1>1, <2>1, <2>2 DEF Fit
<1>3. Fit(Onward(over), pressed)
  <2>1. /\ over \in Jobs /\ over.pc = job.pc /\ over.next = job.next /\ over.copy = row
        /\ over.trigger = job.trigger /\ over.count = job.count /\ over.auto = job.auto
    BY <1>1 DEF Fit, Jobs
  <2>2. Reachable(over) = Reachable(job)
    BY <2>1 DEF Reachable
  <2>3. Fit(over, pressed)
    BY <1>1, <2>1, <2>2 DEF Fit
  <2> QED BY <1>1, <2>3, OnwardFits
<1>4. Fit(Idle, pressed)
  BY <1>1, IdleFits
<1>5. begun' \in 0 .. MaxRequests
  BY DEF Load, ItemInv, ItemTypeOK
<1>6. UNCHANGED <<row, log, pressed, starts, fixes, uncounted>>
  BY DEF Load
<1>7. Set(r, read) \/ Set(r, Onward(over)) \/ Set(r, Idle)
  BY DEF Load
<1> HIDE DEF read, over
<1> QED BY <1>2, <1>3, <1>4, <1>5, <1>6, <1>7, QuietMove

LEMMA StoreKeeps == ASSUME ItemInv, NEW r \in Handlers, Store(r) PROVE ItemInv'
<1> DEFINE job == req[r]
           new == [status |-> IF job.to = "same" THEN job.copy.status ELSE job.to,
                   auto |-> IF job.auto THEN "triggered" ELSE job.copy.auto,
                   pr |-> job.pr \/ job.copy.pr]
           done == [job EXCEPT !.copy = new, !.auto = FALSE, !.pr = FALSE, !.mark = Len(log)]
<1>1. /\ Fit(job, pressed) /\ pressed \in BOOLEAN /\ Len(log) \in Nat /\ job \in Jobs
  BY DEF ItemInv, ItemTypeOK, Fit
<1>2. new \in Rows /\ (~pressed => new.auto = "pending")
  <2>1. /\ (IF job.to = "same" THEN job.copy.status ELSE job.to) \in Statuses
        /\ (IF job.auto THEN "triggered" ELSE job.copy.auto) \in {"pending", "triggered"}
        /\ (job.pr \/ job.copy.pr) \in BOOLEAN
    BY <1>1 DEF Jobs, Rows
  <2>2. ~pressed => (IF job.auto THEN "triggered" ELSE job.copy.auto) = "pending"
    BY <1>1 DEF Fit
  <2> QED BY <2>1, <2>2 DEF Rows
<1>3. Fit(Onward(done), pressed)
  <2> HIDE DEF new
  <2>1. /\ done \in Jobs /\ done.pc = job.pc /\ done.next = job.next /\ done.copy = new
        /\ done.trigger = job.trigger /\ done.count = job.count /\ done.auto = FALSE
    BY <1>1, <1>2 DEF Jobs
  <2>2. Reachable(done) = Reachable(job)
    BY <2>1 DEF Reachable
  <2>3. Fit(done, pressed)
    BY <1>1, <1>2, <2>1, <2>2 DEF Fit
  <2> QED BY <1>1, <2>3, OnwardFits
<1>4. /\ row' = new /\ Set(r, Onward(done))
      /\ UNCHANGED <<log, begun, pressed, starts, fixes, uncounted>>
  BY DEF Store
<1> HIDE DEF new, done
<1>5. Onward(done) \in Jobs
  BY <1>3 DEF Fit
<1>6. ItemTypeOK'
  BY <1>2, <1>4, <1>5 DEF ItemInv, ItemTypeOK, Set
<1>7. \A q \in Handlers : Fit(req'[q], pressed)
  BY <1>3, <1>4 DEF ItemInv, ItemTypeOK, Set
<1>8. (\A q \in Handlers : Fit(req[q], pressed))'
  BY <1>4, <1>7
<1> QED BY <1>2, <1>4, <1>6, <1>8 DEF ItemInv, FixesAreBounded

-----------------------------------------------------------------------------
(* Agents and repairs.                                                     *)

LEMMA StartKeeps ==
  ASSUME ItemInv, NEW r \in Handlers, NEW started \in BOOLEAN, Start(r, started)
  PROVE  ItemInv'
<1>1. Fit(req[r], pressed) /\ pressed \in BOOLEAN
  BY DEF ItemInv, ItemTypeOK
<1>2. Fit(FailItem(req[r]), pressed) /\ Fit(Onward(req[r]), pressed)
  <2>1. <<>> \in Seq(Reachable(req[r])) /\ "failed" \in Statuses
    BY Plans DEF Statuses, Finished
  <2> QED BY <1>1, <2>1, OnwardFits, RequestsFit
<1>3. UNCHANGED <<row, log, begun, pressed, fixes, uncounted>>
  BY DEF Start
<1>4. PICK new : Set(r, new) /\ Fit(new, pressed)
  BY <1>2 DEF Start
<1>5. starts' \in {starts, starts + 1} /\ (starts' # starts => pressed)
  BY <1>1 DEF Start, ShouldStart, Fit, ItemInv, ItemTypeOK
<1>6. new \in Jobs
  BY <1>4 DEF Fit
<1>7. ItemTypeOK'
  BY <1>3, <1>4, <1>5, <1>6 DEF ItemInv, ItemTypeOK, Set
<1>8. \A q \in Handlers : Fit(req'[q], pressed)
  BY <1>4 DEF ItemInv, ItemTypeOK, Set
<1>9. (\A q \in Handlers : Fit(req[q], pressed))'
  BY <1>3, <1>8
<1> QED BY <1>3, <1>5, <1>7, <1>9 DEF ItemInv, FixesAreBounded

\* How many repairs a request counts.
LEMMA DispatchesCounted == ASSUME ItemTypeOK PROVE Cardinality(Dispatches) \in Nat
<1>1. Len(log) \in Nat /\ DOMAIN log = 1 .. Len(log)
  BY DEF ItemTypeOK
<1>2. IsFiniteSet(1 .. Len(log))
  BY <1>1, FS_Interval
<1>3. IsFiniteSet(Dispatches)
  BY <1>1, <1>2, FS_Subset DEF Dispatches
<1> QED BY <1>3, FS_CardinalityType

LEMMA DispatchKeeps == ASSUME ItemInv, NEW r \in Handlers, Dispatch(r) PROVE ItemInv'
<1> DEFINE n == Cardinality(Dispatches)
           job == [req[r] EXCEPT !.count = n]
           old == [job EXCEPT !.pc = "load", !.next = <<>>]
<1>1. /\ Fit(req[r], pressed) /\ pressed \in BOOLEAN /\ n \in Nat /\ req[r].pc = "dispatch"
  BY DispatchesCounted DEF ItemInv, ItemTypeOK, Dispatch, At
<1>2. /\ job \in Jobs /\ job.pc = "dispatch" /\ job.copy = req[r].copy /\ job.count = n
      /\ job.trigger = req[r].trigger /\ job.auto = req[r].auto /\ job.trigger # "none"
  BY <1>1 DEF Fit, Jobs, Reachable
<1> HIDE DEF n
<1>3. Fit(old, pressed)
  <2> HIDE DEF job
  <2>1. "load" \in Places /\ <<>> \in Seq(Places)
    BY DEF Places
  <2>2. /\ old.pc = "load" /\ old.next = <<>> /\ old.copy = job.copy /\ old.count = n
        /\ old.trigger = job.trigger /\ old.auto = job.auto /\ old \in Jobs
    BY <1>2, <2>1 DEF Jobs
  <2>3. "load" \in Reachable(old) /\ <<>> \in Seq(Reachable(old))
    BY Plans DEF Reachable, Places
  <2> QED BY <1>1, <1>2, <2>2, <2>3 DEF Fit
<1>4. "agent_queued" \in Statuses /\ "failed" \in Statuses
  BY DEF Statuses, Working, Finished
<1>5. \A to, next : Update(job, to, next) = Update(old, to, next)
                    /\ Patch(job, next) = Patch(old, next)
  BY <1>2 DEF Update, Patch, Jobs
<1>6. Fit(Update(job, "failed", <<>>), pressed)
  BY <1>1, <1>3, <1>4, <1>5, Plans, RequestsFit
<1>7. job.count < MaxFixes => /\ Fit(Update(job, "agent_queued", <<"fix">>), pressed)
                              /\ Fit(Patch(job, <<"fix">>), pressed)
  <2> SUFFICES ASSUME job.count < MaxFixes
               PROVE  /\ Fit(Update(old, "agent_queued", <<"fix">>), pressed)
                      /\ Fit(Patch(old, <<"fix">>), pressed)
    BY <1>5
  <2>1. old.count < MaxFixes /\ old.trigger # "none"
    BY <1>2 DEF Jobs
  <2>2. <<"fix">> \in Seq(Reachable(old))
    BY <2>1, Plans
  <2> HIDE DEF old
  <2> QED BY <1>1, <1>3, <1>4, <2>2, RequestsFit
<1>8. Fit(Idle, pressed)
  BY <1>1, IdleFits
<1>9. begun' \in 0 .. MaxRequests
  BY DEF Dispatch, ItemInv, ItemTypeOK
<1>10. UNCHANGED <<row, log, pressed, starts, fixes, uncounted>>
  BY DEF Dispatch
<1>11. job.count \in Nat
  BY <1>1, <1>2
<1>12. \/ Set(r, Idle) \/ Set(r, Update(job, "failed", <<>>))
       \/ /\ job.count < MaxFixes
          /\ \/ Set(r, Patch(job, <<"fix">>)) \/ Set(r, Update(job, "agent_queued", <<"fix">>))
  BY <1>11, ItemAssumption DEF Dispatch, n
<1> HIDE DEF job
<1> QED BY <1>6, <1>7, <1>8, <1>9, <1>10, <1>12, QuietMove

LEMMA FixKeeps ==
  ASSUME ItemInv, NEW r \in Handlers, NEW started \in BOOLEAN, Fix(r, started)
  PROVE  ItemInv'
<1>1. /\ Fit(req[r], pressed) /\ pressed \in BOOLEAN /\ req[r].pc = "fix" /\ req[r] \in Jobs
  BY DEF ItemInv, ItemTypeOK, Fix, At, Fit
<1>2. /\ req[r].count \in Nat /\ req[r].count < MaxFixes /\ req[r].trigger # "none"
      /\ Fit([req[r] EXCEPT !.pc = "record"], pressed)
  <2>1. /\ req[r].count \in Nat /\ req[r].count < MaxFixes /\ req[r].trigger # "none"
    BY <1>1 DEF Fit, Reachable, Jobs
  <2> DEFINE new == [req[r] EXCEPT !.pc = "record"]
  <2>2. /\ new \in Jobs /\ new.pc = "record" /\ new.next = req[r].next
        /\ new.copy = req[r].copy /\ new.auto = req[r].auto
        /\ new.count = req[r].count /\ new.trigger = req[r].trigger
    BY <1>1 DEF Jobs, Places
  <2>3. Reachable(new) = Reachable(req[r]) /\ "record" \in Reachable(req[r])
    BY <2>1, <2>2 DEF Reachable, Places
  <2> QED BY <1>1, <2>1, <2>2, <2>3 DEF Fit
<1>3. Fit(FailItem(req[r]), pressed) /\ Fit(Idle, pressed)
  <2>1. <<>> \in Seq(Reachable(req[r])) /\ "failed" \in Statuses
    BY Plans DEF Statuses, Finished
  <2> QED BY <1>1, <2>1, IdleFits, RequestsFit
<1>4. UNCHANGED <<row, log, begun, pressed>>
  BY DEF Fix
<1>5. PICK new : Set(r, new) /\ Fit(new, pressed)
  BY <1>2, <1>3 DEF Fix
<1>6. new \in Jobs
  BY <1>5 DEF Fit
<1>7. \/ UNCHANGED <<starts, fixes, uncounted>>
      \/ /\ pressed /\ starts' = starts + 1 /\ fixes' = fixes + 1
         /\ uncounted' = uncounted + (IF req[r].count < fixes THEN 1 ELSE 0)
  BY <1>1 DEF Fix, ShouldStart, Fit
<1>8. /\ starts' \in Nat /\ fixes' \in 0 .. starts' /\ uncounted' \in 0 .. fixes'
      /\ fixes' <= MaxFixes + uncounted'
      /\ starts' = starts \/ pressed
  <2>1. /\ starts \in Nat /\ fixes \in 0 .. starts /\ uncounted \in 0 .. fixes
        /\ fixes <= MaxFixes + uncounted /\ MaxFixes \in Nat
    BY ItemAssumption DEF ItemInv, ItemTypeOK, FixesAreBounded
  <2> QED BY <1>2, <1>7, <2>1
<1>9. ItemTypeOK'
  BY <1>4, <1>5, <1>6, <1>8 DEF ItemInv, ItemTypeOK, Set
<1>10. \A q \in Handlers : Fit(req'[q], pressed)
  BY <1>5 DEF ItemInv, ItemTypeOK, Set
<1>11. (\A q \in Handlers : Fit(req[q], pressed))'
  BY <1>4, <1>10
<1> QED BY <1>4, <1>8, <1>9, <1>11 DEF ItemInv, FixesAreBounded

LEMMA RecordKeeps == ASSUME ItemInv, NEW r \in Handlers, Record(r) PROVE ItemInv'
<1>1. /\ req[r].trigger \in Triggers /\ Fit(Idle, pressed) /\ pressed \in BOOLEAN
  BY IdleFits DEF ItemInv, ItemTypeOK, Record, At, Fit, Jobs, Reachable
<1>2. /\ Set(r, Idle) /\ log' = Append(log, req[r].trigger)
      /\ UNCHANGED <<row, begun, pressed, starts, fixes, uncounted>>
  BY DEF Record
<1>3. Idle \in Jobs
  BY <1>1 DEF Fit
<1>4. ItemTypeOK'
  BY <1>1, <1>2, <1>3 DEF ItemInv, ItemTypeOK, Set
<1>5. \A q \in Handlers : Fit(req'[q], pressed)
  BY <1>1, <1>2 DEF ItemInv, ItemTypeOK, Set
<1>6. (\A q \in Handlers : Fit(req[q], pressed))'
  BY <1>2, <1>5
<1> QED BY <1>2, <1>4, <1>6 DEF ItemInv, FixesAreBounded

LEMMA DispatchWaitingKeeps ==
  ASSUME ItemInv, NEW r \in Handlers, DispatchWaiting(r)
  PROVE  ItemInv'
<1> DEFINE new == [req[r] EXCEPT !.pc = "dispatch", !.trigger = "slack_followup"]
<1>1. /\ Fit(req[r], pressed) /\ pressed \in BOOLEAN /\ begun' \in 0 .. MaxRequests
  BY DEF ItemInv, ItemTypeOK, DispatchWaiting
<1>2. Fit(new, pressed)
  BY <1>1, AsksForRepair
<1>3. Fit(Idle, pressed)
  BY <1>1, IdleFits
<1>4. Set(r, new) \/ Set(r, Idle)
  BY DEF DispatchWaiting
<1>5. UNCHANGED <<row, log, pressed, starts, fixes, uncounted>>
  BY DEF DispatchWaiting
<1> HIDE DEF new
<1> QED BY <1>1, <1>2, <1>3, <1>4, <1>5, QuietMove

-----------------------------------------------------------------------------
(* What the executor, GitHub and the user ask for.                         *)

\* A request that has begun, with the trigger that it may repair for.
LEMMA BegunFits ==
  ASSUME NEW started \in BOOLEAN
  PROVE  /\ Fit(Idle, started) /\ Idle.trigger = "none"
         /\ Fit([Idle EXCEPT !.pr = TRUE], started)
         /\ \A t \in Triggers : Fit([Idle EXCEPT !.trigger = t], started)
         /\ \A s \in Statuses : Fit([Idle EXCEPT !.seen = s], started)
<1>1. Fit(Idle, started) /\ Idle.trigger = "none" /\ Idle.pc = "idle" /\ Idle.next = <<>>
  BY IdleFits DEF Idle
<1> HIDE DEF Idle
<1>2. ASSUME NEW new, new \in Jobs, new.pc = "idle", new.next = <<>>,
             new.auto = Idle.auto, new.copy = Idle.copy
      PROVE  Fit(new, started)
  <2>1. "idle" \in Reachable(new) /\ <<>> \in Seq(Reachable(new))
    BY Plans DEF Reachable, Places
  <2> QED BY <1>1, <1>2, <2>1 DEF Fit
<1>3. Idle \in Jobs
  BY <1>1 DEF Fit
<1>4. Fit([Idle EXCEPT !.pr = TRUE], started)
  BY <1>1, <1>2, <1>3 DEF Jobs
<1>5. ASSUME NEW t \in Triggers PROVE Fit([Idle EXCEPT !.trigger = t], started)
  BY <1>1, <1>2, <1>3 DEF Jobs
<1>6. ASSUME NEW s \in Statuses PROVE Fit([Idle EXCEPT !.seen = s], started)
  BY <1>1, <1>2, <1>3 DEF Jobs
<1> QED BY <1>1, <1>4, <1>5, <1>6

\* Where the requests lead to is a status.
LEMMA StatusNames ==
  /\ {"auto_dev_pending", "agent_queued", "agent_running", "pr_created", "ci_running",
      "ci_failed", "review_blocked", "review_waiting", "ready_to_merge", "merged",
      "closed_unmerged", "issue_created", "failed"} \subseteq Statuses
  /\ \A target : Restored(target) \in Statuses
BY DEF Statuses, Early, Working, Finished, Closed, Restored

LEMMA IssueIsReadyKeeps ==
  ASSUME ItemInv, NEW r \in Handlers, IssueIsReady(r) PROVE ItemInv'
<1>1. pressed \in BOOLEAN
  BY DEF ItemInv, ItemTypeOK
<1>2. Fit(MoveItem(Idle, "auto_dev_pending", <<"pending">>), pressed)
  BY <1>1, BegunFits, StatusNames, Plans, RequestsFit DEF Places
<1> QED BY <1>2, FirstMove DEF IssueIsReady

LEMMA PendingKeeps == ASSUME ItemInv, NEW r \in Handlers, Pending(r) PROVE ItemInv'
<1> DEFINE new == [req[r] EXCEPT !.auto = TRUE]
<1>1. /\ Fit(req[r], pressed) /\ pressed \in BOOLEAN /\ begun' \in 0 .. MaxRequests
  BY DEF ItemInv, ItemTypeOK, Pending
<1>2. req[r].copy.auto = "triggered" => Fit(new, pressed)
  <2> SUFFICES ASSUME req[r].copy.auto = "triggered" PROVE Fit(new, pressed)
    OBVIOUS
  <2>1. /\ new \in Jobs /\ new.pc = req[r].pc /\ new.next = req[r].next
        /\ new.count = req[r].count /\ new.trigger = req[r].trigger /\ pressed
    BY <1>1 DEF Fit, Jobs
  <2>2. Reachable(new) = Reachable(req[r])
    BY <2>1 DEF Reachable
  <2> QED BY <1>1, <2>1, <2>2 DEF Fit
<1> HIDE DEF new
<1>3. req[r].copy.auto = "triggered" => Fit(Update(new, "agent_queued", <<"start">>), pressed)
  BY <1>1, <1>2, StatusNames, Plans, RequestsFit DEF Places
<1>4. Fit(Idle, pressed)
  BY <1>1, IdleFits
<1>5. \/ Set(r, Idle)
      \/ /\ req[r].copy.auto = "triggered"
         /\ Set(r, Update(new, "agent_queued", <<"start">>))
  BY DEF Pending, new
<1>6. UNCHANGED <<row, log, pressed, starts, fixes, uncounted>>
  BY DEF Pending
<1> QED BY <1>1, <1>3, <1>4, <1>5, <1>6, QuietMove

LEMMA AgentRunsKeeps == ASSUME ItemInv, NEW r \in Handlers, AgentRuns(r) PROVE ItemInv'
<1>1. pressed \in BOOLEAN
  BY DEF ItemInv, ItemTypeOK
<1>2. Fit(MoveItem(Idle, "agent_running", <<>>), pressed)
  BY <1>1, BegunFits, StatusNames, Plans, RequestsFit
<1> QED BY <1>2, FirstMove DEF AgentRuns

LEMMA AgentMadePullRequestKeeps ==
  ASSUME ItemInv, NEW r \in Handlers, AgentMadePullRequest(r) PROVE ItemInv'
<1>1. pressed \in BOOLEAN
  BY DEF ItemInv, ItemTypeOK
<1>2. Fit(MoveItem([Idle EXCEPT !.pr = TRUE], "pr_created", <<"waiting">>), pressed)
  BY <1>1, BegunFits, StatusNames, Plans, RequestsFit DEF Places
<1> QED BY <1>2, FirstMove DEF AgentMadePullRequest

LEMMA ExecutorFailedKeeps ==
  ASSUME ItemInv, NEW r \in Handlers, ExecutorFailed(r) PROVE ItemInv'
<1>1. pressed \in BOOLEAN
  BY DEF ItemInv, ItemTypeOK
<1>2. Fit(FailItem(Idle), pressed) /\ Fit(Idle, pressed)
  BY <1>1, BegunFits, StatusNames, Plans, RequestsFit
<1> QED BY <1>2, FirstMove DEF ExecutorFailed

LEMMA CheckRunKeeps ==
  ASSUME ItemInv, NEW r \in Handlers, NEW result, NEW gate \in Gates, CheckRun(r, result, gate)
  PROVE  ItemInv'
<1> DEFINE job == [Idle EXCEPT !.trigger = "ci_failed"]
<1>1. pressed \in BOOLEAN /\ row.status \in Statuses
  BY DEF ItemInv, ItemTypeOK, Rows
<1>2. Fit(job, pressed) /\ job.trigger = "ci_failed"
  BY <1>1, BegunFits DEF Triggers, Idle
<1> DEFINE next == CASE result = "running" -> "ci_running"
                     [] result = "failed" -> "ci_failed"
                     [] row.status \in {"review_blocked", "ready_to_merge"} -> row.status
                     [] OTHER -> gate
<1>3. next \in Statuses
  BY <1>1, StatusNames DEF Gates
<1> HIDE DEF job, next
<1>4. /\ Fit(MoveItem(job, next, <<"dispatch">>), pressed)
      /\ Fit(MoveItem(job, next, <<"waiting">>), pressed)
  BY <1>1, <1>2, <1>3, Plans, RequestsFit DEF Places
<1>5. Fit(Patch(Idle, <<>>), pressed)
  BY <1>1, BegunFits, StatusNames, Plans, RequestsFit
<1>6. /\ \/ Set(r, Patch(Idle, <<>>)) \/ Set(r, MoveItem(job, next, <<"dispatch">>))
         \/ Set(r, MoveItem(job, next, <<"waiting">>))
      /\ Begin(r) /\ UNCHANGED <<row, log, pressed, starts, fixes, uncounted>>
  BY DEF CheckRun, job, next
<1> QED BY <1>4, <1>5, <1>6, FirstMove

LEMMA ReviewKeeps ==
  ASSUME ItemInv, NEW r \in Handlers, NEW blocking \in BOOLEAN, NEW passed,
         Review(r, blocking, passed)
  PROVE  ItemInv'
<1> DEFINE job == [Idle EXCEPT !.trigger = "review_blocked"]
<1>1. pressed \in BOOLEAN /\ row.status \in Statuses
  BY DEF ItemInv, ItemTypeOK, Rows
<1>2. Fit(job, pressed) /\ job.trigger = "review_blocked"
  BY <1>1, BegunFits DEF Triggers, Idle
<1> DEFINE next ==
             IF blocking THEN IF row.status = "ci_failed" THEN "ci_failed" ELSE "review_blocked"
             ELSE IF passed THEN "ready_to_merge"
             ELSE IF row.status \in {"pr_created", "ci_running"} THEN "review_waiting"
             ELSE row.status
<1>3. next \in Statuses
  BY <1>1, StatusNames
<1> HIDE DEF job, next
<1>4. /\ Fit(MoveItem(job, next, <<"context", "dispatch">>), pressed)
      /\ Fit(MoveItem(job, next, <<"context", "waiting">>), pressed)
  BY <1>1, <1>2, <1>3, Plans, RequestsFit DEF Places
<1>5. Fit(Patch(Idle, <<>>), pressed)
  BY <1>1, BegunFits, StatusNames, Plans, RequestsFit
<1>6. /\ \/ Set(r, Patch(Idle, <<>>))
         \/ Set(r, MoveItem(job, next, <<"context", "dispatch">>))
         \/ Set(r, MoveItem(job, next, <<"context", "waiting">>))
      /\ Begin(r) /\ UNCHANGED <<row, log, pressed, starts, fixes, uncounted>>
  BY DEF Review, job, next
<1> QED BY <1>4, <1>5, <1>6, FirstMove

LEMMA ContextKeeps == ASSUME ItemInv, NEW r \in Handlers, Context(r) PROVE ItemInv'
<1>1. /\ Fit(req[r], pressed) /\ pressed \in BOOLEAN /\ begun' \in 0 .. MaxRequests
  BY DEF ItemInv, ItemTypeOK, Context
<1>2. req[r].next \in Seq(Reachable(req[r]))
  BY <1>1 DEF Fit
<1>3. Fit(Patch(req[r], req[r].next), pressed)
  BY <1>1, <1>2, StatusNames, RequestsFit
<1> QED BY <1>1, <1>3, QuietMove DEF Context

LEMMA RestoreFits ==
  ASSUME NEW started \in BOOLEAN, NEW target, NEW next \in Seq(Reachable(Idle))
  PROVE  Fit(Restore(target, next), started)
BY BegunFits, StatusNames, RequestsFit DEF Restore

LEMMA PullRequestKeeps ==
  ASSUME ItemInv, NEW r \in Handlers,
         NEW action \in {"opened", "synchronize", "closed", "merged", "reopened"},
         PullRequest(r, action)
  PROVE  ItemInv'
<1>1. pressed \in BOOLEAN
  BY DEF ItemInv, ItemTypeOK
<1>2. /\ <<>> \in Seq(Reachable(Idle)) /\ <<"start">> \in Seq(Reachable(Idle))
      /\ <<"context", "start">> \in Seq(Reachable(Idle))
  BY Plans DEF Places
<1>3. /\ \A to \in Statuses, next \in Seq(Reachable(Idle)) :
           Fit(MoveItem(Idle, to, next), pressed) /\ Fit(Update(Idle, to, next), pressed)
      /\ \A target, next : next \in Seq(Reachable(Idle)) => Fit(Restore(target, next), pressed)
      /\ Fit(Idle, pressed)
  BY <1>1, BegunFits, RequestsFit, RestoreFits
<1> HIDE DEF Idle
<1>4. \E new : Set(r, new) /\ Fit(new, pressed)
  BY <1>2, <1>3, StatusNames DEF PullRequest
<1> QED BY <1>4, FirstMove DEF PullRequest

LEMMA IssueKeeps ==
  ASSUME ItemInv, NEW r \in Handlers, NEW action \in {"opened", "closed", "reopened"},
         Issue(r, action)
  PROVE  ItemInv'
<1>1. pressed \in BOOLEAN
  BY DEF ItemInv, ItemTypeOK
<1>2. <<>> \in Seq(Reachable(Idle)) /\ <<"start">> \in Seq(Reachable(Idle))
  BY Plans DEF Places
<1>3. /\ \A to \in Statuses, next \in Seq(Reachable(Idle)) :
           Fit(Patch(Idle, next), pressed) /\ Fit(Update(Idle, to, next), pressed)
      /\ \A target, next : next \in Seq(Reachable(Idle)) => Fit(Restore(target, next), pressed)
  BY <1>1, BegunFits, RequestsFit, RestoreFits
<1>4. \A p : (IF p THEN "issue_created" ELSE "auto_dev_pending") \in Statuses
  BY StatusNames
<1> HIDE DEF Idle
<1>5. \E new : Set(r, new) /\ Fit(new, pressed)
  <2>1. CASE action = "opened"
    BY <1>2, <1>3, <1>4, <2>1 DEF Issue
  <2>2. CASE action = "closed"
    BY <1>2, <1>3, StatusNames, <2>2 DEF Issue
  <2>3. CASE action = "reopened"
    <3>1. /\ Fit(Restore("issue", <<"start">>), pressed)
          /\ Fit(Patch(Idle, <<"start">>), pressed)
      BY <1>2, <1>3, StatusNames
    <3>2. \/ Set(r, Restore("issue", <<"start">>)) \/ Set(r, Patch(Idle, <<"start">>))
      BY <2>3 DEF Issue
    <3> QED BY <3>1, <3>2
  <2> QED BY <2>1, <2>2, <2>3
<1> QED BY <1>5, FirstMove DEF Issue

\* The button: from now on the development has been asked for.
LEMMA PressKeeps == ASSUME ItemInv, NEW r \in Handlers, Press(r) PROVE ItemInv'
<1> DEFINE new == [Idle EXCEPT !.pc = "pressed"]
<1>1. /\ row' = [row EXCEPT !.auto = "triggered"] /\ pressed' = TRUE /\ Set(r, new)
      /\ begun' \in 0 .. MaxRequests /\ UNCHANGED <<log, starts, fixes, uncounted>>
  BY ItemAssumption DEF Press, Begin, ItemInv, ItemTypeOK
<1>2. Fit(new, TRUE)
  <2>1. Fit(Idle, TRUE)
    BY IdleFits
  <2> HIDE DEF Idle
  <2>2. /\ new \in Jobs /\ new.pc = "pressed" /\ new.next = Idle.next
        /\ new.trigger = Idle.trigger /\ new.count = Idle.count
    BY <2>1 DEF Fit, Jobs, Places
  <2>3. Reachable(new) = Reachable(Idle)
    BY <2>2 DEF Reachable
  <2> QED BY <2>1, <2>2, <2>3 DEF Fit
<1> HIDE DEF new
<1>3. new \in Jobs
  BY <1>2 DEF Fit
<1>4. row' \in Rows
  BY <1>1 DEF ItemInv, ItemTypeOK, Rows
<1>5. ItemTypeOK'
  BY <1>1, <1>3, <1>4 DEF ItemInv, ItemTypeOK, Set
<1>6. \A q \in Handlers : Fit(req[q], TRUE)
  BY DEF ItemInv, Fit
<1>7. \A q \in Handlers : Fit(req'[q], TRUE)
  BY <1>1, <1>2, <1>6 DEF ItemInv, ItemTypeOK, Set
<1>8. (\A q \in Handlers : Fit(req[q], pressed))'
  BY <1>1, <1>7
<1> QED BY <1>1, <1>5, <1>8 DEF ItemInv, FixesAreBounded

LEMMA PressedKeeps == ASSUME ItemInv, NEW r \in Handlers, Pressed(r) PROVE ItemInv'
<1> DEFINE job == [req[r] EXCEPT !.copy = row]
           asked == [job EXCEPT !.auto = TRUE]
           begin == [job EXCEPT !.pc = "start"]
<1>1. /\ Fit(req[r], pressed) /\ pressed = TRUE /\ begun' \in 0 .. MaxRequests /\ row \in Rows
  BY DEF ItemInv, ItemTypeOK, Pressed, At, Fit
<1>2. /\ job \in Jobs /\ job.pc = req[r].pc /\ job.next = req[r].next
      /\ job.trigger = req[r].trigger /\ job.count = req[r].count
  BY <1>1 DEF Fit, Jobs
<1>3. Reachable(job) = Reachable(req[r])
  BY <1>2 DEF Reachable
<1>4. Fit(job, pressed)
  BY <1>1, <1>2, <1>3 DEF Fit
<1>5. Fit(asked, pressed) /\ Fit(begin, pressed)
  <2> HIDE DEF job
  <2>1. /\ asked \in Jobs /\ asked.pc = job.pc /\ asked.next = job.next
        /\ asked.trigger = job.trigger /\ asked.count = job.count
    BY <1>2 DEF Jobs
  <2>2. /\ begin \in Jobs /\ begin.pc = "start" /\ begin.next = job.next
        /\ begin.trigger = job.trigger /\ begin.count = job.count
    BY <1>2 DEF Jobs, Places
  <2>3. /\ Reachable(asked) = Reachable(job) /\ Reachable(begin) = Reachable(job)
        /\ "start" \in Reachable(job)
    BY <2>1, <2>2 DEF Reachable, Places
  <2> QED BY <1>1, <1>4, <2>1, <2>2, <2>3 DEF Fit
<1>6. \/ Set(r, Idle) \/ Set(r, Update(asked, "agent_queued", <<"start">>)) \/ Set(r, begin)
  BY DEF Pressed
<1>7. UNCHANGED <<row, log, pressed, starts, fixes, uncounted>>
  BY DEF Pressed
<1> HIDE DEF asked, begin
<1>8. Fit(Idle, pressed) /\ Fit(Update(asked, "agent_queued", <<"start">>), pressed)
  BY <1>1, <1>5, IdleFits, StatusNames, Plans, RequestsFit DEF Places
<1> QED BY <1>1, <1>5, <1>6, <1>7, <1>8, QuietMove

LEMMA FollowUpKeeps == ASSUME ItemInv, NEW r \in Handlers, FollowUp(r) PROVE ItemInv'
<1>1. pressed \in BOOLEAN /\ row.status \in Statuses
  BY DEF ItemInv, ItemTypeOK, Rows
<1>2. Fit(Patch([Idle EXCEPT !.seen = row.status], <<"follow">>), pressed)
  BY <1>1, BegunFits, StatusNames, Plans, RequestsFit DEF Places
<1> QED BY <1>2, FirstMove DEF FollowUp

LEMMA ActOnFollowUpKeeps ==
  ASSUME ItemInv, NEW r \in Handlers, ActOnFollowUp(r) PROVE ItemInv'
<1> DEFINE new == [req[r] EXCEPT !.pc = "dispatch", !.trigger = "slack_followup"]
<1>1. /\ Fit(req[r], pressed) /\ pressed \in BOOLEAN /\ begun' \in 0 .. MaxRequests
  BY DEF ItemInv, ItemTypeOK, ActOnFollowUp
<1>2. Fit(new, pressed) /\ Fit(Idle, pressed)
  BY <1>1, AsksForRepair, IdleFits
<1>3. /\ Set(r, new) \/ Set(r, Idle)
      /\ log' = Append(log, "waiting") \/ log' = log
      /\ UNCHANGED <<row, begun, pressed, starts, fixes, uncounted>>
  BY DEF ActOnFollowUp
<1> HIDE DEF new
<1>4. new \in Jobs /\ Idle \in Jobs
  BY <1>2 DEF Fit
<1>5. ItemTypeOK'
  <2>1. log' \in Seq(Triggers \cup {"waiting"})
    BY <1>3 DEF ItemInv, ItemTypeOK
  <2>2. req' \in [Handlers -> Jobs]
    BY <1>3, <1>4 DEF ItemInv, ItemTypeOK, Set
  <2> QED BY <1>3, <2>1, <2>2 DEF ItemInv, ItemTypeOK
<1>6. \A q \in Handlers : Fit(req'[q], pressed)
  BY <1>2, <1>3 DEF ItemInv, ItemTypeOK, Set
<1>7. (\A q \in Handlers : Fit(req[q], pressed))'
  BY <1>3, <1>6
<1> QED BY <1>3, <1>5, <1>7 DEF ItemInv, FixesAreBounded

LEMMA CrashKeeps == ASSUME ItemInv, NEW r \in Handlers, Crash(r) PROVE ItemInv'
<1>1. Fit(Idle, pressed) /\ begun' \in 0 .. MaxRequests
  BY IdleFits DEF ItemInv, ItemTypeOK, Crash
<1> QED BY <1>1, QuietMove DEF Crash

-----------------------------------------------------------------------------
(* The results.                                                            *)

LEMMA ItemInvInit == ItemInit => ItemInv
<1> SUFFICES ASSUME ItemInit PROVE ItemInv
  OBVIOUS
<1>1. pressed \in BOOLEAN
  BY DEF ItemInit
<1>2. Fit(Idle, pressed)
  BY <1>1, IdleFits
<1>3. Idle \in Jobs
  BY <1>2 DEF Fit
<1> HIDE DEF Idle
<1>4. \A r \in Handlers : Fit(req[r], pressed)
  BY <1>2 DEF ItemInit
<1>5. row \in Rows
  <2>1. /\ [status |-> "received", auto |-> "pending", pr |-> FALSE] \in Rows
        /\ [status |-> "pr_created", auto |-> "triggered", pr |-> TRUE] \in Rows
    BY DEF Rows, Statuses, Early
  <2> QED BY <2>1 DEF ItemInit
<1>6. ItemTypeOK
  BY <1>1, <1>3, <1>5, ItemAssumption DEF ItemInit, ItemTypeOK
<1> QED BY <1>4, <1>6, ItemAssumption DEF ItemInit, ItemInv, FixesAreBounded

LEMMA ItemInvStep == ItemInv /\ [ItemNext]_itemVars => ItemInv'
<1> SUFFICES ASSUME ItemInv, [ItemNext]_itemVars PROVE ItemInv'
  OBVIOUS
<1>1. CASE UNCHANGED itemVars
  BY <1>1 DEF itemVars, ItemInv, ItemTypeOK, FixesAreBounded, Fit, Reachable
<1>2. CASE ItemNext
  <2> PICK r \in Handlers : RequestStep(r)
    BY <1>2 DEF ItemNext
  <2>1. "review_waiting" \in Gates
    BY DEF Gates
  <2> QED
    BY <2>1, LoadKeeps, StoreKeeps, StartKeeps, DispatchKeeps, FixKeeps, RecordKeeps,
       DispatchWaitingKeeps, IssueIsReadyKeeps, PendingKeeps, AgentRunsKeeps,
       AgentMadePullRequestKeeps, ExecutorFailedKeeps, CheckRunKeeps, ReviewKeeps,
       ContextKeeps, PullRequestKeeps, IssueKeeps, PressKeeps, PressedKeeps, FollowUpKeeps,
       ActOnFollowUpKeeps, CrashKeeps
       DEF RequestStep
<1> QED BY <1>1, <1>2

LEMMA ItemInvariant == ItemSpec => []ItemInv
BY ItemInvInit, ItemInvStep, PTL DEF ItemSpec

\* However many requests meet, the item's row, its log and the jobs of the
\* requests keep their types; the log has no repair without its trigger
\* (db/repositories/platform-dev.js, platform-dev/automation.js).
THEOREM ItemTypeCorrect == ItemSpec => []ItemTypeOK
<1>1. ItemInv => ItemTypeOK
  BY DEF ItemInv
<1> QED BY <1>1, ItemInvariant, PTL

\* No agent works on a requirement that its user has not started, whichever
\* webhooks and callbacks arrive and whichever stale row is written back
\* (shouldStartWorkerForPlatformDevItem, canDispatchPlatformFix).
THEOREM WorkIsAskedFor == ItemSpec => []NoWorkBeforeTrigger
<1>1. ItemInv => NoWorkBeforeTrigger
  BY DEF ItemInv, NoWorkBeforeTrigger, ItemTypeOK
<1> QED BY <1>1, ItemInvariant, PTL

\* The repairs that the gateway starts by itself stay within the configured
\* number, but for those that had been decided before an earlier one was
\* recorded (dispatchPlatformDevFixIfNeeded).
THEOREM FixesStayBounded == ItemSpec => []FixesAreBounded
<1>1. ItemInv => FixesAreBounded
  BY DEF ItemInv
<1> QED BY <1>1, ItemInvariant, PTL

-----------------------------------------------------------------------------
(* The composition: what the run MCPipeline explores.                      *)

\* Each step moves one of the components, by one of its own actions, and
\* leaves the other three alone.
LEMMA RecordMovesAlone ==
  ASSUME Deploys # {}, RecordMoves
  PROVE  Next /\ UNCHANGED <<configVars, ownerVars, itemVars>>
<1>1. {ADeployment} \cup Rollbacks \subseteq Records
  BY DEF ADeployment, Records
<1>2. ASSUME NEW q \in {ADeployment} \cup Rollbacks,
             \/ InRecord(Create(q)) \/ InRecord(Prepare(q)) \/ InRecord(Lock(q))
             \/ InRecord(Activate(q)) \/ InRecord(Refused(q))
             \/ InRecord(Publish(q)) \/ InRecord(PublishFails(q))
             \/ InRecord(Succeed(q))
      PROVE  (\E p \in Records : Request(p)) /\ UNCHANGED <<configVars, ownerVars, itemVars>>
  <2>1. q \in Records
    BY <1>1
  <2> QED BY <1>2, <2>1 DEF InRecord, Request
<1>3. ASSUME NEW x \in {ADeployment} \cup Rollbacks \cup Visitors,
             \/ InRecord(Look(x)) \/ InRecord(Compare(x))
             \/ InRecord(Confirm(x)) \/ InRecord(Recall(x)) \/ InRecord(Fail(x))
      PROVE  /\ \E y \in Records \cup Visitors : Complete(y)
             /\ UNCHANGED <<configVars, ownerVars, itemVars>>
  <2>1. x \in Records \cup Visitors
    BY <1>1
  <2> QED BY <1>3, <2>1 DEF InRecord, Complete
<1>4. ASSUME NEW r \in Readers, InRecord(Read(r))
      PROVE  (\E p \in Readers : Read(p)) /\ UNCHANGED <<configVars, ownerVars, itemVars>>
  BY <1>4 DEF InRecord
<1>5. ASSUME NEW f \in Followers,
             InRecord(Recover(f)) \/ InRecord(Verify(f)) \/ InRecord(Delete(f))
      PROVE  (\E p \in Followers : Follow(p)) /\ UNCHANGED <<configVars, ownerVars, itemVars>>
  BY <1>5 DEF InRecord, Follow
<1> QED
  BY <1>2, <1>3, <1>4, <1>5 DEF RecordMoves, Next

LEMMA ConfigMovesAlone ==
  ASSUME ConfigMoves PROVE ConfigNext /\ UNCHANGED <<vars, ownerVars, itemVars>>
<1>1. ASSUME NEW w \in Writers,
             \/ InConfig(MutateVar(w)) \/ InConfig(MutateUnanswered(w))
             \/ InConfig(MutateRefused(w)) \/ InConfig(SyncTarget(w))
             \/ InConfig(SyncGivesUp(w)) \/ InConfig(SyncRead(w)) \/ InConfig(SyncPush(w))
             \/ InConfig(SyncPushFails(w)) \/ InConfig(SyncVerify(w))
      PROVE  ConfigNext /\ UNCHANGED <<vars, ownerVars, itemVars>>
  BY <1>1 DEF InConfig, ConfigNext
<1>2. ASSUME NEW d \in Deploys,
             \/ InConfig(ReadConfig(d)) \/ InConfig(Upload(d))
             \/ InConfig(ValidateCommit(d)) \/ InConfig(CommitConfig(d))
             \/ InConfig(CommitUnread(d)) \/ InConfig(CommitRefused(d))
             \/ InConfig(ValidateActivation(d))
             \/ InConfig(PrepareActivation(d)) \/ InConfig(LockBusy(d))
             \/ InConfig(ActivateVersion(d)) \/ InConfig(PublishVersion(d))
             \/ InConfig(PublishVersionFails(d)) \/ InConfig(RestoreCompare(d))
             \/ InConfig(RestoreConfig(d)) \/ InConfig(RestoreRefused(d))
      PROVE  ConfigNext /\ UNCHANGED <<vars, ownerVars, itemVars>>
  BY <1>2 DEF InConfig, ConfigNext
<1>3. ASSUME InConfig(Lapse) PROVE ConfigNext /\ UNCHANGED <<vars, ownerVars, itemVars>>
  BY <1>3 DEF InConfig, ConfigNext
<1> QED
  BY <1>1, <1>2, <1>3 DEF ConfigMoves

LEMMA OwnershipMovesAlone ==
  ASSUME OwnershipMoves PROVE OwnerNext /\ UNCHANGED <<vars, configVars, itemVars>>
<1>1. ASSUME NEW t \in Transfers,
             \/ InOwnership(Ask(t)) \/ InOwnership(Authorize(t))
             \/ InOwnership(Commit(t)) \/ InOwnership(CommitUnanswered(t))
             \/ InOwnership(Refresh(t)) \/ InOwnership(RouteUnread(t))
             \/ InOwnership(RefreshFails(t)) \/ InOwnership(Compensate(t))
             \/ InOwnership(RestorationFails(t)) \/ InOwnership(RefreshRestored(t))
             \/ InOwnership(RestoredUnpublished(t))
      PROVE  OwnerNext /\ UNCHANGED <<vars, configVars, itemVars>>
  BY <1>1 DEF InOwnership, OwnerNext
<1>2. ASSUME NEW u \in Users,
             \/ InOwnership(UserLeaves(u)) \/ InOwnership(KeyEnds(u))
             \/ InOwnership(GrantPlatformAdmin(u)) \/ InOwnership(RevokePlatformAdmin(u))
      PROVE  OwnerNext /\ UNCHANGED <<vars, configVars, itemVars>>
  BY <1>2 DEF InOwnership, OwnerNext
<1>3. ASSUME NEW m \in Managers,
             \/ InOwnership(CheckMember(m)) \/ InOwnership(ActMember(m))
             \/ InOwnership(CheckDeletion(m)) \/ InOwnership(ActDeletion(m))
      PROVE  OwnerNext /\ UNCHANGED <<vars, configVars, itemVars>>
  BY <1>3 DEF InOwnership, OwnerNext
<1>4. ASSUME InOwnership(MergeDepartments) \/ InOwnership(LeaseLapses)
      PROVE  OwnerNext /\ UNCHANGED <<vars, configVars, itemVars>>
  BY <1>4 DEF InOwnership, OwnerNext
<1> QED
  BY <1>1, <1>2, <1>3, <1>4 DEF OwnershipMoves

LEMMA ItemMovesAlone ==
  ASSUME ItemMoves PROVE ItemNext /\ UNCHANGED <<vars, configVars, ownerVars>>
<1>1. PICK r \in Handlers :
    \/ InItem(Load(r)) \/ InItem(Store(r)) \/ InItem(Dispatch(r))
    \/ InItem(Record(r)) \/ InItem(DispatchWaiting(r)) \/ InItem(Context(r))
    \/ \E started \in BOOLEAN : InItem(Start(r, started)) \/ InItem(Fix(r, started))
    \/ InItem(IssueIsReady(r)) \/ InItem(Pending(r)) \/ InItem(AgentRuns(r))
    \/ InItem(AgentMadePullRequest(r)) \/ InItem(ExecutorFailed(r))
    \/ \E result \in {"running", "failed"} : InItem(CheckRun(r, result, "review_waiting"))
    \/ \E gate \in Gates : InItem(CheckRun(r, "passed", gate))
    \/ \E verdict \in {"blocking", "passed", "waiting"} :
         InItem(Review(r, verdict = "blocking", verdict = "passed"))
    \/ \E action \in {"opened", "synchronize", "closed", "merged", "reopened"} :
         InItem(PullRequest(r, action))
    \/ \E action \in {"opened", "closed", "reopened"} : InItem(Issue(r, action))
    \/ InItem(Press(r)) \/ InItem(Pressed(r)) \/ InItem(FollowUp(r))
    \/ InItem(ActOnFollowUp(r)) \/ InItem(Crash(r))
  BY DEF ItemMoves
<1>2. ASSUME NEW verdict \in {"blocking", "passed", "waiting"},
             InItem(Review(r, verdict = "blocking", verdict = "passed"))
      PROVE  RequestStep(r) /\ UNCHANGED <<vars, configVars, ownerVars>>
  <2>1. PICK blocking \in BOOLEAN, passed \in BOOLEAN :
          /\ blocking = (verdict = "blocking") /\ passed = (verdict = "passed")
          /\ ~(blocking /\ passed)
    OBVIOUS
  <2>2. Review(r, blocking, passed) /\ UNCHANGED <<vars, configVars, ownerVars>>
    BY <1>2, <2>1 DEF InItem
  <2> QED BY <2>1, <2>2 DEF RequestStep
<1>3. RequestStep(r) /\ UNCHANGED <<vars, configVars, ownerVars>>
  BY <1>1, <1>2 DEF InItem, RequestStep
<1> QED BY <1>3 DEF ItemNext

\* What the run explores are behaviours of each of the four specifications, so
\* that what is proved of a component holds in the run, whichever moves.
THEOREM PipelineIsItsComponents ==
  ASSUME Deploys # {} PROVE MCSpec => Spec /\ ConfigSpec /\ OwnershipSpec /\ ItemSpec
<1>1. MCInit => Init /\ ConfigInit /\ OwnerInit /\ ItemInit
  BY DEF MCInit
<1>2. [MCNext]_pipelineVars =>
        [Next]_vars /\ [ConfigNext]_configVars /\ [OwnerNext]_ownerVars /\ [ItemNext]_itemVars
  <2>1. CASE RecordMoves
    BY <2>1, RecordMovesAlone
  <2>2. CASE ConfigMoves
    BY <2>2, ConfigMovesAlone
  <2>3. CASE OwnershipMoves
    BY <2>3, OwnershipMovesAlone
  <2>4. CASE ItemMoves
    BY <2>4, ItemMovesAlone
  <2>5. CASE UNCHANGED pipelineVars
    BY <2>5 DEF pipelineVars
  <2> QED BY <2>1, <2>2, <2>3, <2>4, <2>5 DEF MCNext
<1> QED BY <1>1, <1>2, PTL DEF MCSpec, Spec, ConfigSpec, OwnershipSpec, ItemSpec

\* No component of the run leaves its types, for any constants.
THEOREM PipelineTypesCorrect ==
  ASSUME KindsDiffer, OwnersDiffer, IsFiniteSet(Transfers), Deploys # {}
  PROVE  MCSpec => []PipelineTypeOK
<1>1. ConfigTypeInv => ConfigTypeOK
  BY DEF ConfigTypeInv
<1>2. TypeOK /\ ConfigTypeOK /\ OwnershipTypeOK /\ ItemTypeOK => PipelineTypeOK
  BY DEF PipelineTypeOK
<1> QED
  BY <1>1, <1>2, PipelineIsItsComponents, TypeCorrect, ConfigTypeCorrect, OwnershipTypeCorrect,
     ItemTypeCorrect, PTL
=============================================================================
