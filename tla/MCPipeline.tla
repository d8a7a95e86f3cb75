----------------------------- MODULE MCPipeline -----------------------------
(* TLC instance of DeploymentRecord, RuntimeConfig, SiteOwnership and      *)
(* PlatformDev.  They are checked in one run, each for itself: "part" says *)
(* which one moves, and the others rest in their initial states.           *)
EXTENDS DeploymentRecord, RuntimeConfig, SiteOwnership, PlatformDev, TLC

VARIABLE part

pipelineVars == <<part, vars, configVars, ownerVars, itemVars>>

InRecord(A) == part = "record" /\ A /\ UNCHANGED <<part, configVars, ownerVars, itemVars>>
\* Three requests meet here: what is lost meets two, or both writers and a
\* deployment.  Requests that differ in nothing begin in one order.
ADeclaring == CHOOSE d \in Declaring : TRUE
AWriter == CHOOSE w \in Writers : TRUE

Meeting(met) ==
  /\ Cardinality(met) <= IF lost' + faults' = 0 \/ Writers \subseteq met THEN 3 ELSE 2
  /\ met \cap Declaring # {} => ADeclaring \in met
  /\ met \cap Writers # {} => AWriter \in met

InConfig(A) ==
  /\ part = "config" /\ A /\ UNCHANGED <<part, vars, ownerVars, itemVars>>
  /\ Meeting({p \in Requests : progress'[p] # "new"})
InOwnership(A) == part = "ownership" /\ A /\ UNCHANGED <<part, vars, configVars, itemVars>>
InItem(A) == part = "item" /\ A /\ UNCHANGED <<part, vars, configVars, ownerVars>>

\* One deployment meets the rollbacks and the visitors.
ADeployment == CHOOSE d \in Deploys : TRUE
AnyUser == CHOOSE u \in Users : TRUE
ADepartment == CHOOSE t \in Departments : TRUE

MCInit ==
  /\ Init /\ ConfigInit /\ OwnerInit /\ ItemInit
  /\ part \in {"record", "config", "ownership", "item"}
  /\ part # "ownership" => \A t \in Custom : role[t][AnyUser] = "admin"
  /\ admins \in {Users \ {FirstOwner}, Users}
  /\ \A t \in Departments : role[t][FirstOwner] = "admin" <=> t = ADepartment
  /\ part # "ownership" => admins = Users
  /\ pressed => part = "item"

RecordMoves ==
  \/ \E q \in {ADeployment} \cup Rollbacks :
       \/ InRecord(Create(q)) \/ InRecord(Prepare(q)) \/ InRecord(Lock(q))
       \/ InRecord(Activate(q)) \/ InRecord(Refused(q))
       \/ InRecord(Publish(q)) \/ InRecord(PublishFails(q))
       \/ InRecord(Succeed(q))
  \/ \E x \in {ADeployment} \cup Rollbacks \cup Visitors :
       \/ InRecord(Look(x)) \/ InRecord(Compare(x))
       \/ InRecord(Confirm(x)) \/ InRecord(Recall(x)) \/ InRecord(Fail(x))
  \/ \E r \in Readers : InRecord(Read(r))
  \/ \E f \in Followers :
       InRecord(Recover(f)) \/ InRecord(Verify(f)) \/ InRecord(Delete(f))

ConfigMoves ==
  \/ \E w \in Writers :
       \/ InConfig(MutateVar(w)) \/ InConfig(MutateUnanswered(w))
       \/ InConfig(MutateRefused(w))
       \/ InConfig(SyncTarget(w)) \/ InConfig(SyncGivesUp(w))
       \/ InConfig(SyncRead(w)) \/ InConfig(SyncPush(w))
       \/ InConfig(SyncPushFails(w)) \/ InConfig(SyncVerify(w))
  \/ \E d \in Deploys :
       \/ InConfig(ReadConfig(d)) \/ InConfig(Upload(d))
       \/ InConfig(ValidateCommit(d)) \/ InConfig(CommitConfig(d))
       \/ InConfig(CommitUnread(d)) \/ InConfig(CommitRefused(d))
       \/ InConfig(ValidateActivation(d))
       \/ InConfig(PrepareActivation(d)) \/ InConfig(LockBusy(d))
       \/ InConfig(ActivateVersion(d)) \/ InConfig(PublishVersion(d))
       \/ InConfig(PublishVersionFails(d)) \/ InConfig(RestoreCompare(d))
       \/ InConfig(RestoreConfig(d)) \/ InConfig(RestoreRefused(d))
  \/ InConfig(Lapse)

OwnershipMoves ==
  \/ \E t \in Transfers :
       \/ InOwnership(Ask(t)) \/ InOwnership(Authorize(t))
       \/ InOwnership(Commit(t)) \/ InOwnership(CommitUnanswered(t))
       \/ InOwnership(Refresh(t)) \/ InOwnership(RouteUnread(t))
       \/ InOwnership(RefreshFails(t)) \/ InOwnership(Compensate(t))
       \/ InOwnership(RestorationFails(t)) \/ InOwnership(RefreshRestored(t))
       \/ InOwnership(RestoredUnpublished(t))
  \/ \E u \in Users :
       \/ InOwnership(UserLeaves(u)) \/ InOwnership(KeyEnds(u))
       \/ InOwnership(GrantPlatformAdmin(u))
       \/ InOwnership(RevokePlatformAdmin(u))
  \/ \E m \in Managers :
       \/ InOwnership(CheckMember(m)) \/ InOwnership(ActMember(m))
       \/ InOwnership(CheckDeletion(m)) \/ InOwnership(ActDeletion(m))
  \/ InOwnership(MergeDepartments)
  \/ InOwnership(LeaseLapses)

ItemMoves ==
  \E r \in Handlers :
    \/ InItem(Load(r)) \/ InItem(Store(r)) \/ InItem(Dispatch(r))
    \/ InItem(Record(r)) \/ InItem(DispatchWaiting(r)) \/ InItem(Context(r))
    \/ \E started \in BOOLEAN :
         InItem(Start(r, started)) \/ InItem(Fix(r, started))
    \/ InItem(IssueIsReady(r)) \/ InItem(Pending(r)) \/ InItem(AgentRuns(r))
    \/ InItem(AgentMadePullRequest(r)) \/ InItem(ExecutorFailed(r))
    \/ \E result \in {"running", "failed"} : InItem(CheckRun(r, result, "review_waiting"))
    \/ \E gate \in Gates : InItem(CheckRun(r, "passed", gate))
    \/ \E verdict \in {"blocking", "passed", "waiting"} :
         InItem(Review(r, verdict = "blocking", verdict = "passed"))
    \/ \E action \in {"opened", "synchronize", "closed", "merged", "reopened"} :
         InItem(PullRequest(r, action))
    \/ \E action \in {"opened", "closed", "reopened"} : InItem(Issue(r, action))
    \/ InItem(Press(r)) \/ InItem(Pressed(r)) \/ InItem(FollowUp(r))
    \/ InItem(ActOnFollowUp(r)) \/ InItem(Crash(r))

MCNext == RecordMoves \/ ConfigMoves \/ OwnershipMoves \/ ItemMoves

MCSpec == MCInit /\ [][MCNext]_pipelineVars

\* The type invariants of the components.  The other invariants of the run
\* are stated and explained in their modules.
PipelineTypeOK == TypeOK /\ ConfigTypeOK /\ OwnershipTypeOK /\ ItemTypeOK

\* Each writer has a variable of its own.
MCNameOf ==
  CHOOSE f \in [Writers -> Names] : \A v, w \in Writers : v # w => f[v] # f[w]
=============================================================================
