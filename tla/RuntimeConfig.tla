--------------------------- MODULE RuntimeConfig ---------------------------
(***************************************************************************)
(* The variables of one site, and the Workers that carry them              *)
(* (runtime-config-mutation.js, runtime-config-sync.js and the runtime     *)
(* stages of a deployment).  D1 holds the current variables.  A deployment *)
(* reads them, uploads a Worker that carries them and validates what it    *)
(* read once more before it takes the site's commit lock; a request that   *)
(* changes a variable writes D1 and then the Worker that is active, under  *)
(* the site's commit lock and the runtime lock.                            *)
(*                                                                         *)
(* Both locks are leases: a handler that is held up loses them and goes on *)
(* (SiteCommitLock.tla has the commit lock).  Secrets take the same path,  *)
(* name by name.                                                           *)
(***************************************************************************)
EXTENDS Naturals, FiniteSets, DeploymentNames

CONSTANTS
  Names,      \* names of variables
  Writers,    \* PUT /vars requests, each of one variable
  NameOf,     \* the variable a writer sets
  Declaring,  \* the deployments that bring variables of their own
  MaxLapses,  \* bound on leases lost by a handler that goes on
  MaxSlips    \* bound on provider calls and D1 writes that fail

ASSUME ConfigAssumption ==
  /\ Declaring \subseteq Deploys
  /\ Writers \cap Deploys = {}
  /\ First \notin Writers \cup Deploys
  /\ Nobody \notin Writers \cup Deploys \cup {First}
  /\ Nobody \notin {"conflict", "next_deployment", "active_worker", "changed", "failed",
                 "succeeded"}
  /\ NameOf \in [Writers -> Names]
  /\ MaxLapses \in Nat /\ MaxSlips \in Nat

VARIABLES
  values,      \* site_vars: the value of every name
  generation,  \* runtime_config_generation
  routed,      \* active_version_id
  bindings,    \* per version: the variables its Worker carries
  siteLock, configLock,
  progress,    \* per request: how far it is
  seen,        \* per request: what it read (see Reading)
  resolved,    \* per writer: the Worker it found; per deployment: the version before
  answer,      \* per request: its answer, Nobody until there is one
  lost, faults,
  raced,       \* history: deployments activated after a change they did not read
  unrestored,  \* history: deployments whose variables could not be taken back
  unanswered,  \* history: deployments whose commit took effect and failed for them
  hasty        \* history: deployments that replaced what was written after they compared

locks == <<siteLock, configLock>>
bounds == <<lost, faults>>
history == <<raced, unrestored, unanswered, hasty>>
configVars == <<values, generation, routed, bindings, siteLock, configLock, progress, seen,
                resolved, answer, lost, faults, raced, unrestored, unanswered, hasty>>

Requests == Writers \cup Deploys
Versions == Deploys \cup {First}
Everywhere(x) == [n \in Names |-> x]

\* The variables, the generation they had, the generation the activation
\* expects of the route, and the variables to go back to.
Reading ==
  [values |-> values, generation |-> generation, expected |-> generation, original |-> values]

ConfigInit ==
  /\ values = Everywhere(First)
  /\ generation = 0
  /\ routed = First
  /\ bindings = [v \in Versions |-> IF v = First THEN Everywhere(First) ELSE Everywhere(Nobody)]
  /\ siteLock = Nobody
  /\ configLock = Nobody
  /\ progress = [p \in Requests |-> "new"]
  /\ seen = [p \in Requests |-> Reading]
  /\ resolved = [p \in Requests |-> Nobody]
  /\ answer = [p \in Requests |-> Nobody]
  /\ lost = 0
  /\ faults = 0
  /\ raced = {}
  /\ unrestored = {}
  /\ unanswered = {}
  /\ hasty = {}

\* Records of variables carry revisions: two readings are equal when nothing
\* was written between them, which the generation tells.
Unchanged(p) == seen[p].generation = generation
Go(p, s) == progress' = [progress EXCEPT ![p] = s]
Answer(p, a) == Go(p, "done") /\ answer' = [answer EXCEPT ![p] = a]
See(p, s) == seen' = [seen EXCEPT ![p] = s]
Free(lock, p) == IF lock = p THEN Nobody ELSE lock
ReleaseBoth(p) == siteLock' = Free(siteLock, p) /\ configLock' = Free(configLock, p)

\* One write of site_vars, under a runtime lock of its own: the batch bumps
\* the generation and releases the lock.  With the lock taken it is refused.
Write(new) ==
  /\ configLock = Nobody
  /\ values' = new
  /\ generation' = generation + 1

Slip == faults < MaxSlips /\ faults' = faults + 1

\* replaceVars of a deployment: whatever was written since it compared is lost.
Replace(d, new) ==
  /\ Write(new)
  /\ hasty' = IF Unchanged(d) THEN hasty ELSE hasty \cup {d}

\* Slips: the sync answers without comparing; a refused request is left without
\* an answer; the restoration writes what the deployment brought.
SyncVerifyNothing(w) ==
  /\ progress[w] = "pushed"
  /\ ReleaseBoth(w)
  /\ Answer(w, "active_worker")
  /\ UNCHANGED <<values, generation, routed, bindings, seen, resolved, bounds, history>>

RejectSilently(d) ==
  /\ Go(d, "done")
  /\ UNCHANGED <<values, generation, routed, bindings, locks, seen, resolved, answer, bounds,
                 history>>

RestoreCommitted(d) ==
  /\ progress[d] = "restoring"
  /\ Replace(d, seen[d].values)
  /\ Answer(d, "failed")
  /\ UNCHANGED <<routed, bindings, locks, seen, resolved, bounds, raced, unrestored,
                 unanswered>>

-----------------------------------------------------------------------------
(* Requests that change a variable.                                        *)

MutateVar(w) ==
  /\ progress[w] = "new"
  /\ Write([values EXCEPT ![NameOf[w]] = w])
  /\ Go(w, "mutated")
  /\ UNCHANGED <<routed, bindings, locks, seen, resolved, answer, bounds, history>>

\* The batch takes effect and its answer is lost, or the variables cannot be read
\* after it: the caller is told of a failure, and nothing is synced.
MutateUnanswered(w) ==
  /\ progress[w] = "new"
  /\ Slip
  /\ Write([values EXCEPT ![NameOf[w]] = w])
  /\ Answer(w, "failed")
  /\ UNCHANGED <<routed, bindings, locks, seen, resolved, lost, history>>

MutateRefused(w) ==
  /\ progress[w] = "new"
  /\ configLock # Nobody
  /\ Answer(w, "conflict")
  /\ UNCHANGED <<values, generation, routed, bindings, locks, seen, resolved, bounds, history>>

\* syncPlainText: under the commit lock the active Worker is resolved ...
SyncTarget(w) ==
  /\ progress[w] = "mutated"
  /\ siteLock = Nobody
  /\ siteLock' = w
  /\ resolved' = [resolved EXCEPT ![w] = routed]
  /\ Go(w, "leased")
  /\ UNCHANGED <<values, generation, routed, bindings, configLock, seen, answer, bounds, history>>

\* ... and a commit lock that stays busy leaves the change to the next deployment.
SyncGivesUp(w) ==
  /\ progress[w] = "mutated"
  /\ siteLock # Nobody
  /\ Answer(w, "next_deployment")
  /\ UNCHANGED <<values, generation, routed, bindings, locks, seen, resolved, bounds, history>>

SyncChanged(w) ==
  /\ ReleaseBoth(w)
  /\ Answer(w, "changed")
  /\ UNCHANGED <<values, generation, routed, bindings, seen, resolved, bounds, history>>

\* Under the runtime lock too the target is compared, and D1 is read again.
SyncRead(w) ==
  /\ progress[w] = "leased"
  /\ IF configLock # Nobody \/ routed # resolved[w]
     THEN SyncChanged(w)
     ELSE /\ configLock' = w
          /\ See(w, Reading)
          /\ Go(w, "read")
          /\ UNCHANGED <<values, generation, routed, bindings, siteLock, resolved, answer,
                         bounds, history>>

\* replacePlainTextBindings; a call that fails may have been carried out.
SyncPush(w) ==
  /\ progress[w] = "read"
  /\ bindings' = [bindings EXCEPT ![resolved[w]] = seen[w].values]
  /\ Go(w, "pushed")
  /\ UNCHANGED <<values, generation, routed, locks, seen, resolved, answer, bounds, history>>

SyncPushFails(w) ==
  /\ progress[w] = "read"
  /\ Slip
  /\ bindings' \in {bindings, [bindings EXCEPT ![resolved[w]] = seen[w].values]}
  /\ ReleaseBoth(w)
  /\ Answer(w, "failed")
  /\ UNCHANGED <<values, generation, routed, seen, resolved, lost, history>>

\* The target is compared once more, and a runtime lock that was lost tells.
SyncVerify(w) ==
  /\ progress[w] = "pushed"
  /\ IF configLock # w \/ routed # resolved[w]
     THEN SyncChanged(w)
     ELSE /\ ReleaseBoth(w)
          /\ Answer(w, "active_worker")
          /\ UNCHANGED <<values, generation, routed, bindings, seen, resolved, bounds, history>>

-----------------------------------------------------------------------------
(* Deployments.                                                            *)

Wanted(d) == IF d \in Declaring THEN Everywhere(d) ELSE seen[d].values

\* resolve-runtime-config.js
ReadConfig(d) ==
  /\ progress[d] = "new"
  /\ See(d, Reading)
  /\ Go(d, "resolved")
  /\ UNCHANGED <<values, generation, routed, bindings, locks, resolved, answer, bounds, history>>

Reject(d) ==
  /\ Answer(d, "failed")
  /\ UNCHANGED <<values, generation, routed, bindings, locks, seen, resolved, bounds, history>>

\* The upload, and the validation that follows it.
Upload(d) ==
  /\ progress[d] = "resolved"
  /\ bindings' = [bindings EXCEPT ![d] = Wanted(d)]
  /\ IF Unchanged(d) THEN Go(d, "uploaded") /\ UNCHANGED answer ELSE Answer(d, "failed")
  /\ UNCHANGED <<values, generation, routed, locks, seen, resolved, bounds, history>>

\* commit-runtime-config.js: the snapshot is validated, and replaced later.
ValidateCommit(d) ==
  /\ progress[d] = "uploaded"
  /\ CASE d \notin Declaring -> Go(d, "ready") /\ UNCHANGED answer
       [] d \in Declaring /\ Unchanged(d) -> Go(d, "committing") /\ UNCHANGED answer
       [] OTHER -> Answer(d, "failed")
  /\ UNCHANGED <<values, generation, routed, bindings, locks, seen, resolved, bounds, history>>

CommitConfig(d) ==
  /\ progress[d] = "committing"
  /\ Replace(d, Wanted(d))
  /\ See(d, [values |-> Wanted(d), generation |-> generation + 1,
             expected |-> seen[d].expected, original |-> seen[d].original])
  /\ Go(d, "ready")
  /\ UNCHANGED <<routed, bindings, locks, resolved, answer, bounds, raced, unrestored,
                 unanswered>>

\* The batch takes effect, and its answer or the reading after it fails: that is
\* mutation_failed too, and the deployment ends without a restoration
\* (deployment-upload-stage.js).
CommitUnread(d) ==
  /\ progress[d] = "committing"
  /\ Slip
  /\ Replace(d, Wanted(d))
  /\ unanswered' = unanswered \cup {d}
  /\ Answer(d, "failed")
  /\ UNCHANGED <<routed, bindings, locks, seen, resolved, lost, raced, unrestored>>

CommitRefused(d) ==
  /\ progress[d] = "committing"
  /\ configLock # Nobody
  /\ Reject(d)

\* deploy-site-handler.js: the last validation comes before the commit lock.
ValidateActivation(d) ==
  /\ progress[d] = "ready"
  /\ Go(d, IF Unchanged(d) THEN "validated" ELSE "failing")
  /\ UNCHANGED <<values, generation, routed, bindings, locks, seen, resolved, answer, bounds,
                 history>>

\* prepare-route-activation.js: the route that is read under the lock is the
\* one the batch expects, with the generation it has by now.
PrepareActivation(d) ==
  /\ progress[d] = "validated"
  /\ siteLock = Nobody
  /\ siteLock' = d
  /\ raced' = IF Unchanged(d) THEN raced ELSE raced \cup {d}
  /\ See(d, [seen[d] EXCEPT !.expected = generation])
  /\ resolved' = [resolved EXCEPT ![d] = routed]
  /\ Go(d, "prepared")
  /\ UNCHANGED <<values, generation, routed, bindings, configLock, answer, bounds, unrestored,
                 unanswered, hasty>>

LockBusy(d) ==
  /\ progress[d] = "validated"
  /\ siteLock # Nobody
  /\ Go(d, "failing")
  /\ UNCHANGED <<values, generation, routed, bindings, locks, seen, resolved, answer, bounds,
                 history>>

ActivateVersion(d) ==
  /\ progress[d] = "prepared"
  /\ IF siteLock = d /\ generation = seen[d].expected
     THEN routed' = d /\ Go(d, "activated") /\ UNCHANGED siteLock
     ELSE Go(d, "failing") /\ siteLock' = Free(siteLock, d) /\ UNCHANGED routed
  /\ UNCHANGED <<values, generation, bindings, configLock, seen, resolved, answer, bounds, history>>

PublishVersion(d) ==
  /\ progress[d] = "activated"
  /\ siteLock' = Free(siteLock, d)
  /\ Answer(d, "succeeded")
  /\ UNCHANGED <<values, generation, routed, bindings, configLock, seen, resolved, bounds, history>>

\* The route leads back to the version before, if the lock is still held and
\* D1 answers; an activation that failed for its handler ends like this too.
PublishVersionFails(d) ==
  /\ progress[d] = "activated"
  /\ Slip
  /\ routed' \in {routed} \cup (IF siteLock = d THEN {resolved[d]} ELSE {})
  /\ siteLock' = Free(siteLock, d)
  /\ Go(d, "failing")
  /\ UNCHANGED <<values, generation, bindings, configLock, seen, resolved, answer, lost, history>>

\* restore-runtime-config.js compares and then replaces.
RestoreCompare(d) ==
  /\ progress[d] = "failing"
  /\ IF d \in Declaring /\ Unchanged(d)
     THEN Go(d, "restoring") /\ UNCHANGED <<answer, unrestored>>
     ELSE /\ Answer(d, "failed")
          /\ unrestored' = IF d \in Declaring THEN unrestored \cup {d} ELSE unrestored
  /\ UNCHANGED <<values, generation, routed, bindings, locks, seen, resolved, bounds, raced,
                 unanswered, hasty>>

\* ... and the handler does not ask how that ended: a restoration that took effect
\* and failed for it is the same step.
RestoreConfig(d) ==
  /\ progress[d] = "restoring"
  /\ Replace(d, seen[d].original)
  /\ Answer(d, "failed")
  /\ UNCHANGED <<routed, bindings, locks, seen, resolved, bounds, raced, unrestored,
                 unanswered>>

\* The runtime lock is taken, or D1 fails.
RestoreRefused(d) ==
  /\ progress[d] = "restoring"
  /\ \/ configLock # Nobody /\ UNCHANGED faults
     \/ Slip
  /\ unrestored' = unrestored \cup {d}
  /\ Answer(d, "failed")
  /\ UNCHANGED <<values, generation, routed, bindings, locks, seen, resolved, lost, raced,
                 unanswered, hasty>>

-----------------------------------------------------------------------------
\* A lease that ran out is free for the next; its holder does not know.
Lapse ==
  /\ lost < MaxLapses
  /\ lost' = lost + 1
  /\ \/ siteLock # Nobody /\ siteLock' = Nobody /\ UNCHANGED configLock
     \/ configLock # Nobody /\ configLock' = Nobody /\ UNCHANGED siteLock
  /\ UNCHANGED <<values, generation, routed, bindings, progress, seen, resolved, answer, faults,
                 history>>

ConfigNext ==
  \/ \E w \in Writers :
       \/ MutateVar(w) \/ MutateUnanswered(w) \/ MutateRefused(w)
       \/ SyncTarget(w) \/ SyncGivesUp(w)
       \/ SyncRead(w) \/ SyncPush(w) \/ SyncPushFails(w) \/ SyncVerify(w)
  \/ \E d \in Deploys :
       \/ ReadConfig(d) \/ Upload(d) \/ ValidateCommit(d) \/ CommitConfig(d)
       \/ CommitUnread(d) \/ CommitRefused(d) \/ ValidateActivation(d)
       \/ PrepareActivation(d) \/ LockBusy(d)
       \/ ActivateVersion(d) \/ PublishVersion(d) \/ PublishVersionFails(d)
       \/ RestoreCompare(d) \/ RestoreConfig(d) \/ RestoreRefused(d)
  \/ Lapse

ConfigSpec == ConfigInit /\ [][ConfigNext]_configVars

-----------------------------------------------------------------------------
(* Properties.                                                             *)

Values == Requests \cup {First, Nobody}
Texts == [Names -> Values]
Stages == {"new", "mutated", "leased", "read", "pushed", "resolved", "uploaded", "committing",
           "ready", "validated", "prepared", "activated", "failing", "restoring", "done"}
Answers == {Nobody, "conflict", "next_deployment", "active_worker", "changed", "failed",
            "succeeded"}

\* Types: D1's variables and those of every Worker are whole readings; the
\* locks are held by requests; one that is done has its answer.
ConfigTypeOK ==
  /\ values \in Texts
  /\ bindings \in [Versions -> Texts]
  /\ routed \in Versions
  /\ generation \in Nat
  /\ {siteLock, configLock} \subseteq Requests \cup {Nobody}
  /\ progress \in [Requests -> Stages]
  /\ seen \in [Requests -> [values : Texts, generation : Nat, expected : Nat, original : Texts]]
  /\ resolved \in [Requests -> Versions \cup {Nobody}]
  /\ answer \in [Requests -> Answers]
  /\ \A p \in Requests : progress[p] = "done" <=> answer[p] # Nobody
  /\ lost \in 0 .. MaxLapses /\ faults \in 0 .. MaxSlips
  /\ raced \subseteq Deploys /\ hasty \subseteq Deploys
  /\ unrestored \subseteq Deploys /\ unanswered \subseteq Deploys

\* Every request that has come has ended.
Quiet == \A p \in Requests : progress[p] \in {"new", "done"}

\* When no request is under way, and the last writer of each variable was told
\* "active_worker", the active Worker carries what D1 says, whatever order the
\* syncs and the deployments came in.  Three things void the promise: a sync
\* that told its caller to retry, a deployment with variables of its own that
\* failed (its values may have been synced before they were taken back), and a
\* deployment that was raced: its last validation comes before the commit
\* lock, so that it may activate a value that was replaced or deleted.
ConfigReachesWorker ==
  /\ Quiet
  /\ raced = {}
  /\ \A w \in Writers : answer[w] \notin {"failed", "changed"}
  /\ \A d \in Declaring : answer[d] \in {Nobody, "succeeded"}
  /\ \A n \in Names : values[n] \in Writers => answer[values[n]] = "active_worker"
  => bindings[routed] = values

\* The variables of a deployment that failed are not left in D1 for the next
\* one to read, unless something was written after them and the restoration
\* found itself stale, or was refused, or the commit itself failed for the
\* deployment after it took effect.  The comparison and the replacement are
\* two steps, of the commit as of the restoration: what another deployment read
\* comes back when that one replaces what it has not seen.
FailedConfigIsWithdrawn ==
  \A d \in Declaring \ (unrestored \cup unanswered) : \A n \in Names :
    answer[d] = "failed" /\ values[n] = d
      => \E e \in hasty : seen[e].original[n] = d
=============================================================================
