----------------------------- MODULE MCProgress -----------------------------
(* TLC instance of what must happen in the end: WorkerCleanup,             *)
(* DeploymentRecord and SiteNames, each under the fairness of its FairSpec *)
(* and with the faults that its promise withstands.  They are checked in   *)
(* one run, each for itself: "part" says which one moves, and the others   *)
(* rest in their initial states.                                           *)
EXTENDS Integers, Sequences, FiniteSets, TLC

CONSTANTS
  None,
  Deployments, Returns, Runners, Initial, MaxTasks, MaxRunStops, Faults,
  Deploys, Rollbacks, Readers, Followers, First, MaxLosses,
  Sites, Hostnames, Unreachable, MaxGeneration, MaxStops

VARIABLES
  part,
  \* WorkerCleanup
  route, offered, succeeded, tasks, published, cached, workers, lock, pc, base, target,
  running, runStops, outdated, unrecorded, withdrawn,
  \* DeploymentRecord
  active, status, version, markers, holder, step, previous, subject, before,
  losses, wasActive, filed,
  \* SiteNames
  site, claim, pointer, tombstone, work, queue, late, stops, abandoned

Cleanup == INSTANCE WorkerCleanup WITH
  Rollbacks <- Returns, MaxStops <- MaxRunStops, stops <- runStops
Record == INSTANCE DeploymentRecord WITH Nobody <- None
Hosts == INSTANCE SiteNames WITH Users <- {}, Nobody <- None, Freshness <- 0

cleanupVars == <<route, offered, succeeded, tasks, published, cached, workers, lock, pc,
                 base, target, running, runStops, outdated, unrecorded,
                 withdrawn>>
recordVars == <<active, status, version, markers, holder, step, previous, subject, before,
                losses, wasActive, filed>>
namesVars == <<site, claim, pointer, tombstone, work, queue, late, stops, abandoned>>

InCleanup(A) == part = "cleanup" /\ A /\ UNCHANGED <<part, recordVars, namesVars>>
InRecord(A) == part = "record" /\ A /\ UNCHANGED <<part, cleanupVars, namesVars>>
InNames(A) == part = "names" /\ A /\ UNCHANGED <<part, cleanupVars, recordVars>>

MCInit ==
  /\ part \in {"cleanup", "record", "names"}
  /\ Cleanup!Init /\ Record!Init /\ Hosts!NamesInit

MCNext ==
  InCleanup(Cleanup!Next) \/ InRecord(Record!Next) \/ InNames(Hosts!NamesNext)

all == <<part, cleanupVars, recordVars, namesVars>>

Fairness ==
  /\ \A e \in Runners :
       WF_all(InCleanup(Cleanup!Pick(e))) /\ WF_all(InCleanup(Cleanup!Execute(e)))
  /\ \A t \in 1 .. MaxTasks : WF_all(InCleanup(t \in DOMAIN tasks /\ Cleanup!LeaseEnds(t)))
  /\ \A f \in Followers :
       WF_all(InRecord(Record!Follow(f))) /\ WF_all(InRecord(Record!Complete(f)))
  /\ \A s \in Sites :
       /\ WF_all(InNames(Hosts!Synchronise(s))) /\ WF_all(InNames(Hosts!Delete(s)))
       /\ WF_all(InNames(Hosts!PublishRoute(s))) /\ SF_all(InNames(Hosts!Reconcile(s)))
       /\ SF_all(InNames(Hosts!Repair(s))) /\ SF_all(InNames(Hosts!ReleaseSlug(s)))
       /\ SF_all(InNames(Hosts!ClearRetired(s)))

MCSpec == MCInit /\ [][MCNext]_all /\ Fairness

----------------------------------------------------------------------------
(* The properties of the instances, which are stated and explained there.  *)

\* No cleanup task stays running.
NoTaskIsStranded == part = "cleanup" => Cleanup!NoTaskIsStranded

\* A failure that could not be recorded is settled.
FailureIsSettled == part = "record" => Record!FailureIsSettled

\* The routing of a renamed site settles.
RenameSettles == part = "names" => Hosts!RenameSettles
=============================================================================
