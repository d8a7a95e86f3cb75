---------------------------- MODULE LeaseProofs ----------------------------
(***************************************************************************)
(* Theorems about the two leases: the commit lock of a site, for any       *)
(* number of sessions and any durations, and the key of an agent's turn,   *)
(* for any number of messages and handlers.                                *)
(***************************************************************************)
EXTENDS SiteCommitLock, AgentTurns, TLAPS

\* Once a session has taken the row, there is a row.
RowExists == \A s \in Sessions : pc[s] \notin {"idle", "acquire", "done"} => lock # None

\* A session renews only from its callback on.
RenewalsBelongToCallbacks ==
  \A s \in Sessions : pc[s] \in {"idle", "acquire", "confirm", "done"} => renewal[s] = None

\* The type invariant becomes inductive with the existence of the row.
TypeInv == TypeOK /\ RowExists /\ RenewalsBelongToCallbacks

\* The initial state has its types.
LEMMA TypeInvInit == Init => TypeInv
<1> SUFFICES ASSUME Init PROVE TypeInv
  OBVIOUS
<1> QED
  BY SiteCommitLockAssumption, LockNoneAssumption
  DEF Init, TypeInv, TypeOK, RowExists,
      RenewalsBelongToCallbacks, Steps

\* What a call leaves behind when it returns has the right types.
LEMMA ReturnKeepsTypes ==
  ASSUME NEW s \in Sessions, TypeInv, Return(s), UNCHANGED <<clock, lock, committer>>
  PROVE  TypeInv'
BY SiteCommitLockAssumption, LockNoneAssumption
DEF Return, TypeInv, TypeOK, RowExists, RenewalsBelongToCallbacks, Steps, InCallback, clock

\* So has what it leaves behind when it polls again.
LEMMA NoLockKeepsTypes ==
  ASSUME NEW s \in Sessions, TypeInv, pc[s] \in {"acquire", "confirm"}, NotAcquired(s)
  PROVE  TypeInv'
<1>1. CASE Return(s)
  BY <1>1, ReturnKeepsTypes DEF NotAcquired
<1>2. CASE /\ pc' = [pc EXCEPT ![s] = "idle"]
           /\ stamp' = [stamp EXCEPT ![s] = 0]
           /\ UNCHANGED <<token, started, due, renewal, aborted>>
  BY <1>2, SiteCommitLockAssumption, LockNoneAssumption
  DEF NotAcquired, TypeInv, TypeOK, RowExists, RenewalsBelongToCallbacks, Steps, clock
<1> QED
  BY <1>1, <1>2 DEF NotAcquired

\* Every step keeps the types.
LEMMA TypeInvNext == TypeInv /\ [Next]_vars => TypeInv'
<1> SUFFICES ASSUME TypeInv, [Next]_vars PROVE TypeInv'
  OBVIOUS
<1> USE SiteCommitLockAssumption, LockNoneAssumption
<1> USE DEF TypeInv, TypeOK, RowExists, RenewalsBelongToCallbacks, Steps, InCallback, clock, local
<1>1. CASE Tick
  BY <1>1 DEF Tick
<1>2. ASSUME NEW s \in Sessions, Acquire(s) PROVE TypeInv'
  <2>1. CASE BeginAcquire(s)
    BY <2>1 DEF BeginAcquire, Clock
  <2>2. CASE TakeRow(s)
    <3>1. lock' \in Locks
      BY <2>2 DEF TakeRow, Expiry, Locks
    <3> QED
      BY <2>2, <3>1 DEF TakeRow
  <2>3. CASE Refused(s)
    BY <2>3, NoLockKeepsTypes DEF Refused
  <2>4. CASE Granted(s)
    <3>1. lock.token \in Nat
      BY <2>4 DEF Granted, Locks
    <3>2. RenewalsBelongToCallbacks'
      BY <2>4 DEF Granted
    <3> QED
      BY <2>4, <3>1, <3>2 DEF Granted
  <2>5. CASE TakenOver(s)
    BY <2>5, NoLockKeepsTypes DEF TakenOver
  <2> QED
    BY <1>2, <2>1, <2>2, <2>3, <2>4, <2>5 DEF Acquire, ReadBack
<1>3. ASSUME NEW s \in Sessions, Renew(s) PROVE TypeInv'
  <2>1. CASE StartRenewal(s)
    BY <2>1 DEF StartRenewal, RenewalDue, Clock, Renewals
  <2>2. CASE RenewRow(s)
    <3>1. lock' \in Locks
      BY <2>2 DEF RenewRow, Renewing, CanRenew, Owns, Expiry, Locks, Renewals
    <3>2. renewal' \in [Sessions -> Renewals \cup {None}]
      BY <2>2 DEF RenewRow, Renewing, Renewals
    <3> QED
      BY <2>2, <3>1, <3>2 DEF RenewRow, Renewing
  <2>3. CASE ConfirmRenewal(s)
    BY <2>3 DEF ConfirmRenewal
  <2>4. CASE RenewalFails(s)
    <3>1. renewal' \in [Sessions -> Renewals \cup {None}]
      BY <2>4 DEF RenewalFails, Renewing, Renewals
    <3> QED
      BY <2>4, <3>1 DEF RenewalFails, Renewing
  <2> QED
    BY <1>3, <2>1, <2>2, <2>3, <2>4 DEF Renew
<1>4. ASSUME NEW s \in Sessions, Work(s) PROVE TypeInv'
  <2>1. CASE TimeoutFires(s)
    BY <2>1 DEF TimeoutFires
  <2>2. CASE StartCommit(s)
    BY <2>2 DEF StartCommit, Clock
  <2>3. CASE CommitBatch(s)
    BY <2>3 DEF CommitBatch
  <2>4. CASE EndCallback(s)
    BY <2>4 DEF EndCallback
  <2> QED
    BY <1>4, <2>1, <2>2, <2>3, <2>4 DEF Work
<1>5. ASSUME NEW s \in Sessions, Release(s) PROVE TypeInv'
  <2>1. CASE StartRelease(s)
    BY <2>1 DEF StartRelease, Clock
  <2>2. CASE ReleaseRow(s)
    <3>1. lock' \in Locks
      BY <2>2 DEF ReleaseRow, Locks
    <3> QED
      BY <2>2, <3>1 DEF ReleaseRow, Return
  <2> QED
    BY <1>5, <2>1, <2>2 DEF Release
<1>6. ASSUME NEW s \in Sessions, Abandon(s) PROVE TypeInv'
  BY <1>6, ReturnKeepsTypes DEF Abandon
<1>7. CASE UNCHANGED vars
  BY <1>7 DEF vars
<1> QED
  BY <1>1, <1>2, <1>3, <1>4, <1>5, <1>6, <1>7 DEF Next

\* Every variable keeps its type, for all constants.
THEOREM TypeCorrect == Spec => []TypeOK
<1>1. TypeInv => TypeOK
  BY DEF TypeInv
<1> QED
  BY <1>1, TypeInvInit, TypeInvNext, PTL DEF Spec

\* The types, with what makes them inductive.
THEOREM TypeInvariance == Spec => []TypeInv
BY TypeInvInit, TypeInvNext, PTL DEF Spec

----------------------------------------------------------------------------
(* The lock of a healthy callback.  The lease began before the callback,   *)
(* by at most MaxDelay; the callback lasts at most Timeout; whoever takes  *)
(* the row over does so by a clock at most MaxSkew ahead.                  *)

Healthy(s) == pc[s] \in InCallback /\ ~aborted[s]

\* An acquisition under way read its clock a bounded time ago.
AcquisitionsAreRecent ==
  \A s \in Sessions : pc[s] \in {"acquire", "confirm"} =>
    /\ stamp[s] =< now + skew[s]
    /\ now =< stamp[s] - skew[s] + MaxDelay

\* The row of a session that has not read it back yet is as it took it.
TakenRowIsIntact ==
  \A s \in Sessions : pc[s] = "confirm" /\ lock.holder = s => lock.expires = stamp[s] + Lease

\* A renewal extends the lease beyond what the acquisition gave it.
RenewalsAreRecent ==
  \A s \in Sessions :
    /\ started[s] =< now
    /\ renewal[s] # None => renewal[s].stamp >= started[s] + skew[s]

\* The lease of a healthy callback outlasts its timeout.
LeaseCoversCallback ==
  \A s \in Sessions : Healthy(s) =>
    /\ Owns(s)
    /\ now =< started[s] + Timeout
    /\ lock.expires >= started[s] + skew[s] - MaxDelay + Lease

LeaseInv == AcquisitionsAreRecent /\ TakenRowIsIntact /\ RenewalsAreRecent /\ LeaseCoversCallback

\* The row of a healthy callback is not free for anybody who asks for it.
LEMMA HealthyRowIsTaken ==
  ASSUME LeaseMargin, TypeInv, LeaseInv,
         NEW s \in Sessions, NEW t \in Sessions, Healthy(s), pc[t] = "acquire"
  PROVE  ~Free(stamp[t])
<1>1. lock \in Locks /\ lock.expires \in Int /\ skew[s] \in Int /\ skew[s] >= 0
  BY SiteCommitLockAssumption, LockNoneAssumption
  DEF LeaseInv, LeaseCoversCallback, Owns, TypeInv, TypeOK, Locks
<1>2. stamp[t] =< now + MaxSkew
  BY SiteCommitLockAssumption DEF LeaseInv, AcquisitionsAreRecent, TypeInv, TypeOK
<1>3. lock.expires > now + MaxSkew
  BY <1>1, SiteCommitLockAssumption
  DEF LeaseInv, LeaseCoversCallback, LeaseMargin, TypeInv, TypeOK
<1> QED
  BY <1>1, <1>2, <1>3, SiteCommitLockAssumption, LockNoneAssumption
  DEF Free, Locks, TypeInv, TypeOK

\* The initial state satisfies the invariant of leases.
LEMMA LeaseInvInit == Init => LeaseInv
BY SiteCommitLockAssumption, LockNoneAssumption
DEF Init, LeaseInv, AcquisitionsAreRecent, TakenRowIsIntact, RenewalsAreRecent,
    LeaseCoversCallback, Healthy, InCallback

\* Every step keeps the invariant of leases, given the margin.
LEMMA LeaseInvNext ==
  ASSUME LeaseMargin, TypeInv, LeaseInv, [Next]_vars
  PROVE  LeaseInv'
<1> USE SiteCommitLockAssumption, LockNoneAssumption
<1> USE DEF TypeInv, TypeOK, RowExists, RenewalsBelongToCallbacks, Steps, InCallback, clock, local
<1> USE DEF LeaseInv, AcquisitionsAreRecent, TakenRowIsIntact, RenewalsAreRecent,
            LeaseCoversCallback, Healthy, Owns
<1>1. CASE Tick
  BY <1>1 DEF Tick, Urgent, TimeoutDue
<1>2. ASSUME NEW s \in Sessions, Acquire(s) PROVE LeaseInv'
  <2>1. CASE BeginAcquire(s)
    BY <2>1 DEF BeginAcquire, Clock
  <2>2. CASE TakeRow(s)
    <3>1. \A t \in Sessions : ~Healthy(t)
      BY <2>2, HealthyRowIsTaken DEF TakeRow
    <3> QED
      BY <2>2, <3>1 DEF TakeRow, Expiry
  <2>3. CASE Refused(s)
    BY <2>3 DEF Refused, NotAcquired, Return
  <2>4. CASE Granted(s)
    BY <2>4 DEF Granted, Locks
  <2>5. CASE TakenOver(s)
    BY <2>5 DEF TakenOver, NotAcquired, Return
  <2> QED
    BY <1>2, <2>1, <2>2, <2>3, <2>4, <2>5 DEF Acquire, ReadBack
<1>3. ASSUME NEW s \in Sessions, Renew(s) PROVE LeaseInv'
  <2>1. CASE StartRenewal(s)
    BY <2>1 DEF StartRenewal, RenewalDue, Clock
  <2>2. CASE RenewRow(s)
    BY <2>2 DEF RenewRow, Renewing, CanRenew, Expiry, Locks, Renewals
  <2>3. CASE ConfirmRenewal(s)
    BY <2>3 DEF ConfirmRenewal
  <2>4. CASE RenewalFails(s)
    BY <2>4 DEF RenewalFails, Renewing, Renewals
  <2> QED
    BY <1>3, <2>1, <2>2, <2>3, <2>4 DEF Renew
<1>4. ASSUME NEW s \in Sessions, Work(s) PROVE LeaseInv'
  <2>1. CASE TimeoutFires(s)
    BY <2>1 DEF TimeoutFires
  <2>2. CASE StartCommit(s)
    BY <2>2 DEF StartCommit
  <2>3. CASE CommitBatch(s)
    BY <2>3 DEF CommitBatch
  <2>4. CASE EndCallback(s)
    BY <2>4 DEF EndCallback
  <2> QED
    BY <1>4, <2>1, <2>2, <2>3, <2>4 DEF Work
<1>5. ASSUME NEW s \in Sessions, Release(s) PROVE LeaseInv'
  <2>1. CASE StartRelease(s)
    BY <2>1 DEF StartRelease
  <2>2. CASE ReleaseRow(s)
    BY <2>2 DEF ReleaseRow, CanRelease, Return, Locks
  <2> QED
    BY <1>5, <2>1, <2>2 DEF Release
<1>6. ASSUME NEW s \in Sessions, Abandon(s) PROVE LeaseInv'
  BY <1>6 DEF Abandon, Return
<1>7. CASE UNCHANGED vars
  BY <1>7 DEF vars
<1> QED
  BY <1>1, <1>2, <1>3, <1>4, <1>5, <1>6, <1>7 DEF Next

\* A callback whose signal has not aborted holds the lock, whatever the
\* number of sessions and the durations, provided the lease leaves the margin.
THEOREM HealthyHoldsTheLock ==
  ASSUME LeaseMargin
  PROVE  Spec => []HealthyHoldsLock
<1>1. LeaseInv => HealthyHoldsLock
  BY DEF LeaseInv, LeaseCoversCallback, HealthyHoldsLock, Healthy
<1>2. TypeInv /\ LeaseInv /\ [Next]_vars => LeaseInv'
  BY LeaseInvNext
<1> QED
  BY <1>1, <1>2, TypeInvInit, TypeInvNext, LeaseInvInit, PTL DEF Spec

----------------------------------------------------------------------------
(* Turns.                                                                  *)

\* The guarded batches of the lock's sessions are serial, for any durations:
\* the lock implements SerialCommits.tla.
THEOREM SerialCommitsImplemented == Spec => CommitsAreSerial
<1> DEFINE held == IF lock = None THEN None ELSE lock.holder
<1>1. Init => Turns!Init
  BY DEF Init, Turns!Init
<1>2. TypeInv /\ [Next]_vars => [Turns!Next]_<<held, committer>>
  <2> SUFFICES ASSUME TypeInv, [Next]_vars PROVE [Turns!Next]_<<held, committer>>
    OBVIOUS
  <2> USE LockNoneAssumption DEF TypeInv, TypeOK, RowExists, clock, local, Turns!Next
  <2>1. ASSUME NEW s \in Sessions, TakeRow(s) PROVE Turns!Next \/ UNCHANGED <<held, committer>>
    <3>1. lock' \in Locks /\ lock'.holder = s /\ UNCHANGED committer
      BY <2>1, SiteCommitLockAssumption DEF TakeRow, Expiry, Locks
    <3>2. held' = s
      BY <3>1
    <3>3. CASE held = s
      BY <3>1, <3>2, <3>3
    <3>4. CASE held # s
      BY <3>1, <3>2, <3>4 DEF Turns!Take
    <3> QED
      BY <3>3, <3>4
  <2>2. ASSUME NEW s \in Sessions, CommitBatch(s) PROVE Turns!Next \/ UNCHANGED <<held, committer>>
    <3>1. CASE CanCommit(s)
      BY <2>2, <3>1 DEF CommitBatch, CanCommit, Owns, Turns!Commit
    <3>2. CASE ~CanCommit(s)
      BY <2>2, <3>2 DEF CommitBatch
    <3> QED
      BY <3>1, <3>2
  <2>3. ASSUME NEW s \in Sessions, RenewRow(s) PROVE UNCHANGED <<held, committer>>
    <3>1. lock \in Locks /\ lock' \in Locks /\ lock'.holder = lock.holder
      BY <2>3, SiteCommitLockAssumption
      DEF RenewRow, CanRenew, Owns, Renewing, Expiry, Locks, Renewals
    <3> QED
      BY <2>3, <3>1 DEF RenewRow
  <2>4. ASSUME NEW s \in Sessions, ReleaseRow(s) PROVE UNCHANGED <<held, committer>>
    <3>1. lock \in Locks /\ lock' \in Locks /\ lock'.holder = lock.holder
      BY <2>4 DEF ReleaseRow, Locks
    <3> QED
      BY <2>4, <3>1 DEF ReleaseRow
  <2>5. CASE UNCHANGED <<lock, committer>>
    BY <2>5
  <2>6. ASSUME NEW s \in Sessions,
               BeginAcquire(s) \/ Refused(s) \/ Granted(s) \/ TakenOver(s)
                 \/ StartRenewal(s) \/ ConfirmRenewal(s) \/ RenewalFails(s)
                 \/ TimeoutFires(s) \/ StartCommit(s) \/ EndCallback(s)
                 \/ StartRelease(s) \/ Abandon(s)
        PROVE  UNCHANGED <<lock, committer>>
    BY <2>6
    DEF BeginAcquire, Refused, Granted, TakenOver, NotAcquired, StartRenewal, ConfirmRenewal,
        RenewalFails, TimeoutFires, StartCommit, EndCallback, StartRelease, Abandon
  <2>7. Tick \/ UNCHANGED vars => UNCHANGED <<lock, committer>>
    BY DEF Tick, vars
  <2> QED
    BY <2>1, <2>2, <2>3, <2>4, <2>5, <2>6, <2>7 DEF Next, Acquire, ReadBack, Renew, Work, Release
<1> QED
  BY <1>1, <1>2, TypeInvariance, PTL DEF Spec, CommitsAreSerial, Turns!Spec

-----------------------------------------------------------------------------
(* The lock as the callbacks see it.                                       *)

HealthySessions == {s \in Sessions : pc[s] \in InCallback /\ ~aborted[s]}
Holder == IF lock = None THEN None ELSE lock.holder

\* Each step takes the lock, starts a callback, ends or aborts one, or none of these.
LEMMA StepsOfTheLease ==
  ASSUME TypeInv, LeaseInv', NEW s \in Sessions,
         Acquire(s) \/ Renew(s) \/ Work(s) \/ Release(s) \/ Abandon(s)
  PROVE  \/ Callbacks!Take(s) \/ Callbacks!Start(s) \/ Callbacks!Leave(s)
         \/ UNCHANGED Callbacks!leaseVars
<1> USE LockNoneAssumption DEF TypeInv, TypeOK, RowExists, clock, local, InCallback
<1> DEFINE Others == HealthySessions' \ {s} = HealthySessions \ {s}
<1>1. ASSUME Holder' = Holder, Others, s \notin HealthySessions'
      PROVE  Callbacks!Leave(s)
  <2>1. HealthySessions' = HealthySessions \ {s}
    BY <1>1
  <2> QED
    BY <1>1, <2>1 DEF Callbacks!Leave, Holder, HealthySessions
<1>2. ASSUME Holder' = Holder, HealthySessions' = HealthySessions
      PROVE  UNCHANGED Callbacks!leaseVars
  BY <1>2 DEF Callbacks!leaseVars, Holder, HealthySessions
<1>3. CASE TakeRow(s)
  <2>1. lock' # None /\ lock'.holder = s /\ HealthySessions' = HealthySessions
    BY <1>3, SiteCommitLockAssumption DEF TakeRow, Expiry, Locks, HealthySessions
  <2>2. ASSUME NEW t \in HealthySessions' PROVE t = s
    BY <2>1, <2>2 DEF LeaseInv, LeaseCoversCallback, Healthy, HealthySessions, Owns
  <2>3. s \notin HealthySessions
    BY <1>3 DEF TakeRow, HealthySessions
  <2>4. HealthySessions = {}
    BY <2>1, <2>2, <2>3
  <2> QED
    BY <2>1, <2>4 DEF Callbacks!Take, Holder, HealthySessions
<1>4. CASE Granted(s)
  <2>1. lock # None /\ lock.holder = s /\ UNCHANGED <<lock, aborted>>
    BY <1>4 DEF Granted
  <2>2. Others
    BY <1>4 DEF Granted, HealthySessions
  <2>3. CASE s \in HealthySessions'
    <3>1. HealthySessions' = HealthySessions \cup {s}
      BY <2>2, <2>3
    <3> QED
      BY <2>1, <3>1 DEF Callbacks!Start, HealthySessions
  <2>4. CASE s \notin HealthySessions'
    BY <1>1, <2>1, <2>2, <2>4 DEF Holder
  <2> QED
    BY <2>3, <2>4
<1>5. CASE BeginAcquire(s) \/ StartRenewal(s) \/ ConfirmRenewal(s) \/ StartCommit(s)
           \/ CommitBatch(s) \/ StartRelease(s)
  <2>1. UNCHANGED <<lock, aborted>>
    BY <1>5 DEF BeginAcquire, StartRenewal, ConfirmRenewal, StartCommit, CommitBatch, StartRelease
  <2>2. \A t \in Sessions : pc'[t] \in InCallback <=> pc[t] \in InCallback
    BY <1>5 DEF BeginAcquire, StartRenewal, ConfirmRenewal, StartCommit, CommitBatch, StartRelease
  <2>3. HealthySessions' = HealthySessions
    BY <2>1, <2>2 DEF HealthySessions
  <2> QED
    BY <1>2, <2>1, <2>3 DEF Holder
<1>6. CASE Refused(s) \/ TakenOver(s) \/ Abandon(s) \/ EndCallback(s) \/ TimeoutFires(s)
           \/ RenewalFails(s)
  <2>1. UNCHANGED lock
    BY <1>6 DEF Refused, TakenOver, NotAcquired, Abandon, EndCallback, TimeoutFires, RenewalFails
  <2>2. \A t \in Sessions \ {s} : pc'[t] = pc[t] /\ aborted'[t] = aborted[t]
    BY <1>6 DEF Refused, TakenOver, NotAcquired, Return, Abandon, EndCallback, TimeoutFires,
                RenewalFails
  <2>3. pc'[s] \notin InCallback \/ aborted'[s]
    BY <1>6 DEF Refused, TakenOver, NotAcquired, Return, Abandon, EndCallback, TimeoutFires,
                RenewalFails
  <2>4. Others /\ s \notin HealthySessions'
    BY <2>2, <2>3 DEF HealthySessions
  <2> QED
    BY <1>1, <2>1, <2>4 DEF Holder
<1>7. CASE RenewRow(s)
  <2>1. lock \in Locks /\ lock' \in Locks /\ lock'.holder = lock.holder
    BY <1>7, SiteCommitLockAssumption
    DEF RenewRow, CanRenew, Owns, Renewing, Expiry, Locks, Renewals
  <2>2. HealthySessions' = HealthySessions
    BY <1>7 DEF RenewRow, HealthySessions
  <2> QED
    BY <1>2, <2>1, <2>2 DEF Holder
<1>8. CASE ReleaseRow(s)
  <2>1. lock \in Locks /\ lock' \in Locks /\ lock'.holder = lock.holder
    BY <1>8 DEF ReleaseRow, Locks
  <2>2. Others /\ s \notin HealthySessions'
    BY <1>8 DEF ReleaseRow, Return, HealthySessions
  <2> QED
    BY <1>1, <2>1, <2>2 DEF Holder
<1> QED
  BY <1>3, <1>4, <1>5, <1>6, <1>7, <1>8 DEF Acquire, ReadBack, Renew, Work, Release

\* With its clocks, renewals and delays, and given the margin, the lock
\* implements CommitLease.tla, the lock that deployments and policy
\* changes are modelled with (site-policy.js, withSiteCommitLock).
THEOREM LeaseRefinement ==
  ASSUME LeaseMargin
  PROVE  Spec => LockIsALease
<1>1. Init => Callbacks!LeaseInit
  BY DEF Init, Callbacks!LeaseInit, InCallback
<1>2. TypeInv /\ LeaseInv /\ [Next]_vars => LeaseInv'
  BY LeaseInvNext
<1>3. ASSUME Tick \/ UNCHANGED vars PROVE UNCHANGED Callbacks!leaseVars
  BY <1>3 DEF Tick, vars, local, Callbacks!leaseVars
<1>4. TypeInv /\ LeaseInv' /\ [Next]_vars => [Callbacks!LeaseNext]_(Callbacks!leaseVars)
  BY <1>3, StepsOfTheLease DEF Next, Callbacks!LeaseNext
<1> QED
  BY <1>1, <1>2, <1>4, TypeInvInit, TypeInvNext, LeaseInvInit, PTL
  DEF Spec, LockIsALease, Callbacks!LeaseSpec

-----------------------------------------------------------------------------
(* The turns of the agent, for any messages and handlers.                   *)

\* What a handler works on is known from where it is: its message while it is at
\* work, its session from the choice to the end of its run, and what
\* it has read when it clears a key or writes the delivery back.
HasScope ==
  {"open", "check", "take", "get", "clear", "insert", "work", "create", "link", "start",
   "drop", "close", "complete", "write", "fail", "failrun"}
Sensible(r) ==
  /\ r.pc \notin {"idle", "done"} => r.msg \in Messages
  /\ (r.pc \in HasScope \/ r.caught) => r.at \in Scopes
  /\ r.pc = "clear" => r.seen \in Handlers
  /\ r.pc = "react" => r.seen \in Statuses

\* The places before the run is in the database.
BeforeRun == {"idle", "begin", "choose", "open", "check", "take", "get", "clear", "insert"}

TurnsMakeSense ==
  \A h \in Handlers :
    /\ Sensible(turn[h])
    /\ turn[h].pc \in BeforeRun => run[h] = "none"

TurnsInv == TurnsTypeOK /\ TurnsMakeSense

\* What a step of one handler does to the records of all of them: the others'
\* stay, and its own becomes another record of the right kind.
Becomes(h, r) ==
  /\ r \in TurnRecords
  /\ turn' = [turn EXCEPT ![h] = r]

\* The record of a handler that only moves on.
LEMMA MovesOn ==
  ASSUME TurnsTypeOK, NEW h \in Handlers, NEW p \in Places, Goto(h, p)
  PROVE  \E r \in TurnRecords :
           /\ Becomes(h, r)
           /\ r.pc = p /\ r.msg = turn[h].msg /\ r.at = turn[h].at
           /\ r.seen = turn[h].seen /\ r.caught = turn[h].caught /\ r.made = turn[h].made
<1> DEFINE r == [turn[h] EXCEPT !.pc = p]
<1>1. turn[h] \in TurnRecords
  BY DEF TurnsTypeOK
<1>2. r \in TurnRecords
  BY <1>1 DEF TurnRecords
<1>3. turn' = [turn EXCEPT ![h] = r]
  BY DEF Goto
<1>4. /\ r.pc = p /\ r.msg = turn[h].msg /\ r.at = turn[h].at
      /\ r.seen = turn[h].seen /\ r.caught = turn[h].caught /\ r.made = turn[h].made
  BY <1>1 DEF TurnRecords
<1> QED
  BY <1>2, <1>3, <1>4 DEF Becomes

\* The record of a handler that forgets what it has read.
LEMMA LeavesWork ==
  ASSUME TurnsTypeOK, NEW h \in Handlers, NEW p \in Places, Leave(h, p)
  PROVE  \E r \in TurnRecords :
           /\ Becomes(h, r)
           /\ r.pc = p /\ r.msg = turn[h].msg /\ r.at = turn[h].at
           /\ r.seen = NoOne /\ r.caught = FALSE /\ r.made = FALSE
<1>1. turn[h] \in TurnRecords
  BY DEF TurnsTypeOK
<1> DEFINE r == [pc |-> p, msg |-> turn[h].msg, at |-> turn[h].at, seen |-> NoOne,
                 caught |-> FALSE, made |-> FALSE]
<1>2. r \in TurnRecords
  BY <1>1 DEF TurnRecords
<1>3. turn' = [turn EXCEPT ![h] = r]
  BY DEF Leave, Bare, Message, Scope
<1> QED
  BY <1>2, <1>3 DEF Becomes

\* The record of a handler that is through.
LEMMA Ends ==
  ASSUME TurnsTypeOK, NEW h \in Handlers, End(h)
  PROVE  \E r \in TurnRecords :
           /\ Becomes(h, r)
           /\ r.pc = "done" /\ r.msg = NoOne /\ r.at = turn[h].at
           /\ r.seen = NoOne /\ r.caught = FALSE /\ r.made = FALSE
<1>1. turn[h] \in TurnRecords
  BY DEF TurnsTypeOK
<1> DEFINE r == [pc |-> "done", msg |-> NoOne, at |-> turn[h].at, seen |-> NoOne,
                 caught |-> FALSE, made |-> FALSE]
<1>2. r \in TurnRecords
  BY <1>1 DEF TurnRecords, Places
<1>3. turn' = [turn EXCEPT ![h] = r]
  BY DEF End, Bare, Scope
<1> QED
  BY <1>2, <1>3 DEF Becomes

\* The records stay sensible when one of them becomes a sensible one, and the
\* runs that were not in the database stay out of it.
LEMMA RecordsStaySensible ==
  ASSUME TurnsInv, NEW h \in Handlers, NEW r \in TurnRecords, Becomes(h, r), Sensible(r),
         r.pc \in BeforeRun => run'[h] = "none",
         \A i \in Handlers \ {h} : run[i] = "none" => run'[i] = "none"
  PROVE  turn' \in [Handlers -> TurnRecords] /\ TurnsMakeSense'
<1>1. turn' \in [Handlers -> TurnRecords]
  BY DEF TurnsInv, TurnsTypeOK, Becomes
<1>2. turn'[h] = r
  BY DEF TurnsInv, TurnsTypeOK, Becomes
<1>3. ASSUME NEW i \in Handlers
      PROVE  Sensible(turn'[i]) /\ (turn'[i].pc \in BeforeRun => run'[i] = "none")
  <2>1. CASE i = h
    BY <1>2, <2>1
  <2>2. CASE i # h
    <3>1. turn'[i] = turn[i]
      BY <2>2 DEF TurnsInv, TurnsTypeOK, Becomes
    <3> QED
      BY <2>2, <3>1 DEF TurnsInv, TurnsMakeSense
  <2> QED
    BY <2>1, <2>2
<1>4. TurnsMakeSense' <=> \A i \in Handlers :
        Sensible(turn'[i]) /\ (turn'[i].pc \in BeforeRun => run'[i] = "none")
  BY DEF TurnsMakeSense, Sensible
<1> QED
  BY <1>1, <1>3, <1>4

\* What failAgentRun does to the runs and keys: a run fails that was running, and
\* a key goes with the run it names.
LEMMA RunsFail ==
  ASSUME TurnsTypeOK, NEW runs \in SUBSET Handlers, NEW s \in Scopes, FailRuns(runs, s)
  PROVE  /\ run' \in [Handlers -> {"none", "running", "completed", "failed"}]
         /\ lease' \in [Scopes -> Handlers \cup {NoOne}]
         /\ \A i \in Handlers : run'[i] = run[i] \/ (run[i] = "running" /\ run'[i] = "failed")
         /\ \A t \in Scopes :
              \/ lease'[t] = lease[t]
              \/ /\ lease[t] \in Handlers /\ run[lease[t]] = "running"
                 /\ run'[lease[t]] = "failed" /\ lease'[t] = NoOne
<1>1. run' \in [Handlers -> {"none", "running", "completed", "failed"}]
  BY DEF TurnsTypeOK, FailRuns
<1>2. \A i \in Handlers :
        run'[i] = IF i \in runs /\ run[i] = "running" THEN "failed" ELSE run[i]
  BY DEF FailRuns
<1>3. CASE lease[s] \in runs /\ run[lease[s]] = "running"
  <2>1. lease' = [lease EXCEPT ![s] = NoOne]
    BY <1>3 DEF FailRuns
  <2>2. \A t \in Scopes : lease'[t] = IF t = s THEN NoOne ELSE lease[t]
    BY <2>1 DEF TurnsTypeOK
  <2>3. lease' \in [Scopes -> Handlers \cup {NoOne}]
    BY <2>1 DEF TurnsTypeOK
  <2>4. lease[s] \in Handlers /\ run'[lease[s]] = "failed"
    BY <1>2, <1>3
  <2> QED
    BY <1>1, <1>2, <1>3, <2>2, <2>3, <2>4
<1>4. CASE ~(lease[s] \in runs /\ run[lease[s]] = "running")
  <2>1. lease' = lease
    BY <1>4 DEF FailRuns, TurnsTypeOK
  <2> QED
    BY <1>1, <1>2, <2>1 DEF TurnsTypeOK
<1> QED
  BY <1>3, <1>4

\* The same of the runs whose time is over.
LEMMA RunsAreLookedAt ==
  ASSUME TurnsTypeOK, NEW s \in Scopes, LookAtRuns(s)
  PROVE  /\ run' \in [Handlers -> {"none", "running", "completed", "failed"}]
         /\ lease' \in [Scopes -> Handlers \cup {NoOne}]
         /\ \A i \in Handlers : run'[i] = run[i] \/ (run[i] = "running" /\ run'[i] = "failed")
         /\ \A t \in Scopes :
              \/ lease'[t] = lease[t]
              \/ /\ lease[t] \in Handlers /\ run[lease[t]] = "running"
                 /\ run'[lease[t]] = "failed" /\ lease'[t] = NoOne
<1>1. PICK gone \in SUBSET (RunsOf(s) \cap lapsed) : FailRuns(gone, s)
  BY DEF LookAtRuns
<1>2. gone \in SUBSET Handlers
  BY DEF RunsOf
<1> QED
  BY <1>1, <1>2, RunsFail

\* The places are places.
LEMMA PlacesExist ==
  \A p \in {"begin", "choose", "open", "check", "take", "get", "clear", "insert", "work",
            "create", "link", "start", "drop", "close", "complete", "write", "respond",
            "fail", "failrun", "failed", "settle", "react", "done"} : p \in Places
BY DEF Places

\* The initial state.
LEMMA TurnsInvInit == TurnsInit => TurnsInv
<1> SUFFICES ASSUME TurnsInit PROVE TurnsInv
  OBVIOUS
<1>1. Bare("idle", NoOne, NoOne) \in TurnRecords /\ Sensible(Bare("idle", NoOne, NoOne))
  BY DEF Bare, TurnRecords, Places, Sensible, HasScope
<1>2. \A h \in Handlers : turn[h] = Bare("idle", NoOne, NoOne) /\ run[h] = "none"
  BY DEF TurnsInit
<1>3. turn \in [Handlers -> TurnRecords]
  BY <1>1, <1>2 DEF TurnsInit
<1>4. TurnsMakeSense
  BY <1>1, <1>2 DEF TurnsMakeSense
<1>5. TurnsTypeOK
  BY <1>3 DEF TurnsInit, TurnsTypeOK, Statuses
<1> QED
  BY <1>4, <1>5 DEF TurnsInv

\* A handler moves on and notes something.
GoesTo(h, p, s) == turn' = [turn EXCEPT ![h].pc = p, ![h].at = s]
GoesWith(h, p, e) == turn' = [turn EXCEPT ![h].pc = p, ![h].seen = e]
GoesMinding(h, p, c) == turn' = [turn EXCEPT ![h].pc = p, ![h].caught = c]
GoesHaving(h, p, d) == turn' = [turn EXCEPT ![h].pc = p, ![h].made = d]

\* A handler moves on with a session.
LEMMA ChoosesSession ==
  ASSUME TurnsTypeOK, NEW h \in Handlers, NEW p \in Places, NEW s \in Scopes,
         GoesTo(h, p, s)
  PROVE  \E r \in TurnRecords :
           /\ Becomes(h, r)
           /\ r.pc = p /\ r.msg = turn[h].msg /\ r.at = s
           /\ r.seen = turn[h].seen /\ r.caught = turn[h].caught /\ r.made = turn[h].made
<1> DEFINE t == turn[h]
           r == [pc |-> p, msg |-> t.msg, at |-> s, seen |-> t.seen,
                 caught |-> t.caught, made |-> t.made]
<1>1. t \in TurnRecords
  BY DEF TurnsTypeOK
<1>2. r \in TurnRecords
  BY <1>1 DEF TurnRecords
<1>3. turn' = [turn EXCEPT ![h] = r]
  <2> DEFINE q == [turn EXCEPT ![h].pc = p]
  <2>1. q[h] = [t EXCEPT !.pc = p]
    BY DEF TurnsTypeOK
  <2>2. turn' = [q EXCEPT ![h] = [q[h] EXCEPT !.at = s]]
    BY DEF GoesTo
  <2>3. [q[h] EXCEPT !.at = s] = r
    BY <1>1, <2>1 DEF TurnRecords
  <2> QED
    BY <2>2, <2>3 DEF TurnsTypeOK
<1> QED
  BY <1>2, <1>3 DEF Becomes

\* A handler moves on with what it has read.
LEMMA ReadsState ==
  ASSUME TurnsTypeOK, NEW h \in Handlers, NEW p \in Places, NEW e \in Handlers \cup Statuses,
         GoesWith(h, p, e)
  PROVE  \E r \in TurnRecords :
           /\ Becomes(h, r)
           /\ r.pc = p /\ r.msg = turn[h].msg /\ r.at = turn[h].at
           /\ r.seen = e /\ r.caught = turn[h].caught /\ r.made = turn[h].made
<1> DEFINE t == turn[h]
           r == [pc |-> p, msg |-> t.msg, at |-> t.at, seen |-> e,
                 caught |-> t.caught, made |-> t.made]
<1>1. t \in TurnRecords
  BY DEF TurnsTypeOK
<1>2. r \in TurnRecords
  BY <1>1 DEF TurnRecords
<1>3. turn' = [turn EXCEPT ![h] = r]
  <2> DEFINE q == [turn EXCEPT ![h].pc = p]
  <2>1. q[h] = [t EXCEPT !.pc = p]
    BY DEF TurnsTypeOK
  <2>2. turn' = [q EXCEPT ![h] = [q[h] EXCEPT !.seen = e]]
    BY DEF GoesWith
  <2>3. [q[h] EXCEPT !.seen = e] = r
    BY <1>1, <2>1 DEF TurnRecords
  <2> QED
    BY <2>2, <2>3 DEF TurnsTypeOK
<1> QED
  BY <1>2, <1>3 DEF Becomes

\* A handler moves on, and its errors are caught or not.
LEMMA MindsErrors ==
  ASSUME TurnsTypeOK, NEW h \in Handlers, NEW p \in Places, NEW c \in BOOLEAN,
         GoesMinding(h, p, c)
  PROVE  \E r \in TurnRecords :
           /\ Becomes(h, r)
           /\ r.pc = p /\ r.msg = turn[h].msg /\ r.at = turn[h].at
           /\ r.seen = turn[h].seen /\ r.caught = c /\ r.made = turn[h].made
<1> DEFINE t == turn[h]
           r == [pc |-> p, msg |-> t.msg, at |-> t.at, seen |-> t.seen,
                 caught |-> c, made |-> t.made]
<1>1. t \in TurnRecords
  BY DEF TurnsTypeOK
<1>2. r \in TurnRecords
  BY <1>1 DEF TurnRecords
<1>3. turn' = [turn EXCEPT ![h] = r]
  <2> DEFINE q == [turn EXCEPT ![h].pc = p]
  <2>1. q[h] = [t EXCEPT !.pc = p]
    BY DEF TurnsTypeOK
  <2>2. turn' = [q EXCEPT ![h] = [q[h] EXCEPT !.caught = c]]
    BY DEF GoesMinding
  <2>3. [q[h] EXCEPT !.caught = c] = r
    BY <1>1, <2>1 DEF TurnRecords
  <2> QED
    BY <2>2, <2>3 DEF TurnsTypeOK
<1> QED
  BY <1>2, <1>3 DEF Becomes

\* A handler moves on, and knows whether it has made the item.
LEMMA NotesItem ==
  ASSUME TurnsTypeOK, NEW h \in Handlers, NEW p \in Places, NEW d \in BOOLEAN,
         GoesHaving(h, p, d)
  PROVE  \E r \in TurnRecords :
           /\ Becomes(h, r)
           /\ r.pc = p /\ r.msg = turn[h].msg /\ r.at = turn[h].at
           /\ r.seen = turn[h].seen /\ r.caught = turn[h].caught /\ r.made = d
<1> DEFINE t == turn[h]
           r == [pc |-> p, msg |-> t.msg, at |-> t.at, seen |-> t.seen,
                 caught |-> t.caught, made |-> d]
<1>1. t \in TurnRecords
  BY DEF TurnsTypeOK
<1>2. r \in TurnRecords
  BY <1>1 DEF TurnRecords
<1>3. turn' = [turn EXCEPT ![h] = r]
  <2> DEFINE q == [turn EXCEPT ![h].pc = p]
  <2>1. q[h] = [t EXCEPT !.pc = p]
    BY DEF TurnsTypeOK
  <2>2. turn' = [q EXCEPT ![h] = [q[h] EXCEPT !.made = d]]
    BY DEF GoesHaving
  <2>3. [q[h] EXCEPT !.made = d] = r
    BY <1>1, <2>1 DEF TurnRecords
  <2> QED
    BY <2>2, <2>3 DEF TurnsTypeOK
<1> QED
  BY <1>2, <1>3 DEF Becomes

\* The state a step leaves, but for the records of the handlers.
OtherTypes ==
  /\ delivery \in [Messages -> Statuses]
  /\ opened \in [Scopes -> {"none", "active", "closed"}]
  /\ lease \in [Scopes -> Handlers \cup {NoOne}]
  /\ run \in [Handlers -> {"none", "running", "completed", "failed"}]
  /\ lapsed \subseteq Handlers /\ overtaken \subseteq Handlers
  /\ button \in {"idle", "drop", "close", "done"}
  /\ items \subseteq Messages
  /\ starts \in [Messages -> Nat]

\* The session of a run stays, and some places have one way in.
Follows(r, h) ==
  /\ r.at = turn[h].at \/ run[h] = "none"
  /\ r.pc = "insert" => turn[h].pc = "take"
  /\ r.pc = "link" => turn[h].pc = "create"
  /\ r.pc = "start" => turn[h].pc = "link" /\ r.msg = turn[h].msg /\ r.made = turn[h].made

\* What a handler's step has to show: its new record makes sense, the rest has its
\* types, and no run comes up but its own, at the insert.
StepIsSound(h) ==
  /\ OtherTypes'
  /\ \E r \in TurnRecords :
       /\ Becomes(h, r) /\ Sensible(r) /\ Follows(r, h)
       /\ r.pc \in BeforeRun => run'[h] = "none"
  /\ \A i \in Handlers \ {h} : run[i] = "none" => run'[i] = "none"

\* Then the invariant is kept.
LEMMA SoundStepKeepsTurns ==
  ASSUME TurnsInv, NEW h \in Handlers, StepIsSound(h)
  PROVE  TurnsInv'
<1>1. PICK r \in TurnRecords :
        /\ Becomes(h, r) /\ Sensible(r)
        /\ r.pc \in BeforeRun => run'[h] = "none"
  BY DEF StepIsSound
<1>2. turn' \in [Handlers -> TurnRecords] /\ TurnsMakeSense'
  BY <1>1, RecordsStaySensible DEF StepIsSound
<1>3. TurnsTypeOK'
  BY <1>2 DEF StepIsSound, OtherTypes, TurnsTypeOK
<1> QED
  BY <1>2, <1>3 DEF TurnsInv

\* What is known of a handler.
LEMMA HandlerMakesSense ==
  ASSUME TurnsInv, NEW h \in Handlers
  PROVE  /\ TurnsTypeOK /\ OtherTypes
         /\ turn[h] \in TurnRecords /\ turn[h].pc \in Places
         /\ turn[h].msg \in Messages \cup {NoOne} /\ turn[h].at \in Scopes \cup {NoOne}
         /\ Sensible(turn[h])
         /\ turn[h].pc \in BeforeRun => run[h] = "none"
<1>1. TurnsTypeOK /\ OtherTypes /\ turn[h] \in TurnRecords
  BY DEF TurnsInv, TurnsTypeOK, OtherTypes
<1>2. Sensible(turn[h]) /\ (turn[h].pc \in BeforeRun => run[h] = "none")
  BY DEF TurnsInv, TurnsMakeSense
<1> QED
  BY <1>1, <1>2 DEF TurnRecords

\* A step that only moves a handler on, within its run or within what comes before
\* it, is sound when the rest has its types.
LEMMA MovingOnIsSound ==
  ASSUME TurnsInv, NEW h \in Handlers, NEW p \in Places, Goto(h, p),
         OtherTypes', \A i \in Handlers : run[i] = "none" => run'[i] = "none",
         turn[h].pc \notin {"idle", "done"},
         p \in HasScope => turn[h].at \in Scopes,
         p \notin {"clear", "react"},
         p \in BeforeRun => turn[h].pc \in BeforeRun,
         p = "insert" => turn[h].pc = "take",
         p = "start" => turn[h].pc = "link",
         p # "link"
  PROVE  StepIsSound(h)
<1>1. PICK r \in TurnRecords :
        /\ Becomes(h, r)
        /\ r.pc = p /\ r.msg = turn[h].msg /\ r.at = turn[h].at
        /\ r.seen = turn[h].seen /\ r.caught = turn[h].caught /\ r.made = turn[h].made
  BY MovesOn DEF TurnsInv
<1>2. Sensible(r)
  BY <1>1, HandlerMakesSense DEF Sensible
<1>3. r.pc \in BeforeRun => run'[h] = "none"
  BY <1>1, HandlerMakesSense
<1>4. Follows(r, h)
  BY <1>1 DEF Follows
<1> QED
  BY <1>1, <1>2, <1>3, <1>4 DEF StepIsSound

\* So is a step that leaves the work.
LEMMA LeavingIsSound ==
  ASSUME TurnsInv, NEW h \in Handlers, NEW p \in Places, Leave(h, p),
         OtherTypes', \A i \in Handlers : run[i] = "none" => run'[i] = "none",
         turn[h].pc \notin {"idle", "done"},
         p \in HasScope => turn[h].at \in Scopes,
         p \notin {"clear", "react"},
         p \in BeforeRun => turn[h].pc \in BeforeRun,
         p \notin {"insert", "link", "start"}
  PROVE  StepIsSound(h)
<1>1. PICK r \in TurnRecords :
        /\ Becomes(h, r)
        /\ r.pc = p /\ r.msg = turn[h].msg /\ r.at = turn[h].at
        /\ r.seen = NoOne /\ r.caught = FALSE /\ r.made = FALSE
  BY LeavesWork DEF TurnsInv
<1>2. Sensible(r)
  BY <1>1, HandlerMakesSense DEF Sensible
<1>3. r.pc \in BeforeRun => run'[h] = "none"
  BY <1>1, HandlerMakesSense
<1>4. Follows(r, h)
  BY <1>1 DEF Follows
<1> QED
  BY <1>1, <1>2, <1>3, <1>4 DEF StepIsSound

\* And the end of a handler.
LEMMA EndingIsSound ==
  ASSUME TurnsInv, NEW h \in Handlers, End(h),
         OtherTypes', \A i \in Handlers : run[i] = "none" => run'[i] = "none"
  PROVE  StepIsSound(h)
<1>1. PICK r \in TurnRecords :
        /\ Becomes(h, r)
        /\ r.pc = "done" /\ r.msg = NoOne /\ r.at = turn[h].at
        /\ r.seen = NoOne /\ r.caught = FALSE /\ r.made = FALSE
  BY Ends DEF TurnsInv
<1>2. Sensible(r) /\ Follows(r, h) /\ r.pc \notin BeforeRun
  BY <1>1 DEF Sensible, Follows, HasScope, BeforeRun
<1> QED
  BY <1>1, <1>2 DEF StepIsSound

\* The steps up to the lease.
LEMMA ArrivalIsSound ==
  ASSUME TurnsInv, NEW h \in Handlers,
         \/ \E m \in Messages : Receive(h, m)
         \/ \E named \in BOOLEAN : Choose(h, named)
         \/ Begin(h) \/ Dismiss(h) \/ Open(h)
  PROVE  StepIsSound(h)
<1> USE HandlerMakesSense, PlacesExist
<1>1. ASSUME NEW m \in Messages, Receive(h, m) PROVE StepIsSound(h)
  <2>1. CASE delivery[m] = "processed"
    BY <1>1, <2>1, EndingIsSound DEF Receive, OtherTypes
  <2>2. CASE delivery[m] # "processed"
    <3> DEFINE r == Bare("begin", m, NoOne)
    <3>1. r \in TurnRecords /\ Sensible(r)
      BY DEF Bare, TurnRecords, Sensible, HasScope, Places
    <3>2. Becomes(h, r)
      BY <1>1, <2>2, <3>1 DEF Receive, Becomes
    <3>3. OtherTypes'
      BY <1>1, <2>2 DEF Receive, OtherTypes, Statuses
    <3>4. run' = run /\ run[h] = "none"
      BY <1>1 DEF Receive, At, BeforeRun
    <3>5. Follows(r, h)
      BY <3>4 DEF Follows, Bare
    <3> QED
      BY <3>1, <3>2, <3>3, <3>4, <3>5 DEF StepIsSound
  <2> QED
    BY <2>1, <2>2
<1>2. ASSUME NEW named \in BOOLEAN, Choose(h, named) PROVE StepIsSound(h)
  <2> DEFINE s == IF named \/ opened[Thread] # "closed" THEN Thread ELSE Message(h)
  <2>1. s \in Scopes
    BY <1>2 DEF Choose, At, Sensible, Message, Scopes
  <2> HIDE DEF s
  <2>2. GoesTo(h, "open", s)
    BY <1>2 DEF Choose, GoesTo, s
  <2>3. PICK r \in TurnRecords :
          /\ Becomes(h, r)
          /\ r.pc = "open" /\ r.msg = turn[h].msg /\ r.at = s
          /\ r.seen = turn[h].seen /\ r.caught = turn[h].caught /\ r.made = turn[h].made
    BY <2>1, <2>2, ChoosesSession
  <2>4. Sensible(r)
    BY <1>2, <2>1, <2>3 DEF Choose, At, Sensible
  <2>5. OtherTypes' /\ run' = run /\ run[h] = "none"
    BY <1>2 DEF Choose, OtherTypes, At, BeforeRun
  <2>6. Follows(r, h)
    BY <2>3, <2>5 DEF Follows
  <2> QED
    BY <2>3, <2>4, <2>5, <2>6 DEF StepIsSound
<1>3. CASE Begin(h)
  <2>1. OtherTypes' /\ run' = run /\ Goto(h, "choose") /\ turn[h].pc = "begin"
    BY <1>3 DEF Begin, At, OtherTypes, Statuses
  <2> QED
    BY <2>1, MovingOnIsSound DEF HasScope, BeforeRun
<1>4. CASE Dismiss(h)
  <2>1. OtherTypes' /\ run' = run /\ Leave(h, "respond") /\ turn[h].pc = "choose"
    BY <1>4 DEF Dismiss, At, OtherTypes
  <2> QED
    BY <2>1, LeavingIsSound DEF HasScope, BeforeRun
<1>5. CASE Open(h)
  <2>1. OtherTypes' /\ run' = run /\ Goto(h, "check") /\ turn[h].pc = "open"
    BY <1>5 DEF Open, At, OtherTypes
  <2> QED
    BY <2>1, MovingOnIsSound DEF HasScope, BeforeRun, Sensible
<1> QED
  BY <1>1, <1>2, <1>3, <1>4, <1>5

\* The steps of the lease.
LEMMA LeasingIsSound ==
  ASSUME TurnsInv, NEW h \in Handlers,
         Check(h) \/ Take(h) \/ Get(h) \/ Clear(h) \/ Insert(h) \/ InsertFails(h)
  PROVE  StepIsSound(h)
<1> USE HandlerMakesSense, PlacesExist
<1> DEFINE s == Scope(h)
<1>0. s \in Scopes /\ turn[h].pc \in BeforeRun /\ turn[h].pc \notin {"idle", "done"}
  BY DEF Check, Take, Get, Clear, Insert, InsertFails, At, Sensible, HasScope, BeforeRun, Scope
<1> HIDE DEF s
<1>1. CASE Check(h)
  <2>1. LookAtRuns(s)
    BY <1>1 DEF Check, s
  <2>2. /\ run' \in [Handlers -> {"none", "running", "completed", "failed"}]
        /\ lease' \in [Scopes -> Handlers \cup {NoOne}]
        /\ \A i \in Handlers : run'[i] = run[i] \/ (run[i] = "running" /\ run'[i] = "failed")
    BY <1>0, <2>1, RunsAreLookedAt
  <2>3. OtherTypes'
    BY <1>1, <2>2 DEF Check, OtherTypes
  <2>4. \A i \in Handlers : run[i] = "none" => run'[i] = "none"
    BY <2>2
  <2>5. Leave(h, "take") \/ Leave(h, "respond")
    BY <1>1 DEF Check
  <2> QED
    BY <1>0, <2>3, <2>4, <2>5, LeavingIsSound DEF HasScope, BeforeRun, s, Scope
<1>2. CASE Take(h)
  <2>1. run' = run
    BY <1>2 DEF Take
  <2>2. lease' \in [Scopes -> Handlers \cup {NoOne}]
    BY <1>2, <1>0 DEF Take, OtherTypes
  <2>3. OtherTypes'
    BY <1>2, <2>1, <2>2 DEF Take, OtherTypes
  <2>4. turn[h].pc = "take" /\ (Goto(h, "insert") \/ Goto(h, "get"))
    BY <1>2 DEF Take, At
  <2> QED
    BY <1>0, <2>1, <2>3, <2>4, MovingOnIsSound DEF HasScope, BeforeRun, s, Scope
<1>3. CASE Get(h)
  <2>1. CASE lease[s] = NoOne
    <3>1. LookAtRuns(s) /\ Leave(h, "respond")
      BY <1>3, <2>1 DEF Get, s
    <3>2. /\ run' \in [Handlers -> {"none", "running", "completed", "failed"}]
          /\ lease' \in [Scopes -> Handlers \cup {NoOne}]
          /\ \A i \in Handlers : run'[i] = run[i] \/ (run[i] = "running" /\ run'[i] = "failed")
      BY <1>0, <3>1, RunsAreLookedAt
    <3>3. OtherTypes'
      BY <1>3, <3>2 DEF Get, OtherTypes
    <3>4. \A i \in Handlers : run[i] = "none" => run'[i] = "none"
      BY <3>2
    <3> QED
      BY <1>0, <3>1, <3>3, <3>4, LeavingIsSound DEF HasScope, BeforeRun
  <2>2. CASE lease[s] # NoOne
    <3>1. OtherTypes' /\ run' = run
      BY <1>3, <2>2 DEF Get, OtherTypes, s
    <3>2. CASE run[lease[s]] = "running"
      <4>1. Leave(h, "respond")
        BY <1>3, <2>2, <3>2 DEF Get, s
      <4> QED
        BY <1>0, <3>1, <4>1, LeavingIsSound DEF HasScope, BeforeRun
    <3>3. CASE run[lease[s]] # "running"
      <4> DEFINE e == lease[s]
      <4>1. e \in Handlers
        BY <1>0, <2>2 DEF OtherTypes
      <4> HIDE DEF e
      <4>2. GoesWith(h, "clear", e)
        BY <1>3, <2>2, <3>3 DEF Get, GoesWith, s, e
      <4>3. PICK r \in TurnRecords :
              /\ Becomes(h, r)
              /\ r.pc = "clear" /\ r.msg = turn[h].msg
              /\ r.at = turn[h].at /\ r.seen = e /\ r.caught = turn[h].caught
              /\ r.made = turn[h].made
        BY <4>1, <4>2, ReadsState
      <4>4. Sensible(r) /\ Follows(r, h)
        BY <1>0, <4>1, <4>3 DEF Sensible, Follows, s, Scope
      <4> QED
        BY <1>0, <3>1, <4>3, <4>4 DEF StepIsSound
    <3> QED
      BY <3>2, <3>3
  <2> QED
    BY <2>1, <2>2
<1>4. CASE Clear(h)
  <2>1. run' = run /\ OtherTypes'
    <3>1. CASE lease[s] = turn[h].seen
      <4>1. lease' = [lease EXCEPT ![s] = NoOne]
        BY <1>4, <3>1 DEF Clear, s
      <4>2. lease' \in [Scopes -> Handlers \cup {NoOne}]
        BY <1>0, <4>1 DEF OtherTypes
      <4>3. overtaken' \subseteq Handlers
        <5>1. overtaken' = overtaken \cup {i \in {lease[s]} : run[i] \in {"none", "running"}}
          BY <1>4, <3>1 DEF Clear, s
        <5>2. turn[h].seen \in Handlers
          BY <1>4 DEF Clear, At, Sensible
        <5> QED
          BY <3>1, <5>1, <5>2 DEF OtherTypes
      <4> QED
        BY <1>4, <4>2, <4>3 DEF Clear, OtherTypes
    <3>2. CASE lease[s] # turn[h].seen
      BY <1>4, <3>2 DEF Clear, OtherTypes, s
    <3> QED
      BY <3>1, <3>2
  <2>2. Goto(h, "check") \/ Leave(h, "respond")
    BY <1>4 DEF Clear
  <2>3. CASE Goto(h, "check")
    BY <1>0, <2>1, <2>3, MovingOnIsSound DEF HasScope, BeforeRun, s, Scope
  <2>4. CASE Leave(h, "respond")
    BY <1>0, <2>1, <2>4, LeavingIsSound DEF HasScope, BeforeRun
  <2> QED
    BY <2>2, <2>3, <2>4
<1>5. CASE Insert(h)
  <2>1. run' \in [Handlers -> {"none", "running", "completed", "failed"}]
    BY <1>5 DEF Insert, OtherTypes
  <2>2. OtherTypes'
    BY <1>5, <2>1 DEF Insert, OtherTypes
  <2>3. PICK r \in TurnRecords :
          /\ Becomes(h, r)
          /\ r.pc = "work" /\ r.msg = turn[h].msg /\ r.at = turn[h].at
          /\ r.seen = turn[h].seen /\ r.caught = turn[h].caught /\ r.made = turn[h].made
    BY <1>5, MovesOn DEF Insert
  <2>4. Sensible(r) /\ Follows(r, h) /\ r.pc \notin BeforeRun
    BY <1>0, <2>3 DEF Sensible, Follows, BeforeRun, s, Scope
  <2>5. \A i \in Handlers \ {h} : run'[i] = run[i]
    BY <1>5 DEF Insert, OtherTypes
  <2> QED
    BY <2>2, <2>3, <2>4, <2>5 DEF StepIsSound
<1>6. CASE InsertFails(h)
  <2>1. run' = run /\ Leave(h, "failed")
    BY <1>6 DEF InsertFails
  <2>2. lease' \in [Scopes -> Handlers \cup {NoOne}]
    BY <1>6, <1>0 DEF InsertFails, OtherTypes
  <2>3. OtherTypes'
    BY <1>6, <2>2 DEF InsertFails, OtherTypes
  <2> QED
    BY <1>0, <2>1, <2>3, LeavingIsSound DEF HasScope, BeforeRun
<1> QED
  BY <1>1, <1>2, <1>3, <1>4, <1>5, <1>6

\* The steps of the turn.
LEMMA WorkIsSound ==
  ASSUME TurnsInv, NEW h \in Handlers,
         \/ \E caught \in BOOLEAN : Answer(h, caught) \/ CloseRuns(h, caught)
         \/ Decide(h) \/ Create(h) \/ Link(h) \/ StartWorker(h)
         \/ Complete(h) \/ WriteCompleted(h) \/ ClearKey(h) \/ Close(h)
  PROVE  StepIsSound(h)
<1> USE HandlerMakesSense, PlacesExist
<1> DEFINE s == Scope(h)
           m == Message(h)
<1>0. s \in Scopes /\ m \in Messages /\ turn[h].pc \notin BeforeRun
      /\ turn[h].pc \notin {"idle", "done"}
  BY DEF Answer, CloseRuns, Decide, Create, Link, StartWorker, Complete, WriteCompleted, ClearKey,
         Close, At, Sensible, HasScope, BeforeRun, Scope, Message
<1> HIDE DEF s, m
<1>1. ASSUME NEW caught \in BOOLEAN, NEW p \in {"complete", "create", "drop"},
             GoesMinding(h, p, caught), OtherTypes',
             \A i \in Handlers : run[i] = "none" => run'[i] = "none"
      PROVE  StepIsSound(h)
  <2>1. PICK r \in TurnRecords :
          /\ Becomes(h, r)
          /\ r.pc = p /\ r.msg = turn[h].msg
          /\ r.at = turn[h].at /\ r.seen = turn[h].seen /\ r.caught = caught
          /\ r.made = turn[h].made
    BY <1>1, MindsErrors
  <2>2. Sensible(r) /\ Follows(r, h) /\ r.pc \notin BeforeRun
    BY <1>0, <2>1 DEF Sensible, Follows, BeforeRun, s, m, Scope, Message
  <2> QED
    BY <1>1, <2>1, <2>2 DEF StepIsSound
<1>2. ASSUME NEW p \in {"start", "complete", "write", "close"}, Goto(h, p), OtherTypes',
             run' = run, p = "start" => turn[h].pc = "link"
      PROVE  StepIsSound(h)
  BY <1>0, <1>2, MovingOnIsSound DEF HasScope, BeforeRun, s, Scope
<1>3. ASSUME Leave(h, "respond"), OtherTypes',
             \A i \in Handlers : run[i] = "none" => run'[i] = "none"
      PROVE  StepIsSound(h)
  BY <1>0, <1>3, LeavingIsSound DEF HasScope, BeforeRun
<1>4. ASSUME NEW caught \in BOOLEAN, Answer(h, caught) PROVE StepIsSound(h)
  <2>1. OtherTypes' /\ run' = run
    BY <1>4 DEF Answer, OtherTypes
  <2>2. CASE run[h] = "running"
    <3>1. GoesMinding(h, "complete", caught)
      BY <1>4, <2>2 DEF Answer, GoesMinding
    <3> QED
      BY <1>1, <2>1, <3>1
  <2>3. CASE run[h] # "running"
    BY <1>3, <1>4, <2>1, <2>3 DEF Answer
  <2> QED
    BY <2>2, <2>3
<1>5. ASSUME NEW caught \in BOOLEAN, CloseRuns(h, caught) PROVE StepIsSound(h)
  <2>1. RunsOf(s) \ {h} \in SUBSET Handlers
    BY DEF RunsOf
  <2>2. FailRuns(RunsOf(s) \ {h}, s)
    BY <1>5 DEF CloseRuns, s
  <2>3. /\ run' \in [Handlers -> {"none", "running", "completed", "failed"}]
        /\ lease' \in [Scopes -> Handlers \cup {NoOne}]
        /\ \A i \in Handlers : run'[i] = run[i] \/ (run[i] = "running" /\ run'[i] = "failed")
    BY <1>0, <2>1, <2>2, RunsFail
  <2>4. OtherTypes'
    BY <1>5, <2>3 DEF CloseRuns, OtherTypes
  <2>5. GoesMinding(h, "drop", caught)
    BY <1>5 DEF CloseRuns, GoesMinding
  <2> QED
    BY <1>1, <2>3, <2>4, <2>5
<1>6. CASE Decide(h)
  <2>1. OtherTypes' /\ run' = run
    BY <1>6 DEF Decide, OtherTypes
  <2>2. GoesMinding(h, "create", TRUE)
    BY <1>6 DEF Decide, GoesMinding
  <2> QED
    BY <1>1, <2>1, <2>2
<1>7. CASE Create(h)
  <2>0. turn[h].pc = "create"
    BY <1>7 DEF Create, At
  <2> DEFINE d == m \notin items
  <2>1. GoesHaving(h, "link", d) /\ d \in BOOLEAN
    BY <1>7 DEF Create, GoesHaving, m
  <2>2. OtherTypes' /\ run' = run
    BY <1>0, <1>7 DEF Create, OtherTypes, m
  <2> HIDE DEF d
  <2>3. PICK r \in TurnRecords :
          /\ Becomes(h, r)
          /\ r.pc = "link" /\ r.msg = turn[h].msg
          /\ r.at = turn[h].at /\ r.seen = turn[h].seen /\ r.caught = turn[h].caught
          /\ r.made = d
    BY <2>1, NotesItem
  <2>4. Sensible(r) /\ Follows(r, h) /\ r.pc \notin BeforeRun
    BY <1>0, <2>0, <2>3 DEF Sensible, Follows, BeforeRun, s, m, Scope, Message
  <2> QED
    BY <2>2, <2>3, <2>4 DEF StepIsSound
<1>8. CASE Link(h)
  <2>1. OtherTypes' /\ run' = run /\ Goto(h, "start") /\ turn[h].pc = "link"
    BY <1>8 DEF Link, OtherTypes, At
  <2> QED
    BY <1>2, <2>1
<1>9. CASE StartWorker(h)
  <2>1. starts' \in [Messages -> Nat]
    <3> DEFINE k == IF turn[h].made THEN 1 ELSE 0
    <3>1. k \in Nat
      OBVIOUS
    <3> HIDE DEF k
    <3>2. starts' = [starts EXCEPT ![m] = @ + k]
      BY <1>9 DEF StartWorker, k, m
    <3>3. starts[m] + k \in Nat
      BY <1>0, <3>1 DEF OtherTypes
    <3> QED
      BY <1>0, <3>2, <3>3 DEF OtherTypes
  <2>2. OtherTypes' /\ run' = run /\ Goto(h, "complete")
    BY <1>9, <2>1 DEF StartWorker, OtherTypes
  <2> QED
    BY <1>2, <2>2
<1>10. CASE Complete(h)
  <2>1. OtherTypes' /\ run' = run /\ (Goto(h, "write") \/ Leave(h, "respond"))
    BY <1>10 DEF Complete, OtherTypes
  <2> QED
    BY <1>2, <1>3, <2>1
<1>11. CASE WriteCompleted(h)
  <2>1. run' \in [Handlers -> {"none", "running", "completed", "failed"}]
    BY <1>11 DEF WriteCompleted, OtherTypes
  <2>2. lease' \in [Scopes -> Handlers \cup {NoOne}]
    BY <1>0, <1>11 DEF WriteCompleted, OtherTypes
  <2>3. OtherTypes' /\ Leave(h, "respond")
    BY <1>11, <2>1, <2>2 DEF WriteCompleted, OtherTypes
  <2>4. CASE run[h] # "none"
    BY <1>3, <1>11, <2>3, <2>4 DEF WriteCompleted, OtherTypes
  <2>5. CASE run[h] = "none"
    <3> HIDE HandlerMakesSense, PlacesExist
    <3>1. TurnsTypeOK /\ "respond" \in Places /\ Leave(h, "respond")
      BY <2>3, HandlerMakesSense, PlacesExist
    <3>2. PICK r \in TurnRecords :
            /\ Becomes(h, r)
            /\ r.pc = "respond" /\ r.msg = turn[h].msg /\ r.at = turn[h].at
            /\ r.seen = NoOne /\ r.caught = FALSE /\ r.made = FALSE
      BY <3>1, LeavesWork
    <3>3. Sensible(r) /\ Follows(r, h) /\ r.pc \notin BeforeRun
      BY <1>0, <3>2, HandlerMakesSense DEF Sensible, Follows, HasScope, BeforeRun, m, Message
    <3>4. \A i \in Handlers \ {h} : run'[i] = run[i]
      BY <1>11, HandlerMakesSense DEF WriteCompleted, OtherTypes
    <3> QED
      BY <2>3, <3>2, <3>3, <3>4 DEF StepIsSound
  <2> QED
    BY <2>4, <2>5
<1>12. CASE ClearKey(h)
  <2>1. lease' \in [Scopes -> Handlers \cup {NoOne}]
    BY <1>0, <1>12 DEF ClearKey, DropKey, OtherTypes, s
  <2>2. overtaken' \subseteq Handlers
    <3>1. overtaken' = overtaken \cup
                         {i \in {lease[s]} : i # NoOne /\ run[i] \in {"none", "running"}}
      BY <1>12 DEF ClearKey, DropKey, s
    <3> QED
      BY <1>0, <3>1 DEF OtherTypes
  <2>3. OtherTypes' /\ run' = run /\ Goto(h, "close")
    BY <1>12, <2>1, <2>2 DEF ClearKey, OtherTypes
  <2> QED
    BY <1>2, <2>3
<1>13. CASE Close(h)
  <2>1. OtherTypes' /\ run' = run /\ Goto(h, "complete")
    BY <1>13 DEF Close, OtherTypes
  <2> QED
    BY <1>2, <2>1
<1> QED
  BY <1>4, <1>5, <1>6, <1>7, <1>8, <1>9, <1>10, <1>11, <1>12, <1>13

\* The answer, the errors, the crashes and the time that runs out.
LEMMA EndingsAreSound ==
  ASSUME TurnsInv, NEW h \in Handlers,
         \/ Respond(h) \/ Throw(h) \/ FailDelivery(h) \/ FailOwnRun(h) \/ Failed(h)
         \/ Settle(h) \/ React(h) \/ Crash(h)
  PROVE  StepIsSound(h)
<1> USE HandlerMakesSense, PlacesExist
<1>1. CASE Respond(h) \/ Failed(h)
  <2>1. OtherTypes' /\ run' = run /\ Leave(h, "settle") /\ turn[h].pc \in {"respond", "failed"}
    BY <1>1 DEF Respond, Failed, OtherTypes, At, Statuses
  <2> QED
    BY <2>1, LeavingIsSound DEF HasScope, BeforeRun
<1>2. CASE Throw(h)
  <2>1. OtherTypes' /\ run' = run /\ turn[h].pc \notin {"idle", "done"}
    BY <1>2 DEF Throw, OtherTypes
  <2>2. CASE At(h, "work") \/ turn[h].caught
    <3>1. Leave(h, "fail") /\ turn[h].at \in Scopes
      BY <1>2, <2>2 DEF Throw, At, Sensible, HasScope
    <3> QED
      BY <2>1, <3>1, LeavingIsSound DEF BeforeRun
  <2>3. CASE ~(At(h, "work") \/ turn[h].caught)
    <3>1. Leave(h, "failed")
      BY <1>2, <2>3 DEF Throw
    <3> QED
      BY <2>1, <3>1, LeavingIsSound DEF HasScope, BeforeRun
  <2> QED
    BY <2>2, <2>3
<1>3. CASE FailDelivery(h)
  <2>1. /\ OtherTypes' /\ run' = run /\ Goto(h, "failrun") /\ turn[h].pc = "fail"
        /\ turn[h].at \in Scopes
    BY <1>3 DEF FailDelivery, OtherTypes, At, Statuses, Sensible, HasScope
  <2> QED
    BY <2>1, MovingOnIsSound DEF BeforeRun
<1>4. CASE FailOwnRun(h)
  <2>1. {h} \in SUBSET Handlers /\ Scope(h) \in Scopes
    BY <1>4 DEF FailOwnRun, At, Sensible, HasScope, Scope
  <2>2. FailRuns({h}, Scope(h)) /\ Leave(h, "failed") /\ turn[h].pc = "failrun"
    BY <1>4 DEF FailOwnRun, At
  <2>3. /\ run' \in [Handlers -> {"none", "running", "completed", "failed"}]
        /\ lease' \in [Scopes -> Handlers \cup {NoOne}]
        /\ \A i \in Handlers : run'[i] = run[i] \/ (run[i] = "running" /\ run'[i] = "failed")
    BY <2>1, <2>2, RunsFail
  <2>4. OtherTypes'
    BY <1>4, <2>3 DEF FailOwnRun, OtherTypes
  <2>5. \A i \in Handlers : run[i] = "none" => run'[i] = "none"
    BY <2>3
  <2> QED
    BY <2>2, <2>4, <2>5, LeavingIsSound DEF HasScope, BeforeRun
<1>5. CASE Settle(h)
  <2> DEFINE e == delivery[Message(h)]
  <2>1. Message(h) \in Messages /\ turn[h].pc = "settle"
    BY <1>5 DEF Settle, At, Sensible, Message
  <2>2. e \in Statuses
    BY <2>1 DEF OtherTypes
  <2> HIDE DEF e
  <2>3. GoesWith(h, "react", e)
    BY <1>5 DEF Settle, GoesWith, e
  <2>4. PICK r \in TurnRecords :
          /\ Becomes(h, r)
          /\ r.pc = "react" /\ r.msg = turn[h].msg
          /\ r.at = turn[h].at /\ r.seen = e /\ r.caught = turn[h].caught
          /\ r.made = turn[h].made
    BY <2>2, <2>3, ReadsState
  <2>5. Sensible(r) /\ Follows(r, h) /\ r.pc \notin BeforeRun
    BY <2>1, <2>2, <2>4 DEF Sensible, Follows, HasScope, BeforeRun, Message
  <2>6. OtherTypes' /\ run' = run
    BY <1>5 DEF Settle, OtherTypes
  <2> QED
    BY <2>4, <2>5, <2>6 DEF StepIsSound
<1>6. CASE React(h)
  <2>1. turn[h].seen \in Statuses
    BY <1>6 DEF React, At, Sensible
  <2>2. OtherTypes' /\ run' = run /\ End(h)
    BY <1>6, <2>1 DEF React, OtherTypes
  <2> QED
    BY <2>2, EndingIsSound
<1>7. CASE Crash(h)
  <2>1. OtherTypes' /\ run' = run /\ End(h)
    BY <1>7 DEF Crash, OtherTypes
  <2> QED
    BY <2>1, EndingIsSound
<1> QED
  BY <1>1, <1>2, <1>3, <1>4, <1>5, <1>6, <1>7

\* The steps of the clock and of the button leave the handlers where they are.
LEMMA QuietStepKeepsTurns ==
  ASSUME TurnsInv, turn' = turn, OtherTypes',
         \A i \in Handlers : run[i] = "none" => run'[i] = "none"
  PROVE  TurnsInv'
<1>1. TurnsTypeOK'
  BY DEF TurnsInv, TurnsTypeOK, OtherTypes
<1>2. ASSUME NEW i \in Handlers
      PROVE  Sensible(turn'[i]) /\ (turn'[i].pc \in BeforeRun => run'[i] = "none")
  BY HandlerMakesSense
<1>3. TurnsMakeSense' <=> \A i \in Handlers :
        Sensible(turn'[i]) /\ (turn'[i].pc \in BeforeRun => run'[i] = "none")
  BY DEF TurnsMakeSense, Sensible
<1> QED
  BY <1>1, <1>2, <1>3 DEF TurnsInv

\* Nobody's key is dropped.
LEMMA DroppedKeysAreTyped ==
  ASSUME TurnsInv, NEW s \in Scopes, DropKey(s)
  PROVE  lease' \in [Scopes -> Handlers \cup {NoOne}] /\ overtaken' \subseteq Handlers
BY DEF TurnsInv, TurnsTypeOK, DropKey

\* A handler's step is sound, or its time runs out.
LEMMA HandlersAreSound ==
  ASSUME TurnsInv, NEW h \in Handlers, HandlerStep(h)
  PROVE  StepIsSound(h) \/ Lapse(h)
<1>1. CASE \/ \E m \in Messages : Receive(h, m)
           \/ \E named \in BOOLEAN : Choose(h, named)
           \/ Begin(h) \/ Dismiss(h) \/ Open(h)
  BY <1>1, ArrivalIsSound
<1>2. CASE Check(h) \/ Take(h) \/ Get(h) \/ Clear(h) \/ Insert(h) \/ InsertFails(h)
  BY <1>2, LeasingIsSound
<1>3. CASE \/ \E caught \in BOOLEAN : Answer(h, caught) \/ CloseRuns(h, caught)
           \/ Decide(h) \/ Create(h) \/ Link(h) \/ StartWorker(h)
           \/ Complete(h) \/ WriteCompleted(h) \/ ClearKey(h) \/ Close(h)
  BY <1>3, WorkIsSound
<1>4. CASE \/ Respond(h) \/ Throw(h) \/ FailDelivery(h) \/ FailOwnRun(h) \/ Failed(h)
           \/ Settle(h) \/ React(h) \/ Crash(h)
  BY <1>4, EndingsAreSound
<1> QED
  BY <1>1, <1>2, <1>3, <1>4 DEF HandlerStep

\* Every step keeps the invariant.
LEMMA TurnsInvNext == TurnsInv /\ [TurnsNext]_turnsVars => TurnsInv'
<1> SUFFICES ASSUME TurnsInv, [TurnsNext]_turnsVars PROVE TurnsInv'
  OBVIOUS
<1>0. OtherTypes
  BY DEF TurnsInv, TurnsTypeOK, OtherTypes
<1>1. ASSUME NEW h \in Handlers, HandlerStep(h) PROVE TurnsInv'
  <2>1. CASE Lapse(h)
    BY <1>0, <2>1, QuietStepKeepsTurns DEF Lapse, OtherTypes
  <2>2. CASE StepIsSound(h)
    BY <2>2, SoundStepKeepsTurns
  <2> QED
    BY <1>1, <2>1, <2>2, HandlersAreSound
<1>2. ASSUME NEW s \in Scopes, KeyExpires(s) PROVE TurnsInv'
  <2>1. lease' \in [Scopes -> Handlers \cup {NoOne}] /\ overtaken' \subseteq Handlers
    BY <1>0, <1>2 DEF KeyExpires, OtherTypes
  <2> QED
    BY <1>0, <1>2, <2>1, QuietStepKeepsTurns DEF KeyExpires, OtherTypes
<1>3. CASE PressClose
  <2>1. RunsOf(Thread) \in SUBSET Handlers /\ Thread \in Scopes
    BY DEF RunsOf, Scopes
  <2>2. FailRuns(RunsOf(Thread), Thread)
    BY <1>3 DEF PressClose
  <2>3. /\ run' \in [Handlers -> {"none", "running", "completed", "failed"}]
        /\ lease' \in [Scopes -> Handlers \cup {NoOne}]
        /\ \A i \in Handlers : run'[i] = run[i] \/ (run[i] = "running" /\ run'[i] = "failed")
    BY <2>1, <2>2, RunsFail DEF TurnsInv
  <2>4. OtherTypes' /\ turn' = turn
    BY <1>0, <1>3, <2>3 DEF PressClose, OtherTypes
  <2>5. \A i \in Handlers : run[i] = "none" => run'[i] = "none"
    BY <2>3
  <2> QED
    BY <2>4, <2>5, QuietStepKeepsTurns
<1>4. CASE ButtonClearsKey
  <2>1. lease' \in [Scopes -> Handlers \cup {NoOne}] /\ overtaken' \subseteq Handlers
    BY <1>4, DroppedKeysAreTyped DEF ButtonClearsKey, Scopes
  <2> QED
    BY <1>0, <1>4, <2>1, QuietStepKeepsTurns DEF ButtonClearsKey, OtherTypes
<1>5. CASE ButtonCloses
  BY <1>0, <1>5, QuietStepKeepsTurns DEF ButtonCloses, OtherTypes
<1>6. CASE UNCHANGED turnsVars
  BY <1>0, <1>6, QuietStepKeepsTurns DEF turnsVars, OtherTypes
<1> QED
  BY <1>1, <1>2, <1>3, <1>4, <1>5, <1>6 DEF TurnsNext

\* A handler's record, its delivery, its session, the keys and the runs keep their
\* types, whatever messages come and whatever goes wrong.
THEOREM TurnsTypeCorrect == TurnsSpec => []TurnsTypeOK
<1>1. TurnsInv => TurnsTypeOK
  BY DEF TurnsInv
<1> QED
  BY <1>1, TurnsInvInit, TurnsInvNext, PTL DEF TurnsSpec

-----------------------------------------------------------------------------
(* Turns exclude each other.                                               *)

\* What a sound step does to the records.
LEMMA SoundStepMoves ==
  ASSUME TurnsInv, NEW h \in Handlers, StepIsSound(h)
  PROVE  Follows(turn'[h], h) /\ \A i \in Handlers \ {h} : turn'[i] = turn[i]
<1>1. PICK r \in TurnRecords : Becomes(h, r) /\ Follows(r, h)
  BY DEF StepIsSound
<1> QED
  BY <1>1 DEF TurnsInv, TurnsTypeOK, Becomes

\* Who relies on the key of its session: a run with time left, and a handler that
\* is about to insert its run, unless the key was taken from it.  It has the key.
NeedsKey(h) == h \notin overtaken /\ (Live(h) \/ At(h, "insert"))
KeysInv ==
  \A h \in Handlers : NeedsKey(h) => Scope(h) \in Scopes /\ lease[Scope(h)] = h

\* So it stays when nobody comes to need a key and no key goes that is needed.
LEMMA KeysAreKept ==
  ASSUME KeysInv,
         lapsed \subseteq lapsed', overtaken \subseteq overtaken',
         \A i \in Handlers : run'[i] = "running" => run[i] = "running",
         \A i \in Handlers :
           \/ turn'[i] = turn[i]
           \/ turn'[i].pc # "insert" /\ (turn'[i].at = turn[i].at \/ run[i] = "none"),
         \A i \in Handlers, t \in Scopes : lease[t] = i /\ NeedsKey(i)' => lease'[t] = i
  PROVE  KeysInv'
<1> SUFFICES ASSUME NEW i \in Handlers, NeedsKey(i)'
             PROVE  Scope(i)' \in Scopes /\ lease'[Scope(i)'] = i
  BY DEF KeysInv
<1>1. NeedsKey(i) /\ Scope(i)' = Scope(i)
  BY DEF NeedsKey, Live, At, Scope
<1>2. Scope(i) \in Scopes /\ lease[Scope(i)] = i
  BY <1>1 DEF KeysInv
<1> QED
  BY <1>1, <1>2

\* The initial state.
LEMMA KeysInvInit == TurnsInit => KeysInv
BY DEF TurnsInit, KeysInv, NeedsKey, Live, At, Bare

\* A handler's step, but the two that make it need a key.
LEMMA HandlersKeepKeys ==
  ASSUME TurnsInv, KeysInv, NEW h \in Handlers, StepIsSound(h),
         turn'[h].pc # "insert", lapsed' = lapsed, overtaken \subseteq overtaken',
         \A i \in Handlers : run'[i] = "running" => run[i] = "running",
         \A i \in Handlers, t \in Scopes : lease[t] = i /\ NeedsKey(i)' => lease'[t] = i
  PROVE  KeysInv'
<1>1. \A i \in Handlers :
        \/ turn'[i] = turn[i]
        \/ turn'[i].pc # "insert" /\ (turn'[i].at = turn[i].at \/ run[i] = "none")
  BY SoundStepMoves DEF Follows
<1> QED
  BY <1>1, KeysAreKept

\* The key that failAgentRun gives back is not needed any more.
LEMMA FailedRunsNeedNoKey ==
  ASSUME TurnsInv, TurnsInv', NEW i \in Handlers, NEW t \in Scopes, lease[t] = i, NeedsKey(i)',
         \/ lease'[t] = lease[t]
         \/ /\ lease[t] \in Handlers /\ run[lease[t]] = "running"
            /\ run'[lease[t]] = "failed" /\ lease'[t] = NoOne
  PROVE  lease'[t] = i
<1> SUFFICES ASSUME run'[i] = "failed" PROVE FALSE
  OBVIOUS
<1>1. At(i, "insert")'
  BY DEF NeedsKey, Live
<1>2. (turn'[i].pc \in BeforeRun => run'[i] = "none")
  BY DEF TurnsInv, TurnsMakeSense
<1> QED
  BY <1>1, <1>2 DEF At, BeforeRun

\* Nor is a key that is dropped or has run out: who needed it is overtaken.
LEMMA DroppedKeysAreNotNeeded ==
  ASSUME TurnsInv, TurnsInv', NEW s \in Scopes, DropKey(s), UNCHANGED run
  PROVE  \A i \in Handlers, t \in Scopes : lease[t] = i /\ NeedsKey(i)' => lease'[t] = i
<1>1. /\ lease' = [lease EXCEPT ![s] = NoOne]
      /\ overtaken' = overtaken \cup
                        {i \in {lease[s]} : i # NoOne /\ run[i] \in {"none", "running"}}
  BY DEF DropKey
<1> SUFFICES ASSUME NEW i \in Handlers, lease[s] = i, NeedsKey(i)' PROVE FALSE
  BY <1>1 DEF TurnsInv, TurnsTypeOK
<1>2. run[i] \notin {"none", "running"}
  BY <1>1, TurnsAssumption DEF NeedsKey
<1>3. At(i, "insert")'
  BY <1>2 DEF NeedsKey, Live
<1>4. turn'[i].pc \in BeforeRun => run'[i] = "none"
  BY DEF TurnsInv, TurnsMakeSense
<1> QED
  BY <1>2, <1>3, <1>4 DEF At, BeforeRun

\* A handler's steps keep the keys.
LEMMA HandlerStepKeepsKeys ==
  ASSUME TurnsInv, TurnsInv', KeysInv, NEW h \in Handlers, HandlerStep(h)
  PROVE  KeysInv'
<1> DEFINE s == Scope(h)
<1>1. CASE Lapse(h)
  BY <1>1, KeysAreKept DEF Lapse
<1>2. ASSUME StepIsSound(h) PROVE KeysInv'
  <2>0. turn'[h].pc = "insert" => turn[h].pc = "take"
    BY <1>2, SoundStepMoves DEF Follows
  <2>1. CASE UNCHANGED <<lease, run, lapsed, overtaken>> /\ ~At(h, "take")
    BY <1>2, <2>0, <2>1, HandlersKeepKeys DEF At
  <2>2. ASSUME At(h, "check") \/ At(h, "get"), LookAtRuns(s), UNCHANGED <<lapsed, overtaken>>
        PROVE  KeysInv'
    <3>1. s \in Scopes
      BY <2>2 DEF At, TurnsInv, TurnsMakeSense, Sensible, HasScope, Scope
    <3>2. /\ \A i \in Handlers : run'[i] = run[i] \/ (run[i] = "running" /\ run'[i] = "failed")
          /\ \A t \in Scopes :
               \/ lease'[t] = lease[t]
               \/ /\ lease[t] \in Handlers /\ run[lease[t]] = "running"
                  /\ run'[lease[t]] = "failed" /\ lease'[t] = NoOne
      BY <2>2, <3>1, RunsAreLookedAt DEF TurnsInv
    <3>3. \A i \in Handlers, t \in Scopes : lease[t] = i /\ NeedsKey(i)' => lease'[t] = i
      BY <3>2, FailedRunsNeedNoKey
    <3>4. turn'[h].pc # "insert"
      BY <2>0, <2>2 DEF At
    <3> QED
      BY <1>2, <2>2, <3>2, <3>3, <3>4, HandlersKeepKeys
  <2>3. ASSUME NEW runs \in SUBSET Handlers, FailRuns(runs, s), s \in Scopes, ~At(h, "take"),
               UNCHANGED <<lapsed, overtaken>>
        PROVE  KeysInv'
    <3>1. /\ \A i \in Handlers : run'[i] = run[i] \/ (run[i] = "running" /\ run'[i] = "failed")
          /\ \A t \in Scopes :
               \/ lease'[t] = lease[t]
               \/ /\ lease[t] \in Handlers /\ run[lease[t]] = "running"
                  /\ run'[lease[t]] = "failed" /\ lease'[t] = NoOne
      BY <2>3, RunsFail DEF TurnsInv
    <3>2. \A i \in Handlers, t \in Scopes : lease[t] = i /\ NeedsKey(i)' => lease'[t] = i
      BY <3>1, FailedRunsNeedNoKey
    <3> QED
      BY <1>2, <2>0, <2>3, <3>1, <3>2, HandlersKeepKeys DEF At
  <2>4. CASE Check(h)
    BY <2>2, <2>4 DEF Check
  <2>5. CASE Get(h)
    <3>1. CASE lease[s] = NoOne
      BY <2>2, <2>5, <3>1 DEF Get
    <3>2. CASE lease[s] # NoOne
      BY <2>1, <2>5, <3>2 DEF Get, At
    <3> QED
      BY <3>1, <3>2
  <2>6. CASE \E caught \in BOOLEAN : CloseRuns(h, caught)
    <3>1. s \in Scopes
      BY <2>6 DEF CloseRuns, At, TurnsInv, TurnsMakeSense, Sensible, HasScope, Scope
    <3>2. RunsOf(s) \ {h} \in SUBSET Handlers
      BY DEF RunsOf
    <3> QED
      BY <2>3, <2>6, <3>1, <3>2 DEF CloseRuns, At
  <2>7. CASE FailOwnRun(h)
    <3>1. s \in Scopes
      BY <2>7 DEF FailOwnRun, At, TurnsInv, TurnsMakeSense, Sensible, HasScope, Scope
    <3> QED
      BY <2>3, <2>7, <3>1 DEF FailOwnRun, At
  <2>8. CASE Take(h)
    <3>1. s \in Scopes
      BY <2>8 DEF Take, At, TurnsInv, TurnsMakeSense, Sensible, HasScope, Scope
    <3>2. CASE lease[s] # NoOne
      <4>1. Goto(h, "get") /\ UNCHANGED <<lease, run, lapsed, overtaken>>
        BY <2>8, <3>2 DEF Take
      <4>2. turn'[h].pc # "insert"
        BY <4>1 DEF Goto, TurnsInv, TurnsTypeOK, TurnRecords
      <4> QED
        BY <1>2, <4>1, <4>2, HandlersKeepKeys
    <3>3. CASE lease[s] = NoOne
      <4>1. /\ lease' = [lease EXCEPT ![s] = h] /\ Goto(h, "insert")
            /\ UNCHANGED <<run, lapsed, overtaken>>
        BY <2>8, <3>3 DEF Take
      <4>2. lease'[s] = h /\ \A t \in Scopes \ {s} : lease'[t] = lease[t]
        BY <3>1, <4>1 DEF TurnsInv, TurnsTypeOK
      <4>3. Scope(h)' = s
        BY <4>1 DEF Goto, Scope, TurnsInv, TurnsTypeOK, TurnRecords
      <4>4. ASSUME NEW i \in Handlers, i # h, NeedsKey(i)'
            PROVE  Scope(i)' \in Scopes /\ lease'[Scope(i)'] = i
        <5>1. turn'[i] = turn[i]
          BY <1>2, <4>4, SoundStepMoves
        <5>2. NeedsKey(i) /\ Scope(i)' = Scope(i)
          BY <4>1, <4>4, <5>1 DEF NeedsKey, Live, At, Scope
        <5>3. Scope(i) \in Scopes /\ lease[Scope(i)] = i
          BY <5>2 DEF KeysInv
        <5>4. Scope(i) # s
          BY <3>3, <5>3, TurnsAssumption
        <5> QED
          BY <4>2, <5>2, <5>3, <5>4
      <4> QED
        BY <3>1, <4>2, <4>3, <4>4 DEF KeysInv
    <3> QED
      BY <3>2, <3>3
  <2>9. CASE Clear(h)
    <3>1. CASE lease[s] = turn[h].seen
      <4>1. s \in Scopes
        BY <2>9 DEF Clear, At, TurnsInv, TurnsMakeSense, Sensible, HasScope, Scope
      <4>2. /\ lease' = [lease EXCEPT ![s] = NoOne] /\ UNCHANGED <<run, lapsed>>
            /\ overtaken' = overtaken \cup {i \in {lease[s]} : run[i] \in {"none", "running"}}
            /\ At(h, "clear")
        BY <2>9, <3>1 DEF Clear
      <4>3. \A i \in Handlers, t \in Scopes : lease[t] = i /\ NeedsKey(i)' => lease'[t] = i
        <5> SUFFICES ASSUME NEW i \in Handlers, lease[s] = i, NeedsKey(i)' PROVE FALSE
          BY <4>1, <4>2 DEF TurnsInv, TurnsTypeOK
        <5>1. i \notin overtaken' /\ run[i] \notin {"none", "running"}
          BY <4>2 DEF NeedsKey
        <5>2. At(i, "insert")'
          BY <4>2, <5>1 DEF NeedsKey, Live
        <5>3. turn'[i].pc \in BeforeRun => run'[i] = "none"
          BY DEF TurnsInv, TurnsMakeSense
        <5> QED
          BY <4>2, <5>1, <5>2, <5>3 DEF At, BeforeRun
      <4> QED
        BY <1>2, <2>0, <4>2, <4>3, HandlersKeepKeys DEF At
    <3>2. CASE lease[s] # turn[h].seen
      BY <2>1, <2>9, <3>2 DEF Clear, At
    <3> QED
      BY <3>1, <3>2
  <2>10. CASE Insert(h)
    <3>1. /\ At(h, "insert") /\ run' = [run EXCEPT ![h] = "running"]
          /\ Goto(h, "work") /\ UNCHANGED <<lease, lapsed, overtaken>>
      BY <2>10 DEF Insert
    <3>2. turn'[h].pc = "work" /\ Scope(h)' = Scope(h)
      BY <3>1 DEF Goto, Scope, TurnsInv, TurnsTypeOK, TurnRecords
    <3>3. ASSUME NEW i \in Handlers, NeedsKey(i)'
          PROVE  Scope(i)' \in Scopes /\ lease'[Scope(i)'] = i
      <4>1. CASE i = h
        BY <3>1, <3>2, <3>3, <4>1 DEF KeysInv, NeedsKey
      <4>2. CASE i # h
        <5>1. turn'[i] = turn[i] /\ run'[i] = run[i]
          BY <1>2, <3>1, <4>2, SoundStepMoves DEF TurnsInv, TurnsTypeOK
        <5> QED
          BY <3>1, <3>3, <5>1 DEF KeysInv, NeedsKey, Live, At, Scope
      <4> QED
        BY <4>1, <4>2
    <3> QED
      BY <3>3 DEF KeysInv
  <2>11. CASE InsertFails(h)
    <3>1. /\ lease' = [lease EXCEPT ![s] = IF @ = h THEN NoOne ELSE @]
          /\ Leave(h, "failed") /\ UNCHANGED <<run, lapsed, overtaken>>
          /\ At(h, "insert")
      BY <2>11 DEF InsertFails
    <3>2. turn'[h].pc = "failed" /\ run[h] = "none"
      <4>1. turn'[h].pc = "failed"
        BY <3>1 DEF Leave, Bare, TurnsInv, TurnsTypeOK
      <4>2. turn[h].pc \in BeforeRun => run[h] = "none"
        BY DEF TurnsInv, TurnsMakeSense
      <4> QED
        BY <3>1, <4>1, <4>2 DEF At, BeforeRun
    <3>3. ~NeedsKey(h)'
      BY <3>1, <3>2 DEF NeedsKey, Live, At
    <3>4. \A i \in Handlers, t \in Scopes : lease[t] = i /\ NeedsKey(i)' => lease'[t] = i
      BY <3>1, <3>3 DEF TurnsInv, TurnsTypeOK
    <3> QED
      BY <1>2, <3>1, <3>2, <3>4, HandlersKeepKeys
  <2>12. CASE WriteCompleted(h)
    <3>1. /\ lease' = [lease EXCEPT ![s] = IF @ = h THEN NoOne ELSE @]
          /\ run' = [run EXCEPT ![h] = "completed"]
          /\ At(h, "write") /\ UNCHANGED <<lapsed, overtaken>>
      BY <2>12 DEF WriteCompleted
    <3>2. \A i \in Handlers : run'[i] = IF i = h THEN "completed" ELSE run[i]
      BY <3>1 DEF TurnsInv, TurnsTypeOK
    <3>3. turn'[h].pc # "insert"
      BY <2>0, <3>1 DEF At
    <3>4. ~NeedsKey(h)'
      BY <3>2, <3>3 DEF NeedsKey, Live, At
    <3>5. \A i \in Handlers, t \in Scopes : lease[t] = i /\ NeedsKey(i)' => lease'[t] = i
      BY <3>1, <3>4 DEF TurnsInv, TurnsTypeOK
    <3>6. \A i \in Handlers : run'[i] = "running" => run[i] = "running"
      BY <3>2
    <3> QED
      BY <1>2, <3>1, <3>3, <3>5, <3>6, HandlersKeepKeys
  <2>13. CASE ClearKey(h)
    <3>1. DropKey(s) /\ At(h, "drop") /\ UNCHANGED <<run, lapsed>>
      BY <2>13 DEF ClearKey
    <3>2. s \in Scopes
      BY <3>1 DEF At, TurnsInv, TurnsMakeSense, Sensible, HasScope, Scope
    <3>3. \A i \in Handlers, t \in Scopes : lease[t] = i /\ NeedsKey(i)' => lease'[t] = i
      BY <3>1, <3>2, DroppedKeysAreNotNeeded
    <3> QED
      BY <1>2, <2>0, <3>1, <3>3, HandlersKeepKeys DEF At, DropKey
  <2>14. CASE \/ \E m \in Messages : Receive(h, m)
              \/ \E named \in BOOLEAN : Choose(h, named)
              \/ Begin(h) \/ Dismiss(h) \/ Open(h)
    BY <2>1, <2>14 DEF Receive, Choose, Begin, Dismiss, Open, At
  <2>15. CASE \/ \E caught \in BOOLEAN : Answer(h, caught)
              \/ Decide(h) \/ Create(h) \/ Link(h) \/ StartWorker(h) \/ Complete(h) \/ Close(h)
    BY <2>1, <2>15 DEF Answer, Decide, Create, Link, StartWorker, Complete, Close, At
  <2>16. CASE \/ Respond(h) \/ FailDelivery(h) \/ Failed(h) \/ Settle(h) \/ React(h)
    BY <2>1, <2>16 DEF Respond, FailDelivery, Failed, Settle, React, At
  <2>17. CASE Throw(h) \/ Crash(h)
    <3>1. UNCHANGED <<lease, run, lapsed, overtaken>>
      BY <2>17 DEF Throw, Crash
    <3>2. turn'[h].pc # "insert"
      BY <2>17 DEF Throw, Crash, Leave, End, Bare, TurnsInv, TurnsTypeOK
    <3> QED
      BY <1>2, <3>1, <3>2, HandlersKeepKeys
  <2> QED
    BY <2>4, <2>5, <2>6, <2>7, <2>8, <2>9, <2>10, <2>11, <2>12, <2>13, <2>14, <2>15, <2>16, <2>17,
       <1>1
    DEF HandlerStep
<1> QED
  BY <1>1, <1>2, HandlersAreSound

\* Every step keeps the keys.
LEMMA KeysInvNext == TurnsInv /\ TurnsInv' /\ KeysInv /\ [TurnsNext]_turnsVars => KeysInv'
<1> SUFFICES ASSUME TurnsInv, TurnsInv', KeysInv, [TurnsNext]_turnsVars PROVE KeysInv'
  OBVIOUS
<1>1. ASSUME NEW h \in Handlers, HandlerStep(h) PROVE KeysInv'
  BY <1>1, HandlerStepKeepsKeys
<1>2. ASSUME NEW s \in Scopes, KeyExpires(s) PROVE KeysInv'
  <2>1. /\ lease[s] # NoOne /\ ~Live(lease[s]) /\ lease' = [lease EXCEPT ![s] = NoOne]
        /\ overtaken' = overtaken \cup {i \in {lease[s]} : run[i] = "none"}
        /\ UNCHANGED <<run, lapsed, turn>>
    BY <1>2 DEF KeyExpires
  <2>2. \A i \in Handlers, t \in Scopes : lease[t] = i /\ NeedsKey(i)' => lease'[t] = i
    <3> SUFFICES ASSUME NEW i \in Handlers, lease[s] = i, NeedsKey(i)' PROVE FALSE
      BY <2>1 DEF TurnsInv, TurnsTypeOK
    <3>1. At(i, "insert") /\ run[i] # "none"
      BY <2>1 DEF NeedsKey, Live, At
    <3>2. turn[i].pc \in BeforeRun => run[i] = "none"
      BY DEF TurnsInv, TurnsMakeSense
    <3> QED
      BY <3>1, <3>2 DEF At, BeforeRun
  <2> QED
    BY <2>1, <2>2, KeysAreKept
<1>3. CASE PressClose
  <2>1. RunsOf(Thread) \in SUBSET Handlers /\ Thread \in Scopes
    BY DEF RunsOf, Scopes
  <2>2. FailRuns(RunsOf(Thread), Thread) /\ UNCHANGED <<turn, lapsed, overtaken>>
    BY <1>3 DEF PressClose
  <2>3. /\ \A i \in Handlers : run'[i] = run[i] \/ (run[i] = "running" /\ run'[i] = "failed")
        /\ \A t \in Scopes :
             \/ lease'[t] = lease[t]
             \/ /\ lease[t] \in Handlers /\ run[lease[t]] = "running"
                /\ run'[lease[t]] = "failed" /\ lease'[t] = NoOne
    BY <2>1, <2>2, RunsFail DEF TurnsInv
  <2>4. \A i \in Handlers, t \in Scopes : lease[t] = i /\ NeedsKey(i)' => lease'[t] = i
    BY <2>3, FailedRunsNeedNoKey
  <2> QED
    BY <2>2, <2>3, <2>4, KeysAreKept
<1>4. CASE ButtonClearsKey
  <2>1. DropKey(Thread) /\ Thread \in Scopes /\ UNCHANGED <<run, lapsed, turn>>
    BY <1>4 DEF ButtonClearsKey, Scopes
  <2>2. \A i \in Handlers, t \in Scopes : lease[t] = i /\ NeedsKey(i)' => lease'[t] = i
    BY <2>1, DroppedKeysAreNotNeeded
  <2> QED
    BY <2>1, <2>2, KeysAreKept DEF DropKey
<1>5. CASE ButtonCloses \/ UNCHANGED turnsVars
  BY <1>5, KeysAreKept DEF ButtonCloses, turnsVars
<1> QED
  BY <1>1, <1>2, <1>3, <1>4, <1>5 DEF TurnsNext

\* Of two turns of one session that run at the same time, one has lost its key: by
\* a close, by somebody who cleared it as stale, or before its run was in the
\* database (acquireSlackAgentLease and createAgentRun).  This is so for any number
\* of messages and handlers.
THEOREM TurnsAreExclusive == TurnsSpec => []TurnsExcludeEachOther
<1>1. KeysInv => TurnsExcludeEachOther
  BY DEF KeysInv, NeedsKey, TurnsExcludeEachOther
<1> QED
  BY <1>1, TurnsInvInit, TurnsInvNext, KeysInvInit, KeysInvNext, PTL DEF TurnsSpec

-----------------------------------------------------------------------------
(* A message takes effect once.                                            *)

\* Who made the item of a message and has not started its worker yet.
Starter(h, m) ==
  turn[h].pc \in {"link", "start"} /\ turn[h].made /\ turn[h].msg = m

\* A message without an item has no worker and nobody to start one; one with an
\* item has a worker, or one handler to start it, and never both.
EffectInv ==
  \A m \in Messages :
    /\ m \notin items => starts[m] = 0 /\ \A h \in Handlers : ~Starter(h, m)
    /\ starts[m] <= 1
    /\ \A h \in Handlers : Starter(h, m) => starts[m] = 0
    /\ \A g, h \in Handlers : Starter(g, m) /\ Starter(h, m) => g = h

\* The initial state.
LEMMA EffectInvInit == TurnsInit => EffectInv
BY DEF TurnsInit, EffectInv, Starter, Bare

\* It stays when no item, no worker and no starter comes.
LEMMA EffectsAreKept ==
  ASSUME EffectInv, UNCHANGED <<items, starts>>,
         \A h \in Handlers, m \in Messages : Starter(h, m)' => Starter(h, m)
  PROVE  EffectInv'
BY DEF EffectInv

\* A handler comes to start a worker by Create only.
LEMMA StartersCreate ==
  ASSUME TurnsInv, NEW h \in Handlers, StepIsSound(h), ~At(h, "create")
  PROVE  \A i \in Handlers, m \in Messages : Starter(i, m)' => Starter(i, m)
<1> SUFFICES ASSUME NEW i \in Handlers, NEW m \in Messages, Starter(i, m)' PROVE Starter(i, m)
  OBVIOUS
<1>1. CASE i # h
  BY <1>1, SoundStepMoves DEF Starter
<1>2. CASE i = h
  BY <1>2, SoundStepMoves DEF Starter, Follows, At
<1> QED
  BY <1>1, <1>2

\* Every step keeps the effects of messages single.
LEMMA EffectInvNext == TurnsInv /\ EffectInv /\ [TurnsNext]_turnsVars => EffectInv'
<1> SUFFICES ASSUME TurnsInv, EffectInv, [TurnsNext]_turnsVars PROVE EffectInv'
  OBVIOUS
<1>1. ASSUME NEW h \in Handlers, HandlerStep(h), StepIsSound(h) PROVE EffectInv'
  <2> DEFINE m == Message(h)
  <2>1. ASSUME UNCHANGED <<items, starts>>, ~At(h, "create") PROVE EffectInv'
    BY <1>1, <2>1, StartersCreate, EffectsAreKept
  <2>2. CASE Create(h)
    <3>1. m \in Messages
      BY <2>2 DEF Create, At, TurnsInv, TurnsMakeSense, Sensible, Message
    <3>2. /\ items' = items \cup {m} /\ starts' = starts
          /\ GoesHaving(h, "link", m \notin items)
      BY <2>2 DEF Create, GoesHaving
    <3>3. /\ turn'[h].msg = m
          /\ turn'[h].made = (m \notin items)
          /\ \A i \in Handlers \ {h} : turn'[i] = turn[i]
      <4> DEFINE d == m \notin items
      <4>1. GoesHaving(h, "link", d) /\ d \in BOOLEAN /\ "link" \in Places
        BY <3>2 DEF Places
      <4> HIDE DEF d
      <4>2. PICK r \in TurnRecords :
              /\ Becomes(h, r)
              /\ r.pc = "link" /\ r.msg = turn[h].msg
              /\ r.at = turn[h].at /\ r.seen = turn[h].seen /\ r.caught = turn[h].caught
              /\ r.made = d
        BY <4>1, NotesItem DEF TurnsInv
      <4> QED
        BY <4>2 DEF Becomes, TurnsInv, TurnsTypeOK, Message, d
    <3>4. \A i \in Handlers \ {h}, k \in Messages : Starter(i, k)' <=> Starter(i, k)
      BY <3>3 DEF Starter
    <3>5. \A k \in Messages : Starter(h, k)' => k = m /\ m \notin items
      BY <3>3 DEF Starter
    <3> QED
      BY <3>1, <3>2, <3>4, <3>5 DEF EffectInv
  <2>3. CASE StartWorker(h)
    <3>1. m \in Messages /\ At(h, "start")
      BY <2>3 DEF StartWorker, At, TurnsInv, TurnsMakeSense, Sensible, Message
    <3>2. turn'[h].pc = "complete" /\ items' = items
      BY <2>3 DEF StartWorker, Goto, TurnsInv, TurnsTypeOK, TurnRecords
    <3>3. /\ \A k \in Messages : ~Starter(h, k)'
          /\ \A i \in Handlers \ {h}, k \in Messages : Starter(i, k)' <=> Starter(i, k)
      BY <1>1, <3>2, SoundStepMoves DEF Starter
    <3>4. CASE turn[h].made
      <4>1. Starter(h, m)
        BY <3>1, <3>4 DEF Starter, At, Message
      <4>2. starts' = [starts EXCEPT ![m] = @ + 1]
        BY <2>3, <3>4 DEF StartWorker
      <4>3. /\ starts[m] = 0 /\ m \in items
            /\ \A i \in Handlers : Starter(i, m) => i = h
        BY <3>1, <4>1 DEF EffectInv
      <4>4. starts'[m] = 1 /\ \A k \in Messages \ {m} : starts'[k] = starts[k]
        BY <3>1, <4>2, <4>3 DEF TurnsInv, TurnsTypeOK
      <4> QED
        BY <3>2, <3>3, <4>3, <4>4 DEF EffectInv
    <3>5. CASE ~turn[h].made
      <4>1. starts' = [starts EXCEPT ![m] = @ + 0]
        BY <2>3, <3>5 DEF StartWorker
      <4>2. \A k \in Messages : starts'[k] = starts[k]
        BY <3>1, <4>1 DEF TurnsInv, TurnsTypeOK
      <4> QED
        BY <3>2, <3>3, <4>2 DEF EffectInv
    <3> QED
      BY <3>4, <3>5
  <2>4. CASE \/ \E n \in Messages : Receive(h, n)
             \/ \E named \in BOOLEAN : Choose(h, named)
             \/ Begin(h) \/ Dismiss(h) \/ Open(h) \/ Check(h) \/ Take(h) \/ Get(h) \/ Clear(h)
             \/ Insert(h) \/ InsertFails(h)
    BY <2>1, <2>4 DEF Receive, Choose, Begin, Dismiss, Open, Check, Take, Get, Clear, Insert,
                      InsertFails, At
  <2>5. CASE \/ \E caught \in BOOLEAN : Answer(h, caught) \/ CloseRuns(h, caught)
             \/ Decide(h) \/ Link(h) \/ Complete(h) \/ WriteCompleted(h) \/ ClearKey(h)
             \/ Close(h)
    BY <2>1, <2>5 DEF Answer, CloseRuns, Decide, Link, Complete, WriteCompleted, ClearKey, Close, At
  <2>6. CASE \/ Respond(h) \/ FailDelivery(h) \/ FailOwnRun(h) \/ Failed(h) \/ Settle(h)
             \/ React(h)
    BY <2>1, <2>6 DEF Respond, FailDelivery, FailOwnRun, Failed, Settle, React, At
  <2>7. CASE Throw(h) \/ Crash(h) \/ Lapse(h)
    <3>1. UNCHANGED <<items, starts>>
      BY <2>7 DEF Throw, Crash, Lapse
    <3>2. turn'[h].pc \notin {"link", "start"} \/ turn' = turn
      BY <2>7 DEF Throw, Crash, Lapse, Leave, End, Bare, TurnsInv, TurnsTypeOK
    <3>3. \A i \in Handlers, k \in Messages : Starter(i, k)' => Starter(i, k)
      BY <1>1, <3>2, SoundStepMoves DEF Starter
    <3> QED
      BY <3>1, <3>3, EffectsAreKept
  <2> QED
    BY <1>1, <2>2, <2>3, <2>4, <2>5, <2>6, <2>7 DEF HandlerStep
<1>2. ASSUME UNCHANGED <<items, starts, turn>> PROVE EffectInv'
  BY <1>2, EffectsAreKept DEF Starter
<1>3. ASSUME NEW h \in Handlers, HandlerStep(h) PROVE EffectInv'
  <2>1. CASE Lapse(h)
    BY <1>2, <2>1 DEF Lapse
  <2> QED
    BY <1>1, <1>3, <2>1, HandlersAreSound
<1>4. CASE \/ \E s \in Scopes : KeyExpires(s)
           \/ PressClose \/ ButtonClearsKey \/ ButtonCloses \/ UNCHANGED turnsVars
  BY <1>2, <1>4 DEF KeyExpires, PressClose, ButtonClearsKey, ButtonCloses, turnsVars
<1> QED
  BY <1>3, <1>4 DEF TurnsNext

\* A message of Slack makes one item at most and starts one worker at most, however
\* often it is delivered and whatever fails (createPlatformDevItem's idempotency
\* key, and the start of the worker by whoever made the item).
THEOREM MessagesTakeEffectOnce == TurnsSpec => []MessageTakesEffectOnce
<1>1. EffectInv => MessageTakesEffectOnce
  BY DEF EffectInv, MessageTakesEffectOnce
<1> QED
  BY <1>1, TurnsInvInit, TurnsInvNext, EffectInvInit, EffectInvNext, PTL DEF TurnsSpec
=============================================================================
