--------------------------- MODULE SiteCommitLock ---------------------------
(***************************************************************************)
(* The commit lock of one site: a row of site_policy_locks with an expiry  *)
(* and a fencing token, taken, renewed and released by withSiteCommitLock  *)
(* (apps/pages-api/src/infrastructure/store/transactions/site-policy.js).  *)
(*                                                                         *)
(* Every statement carries a time that its Worker read from its own clock  *)
(* before it was sent; D1 compares that time with the row, whenever it     *)
(* runs the statement.  Clocks may disagree, statements may be delayed,    *)
(* and a Worker may stop at any point.                                     *)
(***************************************************************************)
EXTENDS Integers

CONSTANTS
  Sessions,      \* calls of withSiteCommitLock
  Lease,         \* SITE_COMMIT_LOCK_LEASE_MS
  RenewEvery,    \* SITE_COMMIT_LOCK_RENEW_MS
  Timeout,       \* SITE_COMMIT_TIMEOUT_MS: the callback's signal aborts
  MaxSkew,       \* how far the clocks of two Workers can be apart
  MaxDelay,      \* longest time from reading the clock to holding the lock
  MaxTime,       \* bound: the time at which the model stops
  None

ASSUME SiteCommitLockAssumption ==
  /\ Lease \in Nat \ {0} /\ RenewEvery \in Nat \ {0} /\ Timeout \in Nat \ {0}
  /\ MaxSkew \in Nat /\ MaxDelay \in Nat /\ MaxTime \in Nat

\* A row; its lock_id is the session, which draws a random one.
Locks == [holder : Sessions, token : Nat, expires : Int]

\* A renewal under way, or the one that failed and ended the chain.
Renewals == [step : {"update", "read", "failed"}, stamp : Int]

ASSUME LockNoneAssumption == None \notin Sessions \cup Locks \cup Renewals

VARIABLES
  now,           \* true time
  skew,          \* how far each session's clock is ahead of it
  lock,          \* D1: the site's row of site_policy_locks, None before the first
  pc,            \* where each session is
  stamp,         \* the time its statement in flight carries
  token,         \* the fencing token it was given
  started,       \* when its callback started
  due,           \* when its next renewal is due
  renewal,       \* its renewal, which runs beside the callback
  aborted,       \* has the callback's AbortSignal fired?
  committer      \* history: the session of the newest guarded commit

clock == <<now, skew>>
local == <<pc, stamp, token, started, due, aborted>>
vars == <<now, skew, lock, pc, stamp, token, started, due, renewal, aborted, committer>>

InCallback == {"working", "commit"}
Steps == {"idle", "acquire", "confirm", "finishing", "release", "done"} \cup InCallback

\* this.now()
Clock(s) == now + skew[s]

\* siteCommitLockExpiry
Expiry(time) == time + Lease

\* The row still belongs to the session, by lock id and fencing token.
Owns(s) == lock # None /\ lock.holder = s /\ lock.token = token[s]

\* The call is over, and what it kept with it.
Return(s) ==
  /\ pc' = [pc EXCEPT ![s] = "done"]
  /\ stamp' = [stamp EXCEPT ![s] = 0]
  /\ token' = [token EXCEPT ![s] = 0]
  /\ started' = [started EXCEPT ![s] = 0]
  /\ due' = [due EXCEPT ![s] = 0]
  /\ renewal' = [renewal EXCEPT ![s] = None]
  /\ aborted' = [aborted EXCEPT ![s] = FALSE]

\* No lock this time: the caller polls again, or gives up.
NotAcquired(s) ==
  /\ \/ /\ pc' = [pc EXCEPT ![s] = "idle"]
        /\ stamp' = [stamp EXCEPT ![s] = 0]
        /\ UNCHANGED <<token, started, due, renewal, aborted>>
     \/ Return(s)
  /\ UNCHANGED <<clock, lock, committer>>

----------------------------------------------------------------------------
(* acquireSiteCommitLock                                                   *)

BeginAcquire(s) ==
  /\ pc[s] = "idle"
  /\ pc' = [pc EXCEPT ![s] = "acquire"]
  /\ stamp' = [stamp EXCEPT ![s] = Clock(s)]
  /\ UNCHANGED <<clock, lock, token, started, due, renewal, aborted, committer>>

\* Slip: the upsert has no WHERE.
FreeForAnyone(time) == TRUE

\* INSERT ... ON CONFLICT DO UPDATE ... WHERE expires_at <= acquired_at
Free(time) == lock # None => lock.expires <= time

TakeRow(s) ==
  /\ pc[s] = "acquire"
  /\ Free(stamp[s])
  /\ lock' = [holder |-> s,
              token |-> IF lock = None THEN 1 ELSE lock.token + 1,
              expires |-> Expiry(stamp[s])]
  /\ pc' = [pc EXCEPT ![s] = "confirm"]
  /\ UNCHANGED <<clock, stamp, token, started, due, renewal, aborted, committer>>

Refused(s) ==
  /\ pc[s] = "acquire"
  /\ ~Free(stamp[s])
  /\ NotAcquired(s)

\* The row is the session's: the callback starts with its timers.
Granted(s) ==
  /\ pc[s] = "confirm"
  /\ lock.holder = s
  /\ pc' = [pc EXCEPT ![s] = "working"]
  /\ token' = [token EXCEPT ![s] = lock.token]
  /\ started' = [started EXCEPT ![s] = now]
  /\ due' = [due EXCEPT ![s] = now + RenewEvery]
  /\ stamp' = [stamp EXCEPT ![s] = 0]
  /\ UNCHANGED <<clock, lock, renewal, aborted, committer>>

\* It already belongs to somebody else.
TakenOver(s) ==
  /\ pc[s] = "confirm"
  /\ lock.holder # s
  /\ NotAcquired(s)

\* getSiteCommitLock, after the upsert.
ReadBack(s) == lock # None /\ (Granted(s) \/ TakenOver(s))

----------------------------------------------------------------------------
(* The renewal chain and the timeout, beside the callback.                 *)

RenewalDue(s) == pc[s] \in InCallback /\ renewal[s] = None /\ now >= due[s]

StartRenewal(s) ==
  /\ RenewalDue(s)
  /\ renewal' = [renewal EXCEPT ![s] = [step |-> "update", stamp |-> Clock(s)]]
  /\ due' = [due EXCEPT ![s] = @ + RenewEvery]
  /\ UNCHANGED <<clock, lock, pc, stamp, token, started, aborted, committer>>

Renewing(s, step) == renewal[s] # None /\ renewal[s].step = step

\* renewSiteCommitLock: the row is extended while it has not run out.
CanRenew(s) == Owns(s) /\ lock.expires > renewal[s].stamp

RenewRow(s) ==
  /\ Renewing(s, "update")
  /\ CanRenew(s)
  /\ lock' = [lock EXCEPT !.expires = Expiry(renewal[s].stamp)]
  /\ renewal' = [renewal EXCEPT ![s].step = "read"]
  /\ UNCHANGED <<clock, local, committer>>

ConfirmRenewal(s) ==
  /\ Renewing(s, "read")
  /\ lock.holder = s
  /\ renewal' = [renewal EXCEPT ![s] = None]
  /\ UNCHANGED <<clock, lock, local, committer>>

\* No row was extended, the row read back is another's, or D1 failed: the
\* chain rejects for good and the signal aborts.
RenewalFails(s) ==
  /\ Renewing(s, "update") \/ Renewing(s, "read")
  /\ renewal' = [renewal EXCEPT ![s].step = "failed"]
  /\ aborted' = [aborted EXCEPT ![s] = TRUE]
  /\ UNCHANGED <<clock, lock, pc, stamp, token, started, due, committer>>

TimeoutDue(s) == pc[s] \in InCallback /\ ~aborted[s] /\ now >= started[s] + Timeout

TimeoutFires(s) ==
  /\ TimeoutDue(s)
  /\ aborted' = [aborted EXCEPT ![s] = TRUE]
  /\ UNCHANGED <<clock, lock, pc, stamp, token, started, due, renewal, committer>>

----------------------------------------------------------------------------
(* The callback: D1 batches guarded by the row.  The batch itself does not *)
(* look at the signal.                                                     *)

StartCommit(s) ==
  /\ pc[s] = "working"
  /\ pc' = [pc EXCEPT ![s] = "commit"]
  /\ stamp' = [stamp EXCEPT ![s] = Clock(s)]
  /\ UNCHANGED <<clock, lock, token, started, due, renewal, aborted, committer>>

\* Slip: the batch's guard looks at the expiry only.
CommitUnderAnyLease(s) == lock # None /\ lock.expires > stamp[s]

\* EXISTS (SELECT 1 FROM site_policy_locks WHERE lock_id = ? AND
\* fencing_token = ? AND expires_at > ?)
CanCommit(s) == Owns(s) /\ lock.expires > stamp[s]

CommitBatch(s) ==
  /\ pc[s] = "commit"
  /\ committer' = IF CanCommit(s) THEN s ELSE committer
  /\ pc' = [pc EXCEPT ![s] = "working"]
  /\ stamp' = [stamp EXCEPT ![s] = 0]
  /\ UNCHANGED <<clock, lock, token, started, due, renewal, aborted>>

EndCallback(s) ==
  /\ pc[s] = "working"
  /\ pc' = [pc EXCEPT ![s] = "finishing"]
  /\ UNCHANGED <<clock, lock, stamp, token, started, due, renewal, aborted, committer>>

----------------------------------------------------------------------------
(* releaseSiteCommitLock, once the renewal chain has settled.              *)

StartRelease(s) ==
  /\ pc[s] = "finishing"
  /\ renewal[s] = None \/ Renewing(s, "failed")
  /\ pc' = [pc EXCEPT ![s] = "release"]
  /\ stamp' = [stamp EXCEPT ![s] = Clock(s)]
  /\ UNCHANGED <<clock, lock, token, started, due, renewal, aborted, committer>>

CanRelease(s) == lock.holder = s /\ lock.expires > stamp[s]

ReleaseRow(s) ==
  /\ pc[s] = "release"
  /\ lock' = IF CanRelease(s) THEN [lock EXCEPT !.expires = stamp[s]] ELSE lock
  /\ Return(s)
  /\ UNCHANGED <<clock, committer>>

\* The Worker stops, or a D1 call outside the callback throws.
Abandon(s) ==
  /\ pc[s] \notin {"idle", "done"}
  /\ Return(s)
  /\ UNCHANGED <<clock, lock, committer>>

----------------------------------------------------------------------------
\* Time passes, but not past the end of a bounded delay, and not past a timer
\* that has not fired yet: the timers of a running Worker are punctual.
Urgent(s) ==
  \/ pc[s] \in {"acquire", "confirm"} /\ now >= stamp[s] - skew[s] + MaxDelay
  \/ RenewalDue(s)
  \/ TimeoutDue(s)

Tick ==
  /\ now < MaxTime
  /\ \A s \in Sessions : ~Urgent(s)
  /\ now' = now + 1
  /\ UNCHANGED <<skew, lock, local, renewal, committer>>

Init ==
  /\ now = 0
  /\ skew \in [Sessions -> 0..MaxSkew]
  /\ lock = None
  /\ pc = [s \in Sessions |-> "idle"]
  /\ stamp = [s \in Sessions |-> 0]
  /\ token = [s \in Sessions |-> 0]
  /\ started = [s \in Sessions |-> 0]
  /\ due = [s \in Sessions |-> 0]
  /\ renewal = [s \in Sessions |-> None]
  /\ aborted = [s \in Sessions |-> FALSE]
  /\ committer = None

Acquire(s) == BeginAcquire(s) \/ TakeRow(s) \/ Refused(s) \/ ReadBack(s)
Renew(s) == StartRenewal(s) \/ RenewRow(s) \/ ConfirmRenewal(s) \/ RenewalFails(s)
Work(s) == TimeoutFires(s) \/ StartCommit(s) \/ CommitBatch(s) \/ EndCallback(s)
Release(s) == StartRelease(s) \/ ReleaseRow(s)

Next == Tick \/ \E s \in Sessions : Acquire(s) \/ Renew(s) \/ Work(s) \/ Release(s) \/ Abandon(s)

Spec == Init /\ [][Next]_vars

----------------------------------------------------------------------------
(* Properties                                                              *)

TypeOK ==
  /\ now \in Nat
  /\ skew \in [Sessions -> 0..MaxSkew]
  /\ lock \in Locks \cup {None}
  /\ pc \in [Sessions -> Steps]
  /\ stamp \in [Sessions -> Int]
  /\ token \in [Sessions -> Nat]
  /\ started \in [Sessions -> Nat]
  /\ due \in [Sessions -> Nat]
  /\ renewal \in [Sessions -> Renewals \cup {None}]
  /\ aborted \in [Sessions -> BOOLEAN]
  /\ committer \in Sessions \cup {None}

\* The part of the lease that the timeout leaves for a slow acquisition and
\* for clocks that disagree.  In the code: 60 s against 45 s.
LeaseMargin == MaxDelay + Timeout + MaxSkew < Lease

\* A callback whose signal has not aborted holds the lock, so at most one
\* callback of a site is healthy at a time.  This is what assertHealthy
\* relies on before it lets a callback touch KV, which no row guards.
HealthyHoldsLock ==
  \A s \in Sessions : pc[s] \in InCallback /\ ~aborted[s] => Owns(s)

\* No matter how long statements are delayed and how far clocks are apart,
\* the guarded batches are serial: a session overtaken by another commits
\* nothing more.
Turns == INSTANCE SerialCommits WITH turn <- IF lock = None THEN None ELSE lock.holder

CommitsAreSerial == Turns!Spec

\* What the callbacks rely on: as long as the signal of one has not aborted,
\* no other session takes the lock or starts its callback.  Deployment.tla is
\* modelled with this promise and with CommitsAreSerial.
Callbacks == INSTANCE CommitLease WITH
  holder <- IF lock = None THEN None ELSE lock.holder,
  healthy <- {s \in Sessions : pc[s] \in InCallback /\ ~aborted[s]}

LockIsALease == Callbacks!LeaseSpec
=============================================================================
