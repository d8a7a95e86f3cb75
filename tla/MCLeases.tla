------------------------------ MODULE MCLeases ------------------------------
(* TLC instance of the two leases of the system: SiteCommitLock, the row   *)
(* that a commit to a site is made under, and AgentTurns, the key that an  *)
(* agent's turn is taken under.  They are checked in one run, each for     *)
(* itself: "part" says which one moves.  The sessions of the commit lock   *)
(* are interchangeable.                                                    *)
EXTENDS SiteCommitLock, AgentTurns, TLC

VARIABLE part

Symmetry == Permutations(Sessions)

InLock(A) == part = "lock" /\ A /\ UNCHANGED <<part, turnsVars>>
\* A third handler of a message makes a difference while nothing goes wrong and
\* nothing is closed; with these, two of them do.
InTurns(A) ==
  /\ part = "turns" /\ A /\ UNCHANGED <<part, vars>>
  /\ \/ troubles' = 0 /\ button' = "idle" /\ opened'[Thread] # "closed"
     \/ \E h \in Handlers : turn'[h].pc = "idle"

MCInit ==
  /\ Init /\ TurnsInit
  /\ part \in {"lock", "turns"}
  \* The clocks matter to the commit lock only.
  /\ part = "turns" => skew = [s \in Sessions |-> 0]

LockNext ==
  \/ InLock(Tick)
  \/ \E s \in Sessions :
       \/ InLock(BeginAcquire(s)) \/ InLock(TakeRow(s)) \/ InLock(Refused(s)) \/ InLock(ReadBack(s))
       \/ InLock(StartRenewal(s)) \/ InLock(RenewRow(s)) \/ InLock(ConfirmRenewal(s))
       \/ InLock(RenewalFails(s)) \/ InLock(TimeoutFires(s))
       \/ InLock(StartCommit(s)) \/ InLock(CommitBatch(s)) \/ InLock(EndCallback(s))
       \/ InLock(StartRelease(s)) \/ InLock(ReleaseRow(s)) \/ InLock(Abandon(s))

\* The handlers are interchangeable: one of those that are left is next.
NextHandler == CHOOSE h \in Handlers : At(h, "idle")

ChatNext ==
  \/ \E h \in Handlers :
       \/ \E m \in Messages : At(h, "idle") /\ h = NextHandler /\ InTurns(Receive(h, m))
       \/ \E named \in BOOLEAN : InTurns(Choose(h, named))
       \/ InTurns(Begin(h)) \/ InTurns(Dismiss(h)) \/ InTurns(Open(h))
       \/ InTurns(Check(h)) \/ InTurns(Take(h))
       \/ InTurns(Get(h)) \/ InTurns(Clear(h))
       \/ InTurns(Insert(h)) \/ InTurns(InsertFails(h))
       \/ \E caught \in BOOLEAN :
            InTurns(Answer(h, caught)) \/ InTurns(CloseRuns(h, caught))
       \/ InTurns(Decide(h)) \/ InTurns(Create(h)) \/ InTurns(Link(h))
       \/ InTurns(StartWorker(h))
       \/ InTurns(Complete(h)) \/ InTurns(WriteCompleted(h))
       \/ InTurns(Respond(h)) \/ InTurns(ClearKey(h)) \/ InTurns(Close(h))
       \/ InTurns(Throw(h)) \/ InTurns(FailDelivery(h))
       \/ InTurns(FailOwnRun(h)) \/ InTurns(Failed(h))
       \/ InTurns(Settle(h)) \/ InTurns(React(h))
       \/ InTurns(Crash(h)) \/ InTurns(Lapse(h))
  \/ \E s \in Scopes : InTurns(KeyExpires(s))
  \/ InTurns(PressClose) \/ InTurns(ButtonClearsKey) \/ InTurns(ButtonCloses)

MCNext == LockNext \/ ChatNext

MCSpec == MCInit /\ [][MCNext]_<<part, vars, turnsVars>>
=============================================================================
