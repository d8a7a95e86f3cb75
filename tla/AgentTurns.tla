----------------------------- MODULE AgentTurns -----------------------------
(***************************************************************************)
(* The conversation of one Slack user with the platform's agent: what the  *)
(* gateway does with a message (slack-event-handlers.js), from the record  *)
(* of its delivery over the session, the lease of the session and the run  *)
(* of the agent to the platform item and the start of its worker.          *)
(*                                                                         *)
(* A handler is one request of the gateway.  Slack sends a message again   *)
(* when it likes, so that several handlers may have one message, at once   *)
(* or one after the other.  The run of a handler's turn has the handler's  *)
(* name.  The lease is a Redis key, runs and sessions are MySQL rows.      *)
(* The clocks of the gateways agree.                                       *)
(***************************************************************************)
EXTENDS Naturals, FiniteSets

CONSTANTS
  Messages,
  Handlers,
  Thread,      \* the session of the conversation's thread
  NoOne,
  MaxTroubles  \* bound on errors, crashes and times that run out

ASSUME TurnsAssumption == NoOne \notin Handlers

\* A message that finds the thread's session closed has a session of its own.
Scopes == Messages \cup {Thread}

VARIABLES
  delivery,    \* per message: slack_events, "open" while received or processing
  opened,      \* per scope: slack_sessions, "none", "active" or "closed"
  lease,       \* per scope: the run that holds the key, NoOne when it is free
  run,         \* per handler: agent_runs, "none", "running", "completed", "failed"
  lapsed,      \* the runs whose leaseExpiresAt is over
  turn,        \* per handler: where it is and what it has read
  button,      \* where the "close the session" button of the thread is
  items,       \* the messages with a platform item
  starts,      \* per message: how often a worker was started for it
  overtaken,   \* the runs whose key somebody else took away
  troubles     \* how often something went wrong or ran out

turnsVars == <<delivery, opened, lease, run, lapsed, turn, button, items, starts, overtaken,
               troubles>>

\* seen: the run, or the delivery, that the handler has read; caught: an error
\* reaches the catch of processSlackEventBody; made: the item was inserted here.
Places ==
  {"idle", "begin", "choose", "open", "check", "take", "get", "clear", "insert", "work",
   "create", "link", "start", "drop", "close", "complete", "write", "respond",
   "fail", "failrun", "failed", "settle", "react", "done"}
Statuses == {"none", "open", "processed", "failed"}
TurnRecords ==
  [pc : Places, msg : Messages \cup {NoOne}, at : Scopes \cup {NoOne},
   seen : Handlers \cup Statuses \cup {NoOne}, caught : BOOLEAN, made : BOOLEAN]
\* A handler that remembers nothing but its message and its session.
Bare(p, m, s) == [pc |-> p, msg |-> m, at |-> s, seen |-> NoOne, caught |-> FALSE, made |-> FALSE]

TurnsInit ==
  /\ delivery = [m \in Messages |-> "none"]
  /\ opened = [s \in Scopes |-> "none"]
  /\ lease = [s \in Scopes |-> NoOne]
  /\ run = [h \in Handlers |-> "none"]
  /\ lapsed = {}
  /\ turn = [h \in Handlers |-> Bare("idle", NoOne, NoOne)]
  /\ button = "idle"
  /\ items = {}
  /\ starts = [m \in Messages |-> 0]
  /\ overtaken = {}
  /\ troubles = 0

At(h, p) == turn[h].pc = p
Scope(h) == turn[h].at
Message(h) == turn[h].msg
Goto(h, p) == turn' = [turn EXCEPT ![h].pc = p]
\* The message is answered, or is to be: what was read matters no more.
Leave(h, p) == turn' = [turn EXCEPT ![h] = Bare(p, Message(h), Scope(h))]
\* Where the run was is all that is left of a handler.
End(h) == turn' = [turn EXCEPT ![h] = Bare("done", NoOne, Scope(h))]
Trouble == troubles < MaxTroubles /\ troubles' = troubles + 1
RunsOf(s) == {h \in Handlers : run[h] = "running" /\ Scope(h) = s}
Live(h) == run[h] = "running" /\ h \notin lapsed

\* failAgentRun, for some runs of one scope: only what is running fails, and
\* the key goes when it holds the run.
FailRuns(runs, s) ==
  /\ run' = [h \in Handlers |-> IF h \in runs /\ run[h] = "running" THEN "failed" ELSE run[h]]
  /\ lease' = [lease EXCEPT ![s] = IF @ \in runs /\ run[@] = "running" THEN NoOne ELSE @]

-----------------------------------------------------------------------------
(* The delivery and the session.                                           *)

\* recordSlackDelivery and shouldRetryRecordedSlackDelivery: what is not
\* processed is handled again, also while another handler is at it.
Receive(h, m) ==
  /\ At(h, "idle")
  /\ IF delivery[m] = "processed"
       THEN End(h) /\ UNCHANGED delivery
       ELSE /\ turn' = [turn EXCEPT ![h] = Bare("begin", m, NoOne)]
            /\ delivery' = [delivery EXCEPT ![m] = IF @ = "none" THEN "open" ELSE @]
  /\ UNCHANGED <<opened, lease, run, lapsed, button, items, starts, overtaken, troubles>>

Begin(h) ==
  /\ At(h, "begin")
  /\ delivery' = [delivery EXCEPT ![Message(h)] = "open"]
  /\ Goto(h, "choose")
  /\ UNCHANGED <<opened, lease, run, lapsed, button, items, starts, overtaken, troubles>>

\* selectSlackSession: the message names a session, or the thread's is taken
\* unless it is closed.
Choose(h, named) ==
  /\ At(h, "choose")
  /\ named => opened[Thread] # "none"
  /\ turn' = [turn EXCEPT ![h].pc = "open",
       ![h].at = IF named \/ opened[Thread] # "closed" THEN Thread ELSE Message(h)]
  /\ UNCHANGED <<delivery, opened, lease, run, lapsed, button, items, starts, overtaken, troubles>>

\* The message is nobody's to answer, or could be about several sessions.
Dismiss(h) ==
  /\ At(h, "choose")
  /\ Leave(h, "respond")
  /\ UNCHANGED <<delivery, opened, lease, run, lapsed, button, items, starts, overtaken, troubles>>

\* upsertSlackSession writes the row, active, whatever it was by now.
Open(h) ==
  /\ At(h, "open")
  /\ opened' = [opened EXCEPT ![Scope(h)] = "active"]
  /\ Goto(h, "check")
  /\ UNCHANGED <<delivery, lease, run, lapsed, button, items, starts, overtaken, troubles>>

-----------------------------------------------------------------------------
(* acquireSlackAgentLease.                                                 *)

\* runningSlackAgentRun: the runs whose time is over fail, up to the first
\* that has time left, which keeps the others out.
LookAtRuns(s) ==
  \E gone \in SUBSET (RunsOf(s) \cap lapsed) :
    /\ RunsOf(s) \subseteq lapsed => gone = RunsOf(s)
    /\ FailRuns(gone, s)

Check(h) ==
  /\ At(h, "check")
  /\ LookAtRuns(Scope(h))
  /\ IF RunsOf(Scope(h)) \subseteq lapsed THEN Leave(h, "take") ELSE Leave(h, "respond")
  /\ UNCHANGED <<delivery, opened, lapsed, button, items, starts, overtaken, troubles>>

\* A slip the properties are tried against: the key is set whoever has it.
TakeAnyway(h) ==
  /\ At(h, "take")
  /\ lease' = [lease EXCEPT ![Scope(h)] = h]
  /\ Goto(h, "insert")
  /\ UNCHANGED <<delivery, opened, run, lapsed, button, items, starts, overtaken, troubles>>

\* SET key NX PX
Take(h) ==
  /\ At(h, "take")
  /\ IF lease[Scope(h)] = NoOne
       THEN lease' = [lease EXCEPT ![Scope(h)] = h] /\ Goto(h, "insert")
       ELSE Goto(h, "get") /\ UNCHANGED lease
  /\ UNCHANGED <<delivery, opened, run, lapsed, button, items, starts, overtaken, troubles>>

\* The key is read, and the row of the run it names: without a row, or with
\* one that is not running, the key is to be cleared.  A key that is gone by
\* now makes it look at the runs once more, and the answer is "busy" anyway.
Get(h) ==
  /\ At(h, "get")
  /\ LET s == Scope(h) IN
     IF lease[s] = NoOne
       THEN LookAtRuns(s) /\ Leave(h, "respond")
       ELSE /\ IF run[lease[s]] = "running"
                 THEN Leave(h, "respond")
                 ELSE turn' = [turn EXCEPT ![h].pc = "clear", ![h].seen = lease[s]]
            /\ UNCHANGED <<run, lease>>
  /\ UNCHANGED <<delivery, opened, lapsed, button, items, starts, overtaken, troubles>>

\* deleteRedisKeyIfValueMatches; once cleared, everything begins again.
Clear(h) ==
  /\ At(h, "clear")
  /\ LET s == Scope(h) IN
     IF lease[s] = turn[h].seen
       THEN /\ lease' = [lease EXCEPT ![s] = NoOne]
            /\ overtaken' = overtaken \cup {i \in {lease[s]} : run[i] \in {"none", "running"}}
            /\ Goto(h, "check")
       ELSE Leave(h, "respond") /\ UNCHANGED <<lease, overtaken>>
  /\ UNCHANGED <<delivery, opened, run, lapsed, button, items, starts, troubles>>

\* createAgentRun
Insert(h) ==
  /\ At(h, "insert")
  /\ run' = [run EXCEPT ![h] = "running"]
  /\ Goto(h, "work")
  /\ UNCHANGED <<delivery, opened, lease, lapsed, button, items, starts, overtaken, troubles>>

\* The row cannot be written: the key is given back.
InsertFails(h) ==
  /\ At(h, "insert")
  /\ lease' = [lease EXCEPT ![Scope(h)] = IF @ = h THEN NoOne ELSE @]
  /\ Leave(h, "failed")
  /\ Trouble
  /\ UNCHANGED <<delivery, opened, run, lapsed, button, items, starts, overtaken>>

-----------------------------------------------------------------------------
(* Time.  leaseExpiresAt is reckoned from before the key is set, so that   *)
(* the key does not go before the row's time is over; a row that is not    *)
(* there yet may lose its key.                                             *)

Lapse(h) ==
  /\ Live(h)
  /\ lapsed' = lapsed \cup {h}
  /\ Trouble
  /\ UNCHANGED <<delivery, opened, lease, run, turn, button, items, starts, overtaken>>

KeyExpires(s) ==
  /\ lease[s] # NoOne
  /\ ~Live(lease[s])
  /\ lease' = [lease EXCEPT ![s] = NoOne]
  /\ overtaken' = overtaken \cup {h \in {lease[s]} : run[h] = "none"}
  /\ Trouble
  /\ UNCHANGED <<delivery, opened, run, lapsed, turn, button, items, starts>>

-----------------------------------------------------------------------------
(* The turn.                                                               *)

\* What the message asks for is done, or found out by the agent, without
\* anything being created: the tools, the answers and the questions back.
\* A turn that was stopped while the agent thought is answered with nothing.
Answer(h, caught) ==
  /\ At(h, "work")
  /\ IF run[h] = "running"
       THEN turn' = [turn EXCEPT ![h].pc = "complete", ![h].caught = caught]
       ELSE Leave(h, "respond")
  /\ UNCHANGED <<delivery, opened, lease, run, lapsed, button, items, starts, overtaken, troubles>>

\* The agent finds a platform requirement to be created.
Decide(h) ==
  /\ At(h, "work")
  /\ run[h] = "running"
  /\ turn' = [turn EXCEPT ![h].pc = "create", ![h].caught = TRUE]
  /\ UNCHANGED <<delivery, opened, lease, run, lapsed, button, items, starts, overtaken, troubles>>

\* A slip the properties are tried against: every handler takes the item for
\* its own.
CreateAlways(h) ==
  /\ At(h, "create")
  /\ items' = items \cup {Message(h)}
  /\ turn' = [turn EXCEPT ![h].pc = "link", ![h].made = TRUE]
  /\ UNCHANGED <<delivery, opened, lease, run, lapsed, button, starts, overtaken, troubles>>

\* createPlatformDevItem: the row of the message's idempotency key is inserted
\* unless it is there.
Create(h) ==
  /\ At(h, "create")
  /\ items' = items \cup {Message(h)}
  /\ turn' = [turn EXCEPT ![h].pc = "link", ![h].made = Message(h) \notin items]
  /\ UNCHANGED <<delivery, opened, lease, run, lapsed, button, starts, overtaken, troubles>>

\* linkPlatformDevItemToSlackSession: the handler's own copy of the session
\* is active, and is written as it is.
Link(h) ==
  /\ At(h, "link")
  /\ opened' = [opened EXCEPT ![Scope(h)] = "active"]
  /\ Goto(h, "start")
  /\ UNCHANGED <<delivery, lease, run, lapsed, button, items, starts, overtaken, troubles>>

\* queueSlackWorkerStart, by whoever made the item.
StartWorker(h) ==
  /\ At(h, "start")
  /\ starts' = [starts EXCEPT ![Message(h)] = @ + (IF turn[h].made THEN 1 ELSE 0)]
  /\ Goto(h, "complete")
  /\ UNCHANGED <<delivery, opened, lease, run, lapsed, button, items, overtaken, troubles>>

\* completeAgentRun: a run that is running is read, and then written and its
\* key given back, whatever it has become in between.
Complete(h) ==
  /\ At(h, "complete")
  /\ IF run[h] = "running" THEN Goto(h, "write") ELSE Leave(h, "respond")
  /\ UNCHANGED <<delivery, opened, lease, run, lapsed, button, items, starts, overtaken, troubles>>

WriteCompleted(h) ==
  /\ At(h, "write")
  /\ run' = [run EXCEPT ![h] = "completed"]
  /\ lease' = [lease EXCEPT ![Scope(h)] = IF @ = h THEN NoOne ELSE @]
  /\ Leave(h, "respond")
  /\ UNCHANGED <<delivery, opened, lapsed, button, items, starts, overtaken, troubles>>

Respond(h) ==
  /\ At(h, "respond")
  /\ delivery' = [delivery EXCEPT ![Message(h)] = "processed"]
  /\ Leave(h, "settle")
  /\ UNCHANGED <<opened, lease, run, lapsed, button, items, starts, overtaken, troubles>>

-----------------------------------------------------------------------------
(* The end of a session: failRunningSlackAgentRunsForClosedSession and     *)
(* closeSlackSession, by a message in its own turn or by the button.       *)

CloseRuns(h, caught) ==
  /\ At(h, "work")
  /\ FailRuns(RunsOf(Scope(h)) \ {h}, Scope(h))
  /\ turn' = [turn EXCEPT ![h].pc = "drop", ![h].caught = caught]
  /\ UNCHANGED <<delivery, opened, lapsed, button, items, starts, overtaken, troubles>>

\* The key goes whoever has it.
DropKey(s) ==
  /\ lease' = [lease EXCEPT ![s] = NoOne]
  /\ overtaken' = overtaken \cup {h \in {lease[s]} : h # NoOne /\ run[h] \in {"none", "running"}}

ClearKey(h) ==
  /\ At(h, "drop")
  /\ DropKey(Scope(h))
  /\ Goto(h, "close")
  /\ UNCHANGED <<delivery, opened, run, lapsed, button, items, starts, troubles>>

Close(h) ==
  /\ At(h, "close")
  /\ opened' = [opened EXCEPT ![Scope(h)] = "closed"]
  /\ Goto(h, "complete")
  /\ UNCHANGED <<delivery, lease, run, lapsed, button, items, starts, overtaken, troubles>>

PressClose ==
  /\ button = "idle" /\ button' = "drop"
  /\ opened[Thread] # "none"
  /\ FailRuns(RunsOf(Thread), Thread)
  /\ UNCHANGED <<delivery, opened, lapsed, turn, items, starts, overtaken, troubles>>

ButtonClearsKey ==
  /\ button = "drop" /\ button' = "close"
  /\ DropKey(Thread)
  /\ UNCHANGED <<delivery, opened, run, lapsed, turn, items, starts, troubles>>

ButtonCloses ==
  /\ button = "close" /\ button' = "done"
  /\ opened' = [opened EXCEPT ![Thread] = "closed"]
  /\ UNCHANGED <<delivery, lease, run, lapsed, turn, items, starts, overtaken, troubles>>

-----------------------------------------------------------------------------
(* Errors and crashes.                                                     *)

\* An error in the turn: of the agent, of Slack, of MySQL.  The catch of
\* processSlackEventBody has it only where the call is awaited in its try.
Throw(h) ==
  /\ turn[h].pc \in {"begin", "choose", "open", "check", "take", "get", "work", "create", "link",
                     "start", "drop", "close", "complete", "respond"}
  /\ Leave(h, IF At(h, "work") \/ turn[h].caught THEN "fail" ELSE "failed")
  /\ Trouble
  /\ UNCHANGED <<delivery, opened, lease, run, lapsed, button, items, starts, overtaken>>

FailDelivery(h) ==
  /\ At(h, "fail")
  /\ delivery' = [delivery EXCEPT ![Message(h)] = "failed"]
  /\ Goto(h, "failrun")
  /\ UNCHANGED <<opened, lease, run, lapsed, button, items, starts, overtaken, troubles>>

FailOwnRun(h) ==
  /\ At(h, "failrun")
  /\ FailRuns({h}, Scope(h))
  /\ Leave(h, "failed")
  /\ UNCHANGED <<delivery, opened, lapsed, button, items, starts, overtaken, troubles>>

\* The catch of handleSlackEvents has everything.
Failed(h) ==
  /\ At(h, "failed")
  /\ delivery' = [delivery EXCEPT ![Message(h)] = "failed"]
  /\ Leave(h, "settle")
  /\ UNCHANGED <<opened, lease, run, lapsed, button, items, starts, overtaken, troubles>>

\* updateSlackDeliveryReactionState reads the delivery, and writes it back
\* with the reaction.
Settle(h) ==
  /\ At(h, "settle")
  /\ turn' = [turn EXCEPT ![h].pc = "react", ![h].seen = delivery[Message(h)]]
  /\ UNCHANGED <<delivery, opened, lease, run, lapsed, button, items, starts, overtaken, troubles>>

React(h) ==
  /\ At(h, "react")
  /\ delivery' = [delivery EXCEPT ![Message(h)] = turn[h].seen]
  /\ End(h)
  /\ UNCHANGED <<opened, lease, run, lapsed, button, items, starts, overtaken, troubles>>

\* The gateway stops; nobody takes the handler's work up but the same message,
\* sent again.
Crash(h) ==
  /\ turn[h].pc \notin {"idle", "done"}
  /\ End(h)
  /\ Trouble
  /\ UNCHANGED <<delivery, opened, lease, run, lapsed, button, items, starts, overtaken>>

HandlerStep(h) ==
  \/ \E m \in Messages : Receive(h, m)
  \/ \E named \in BOOLEAN : Choose(h, named)
  \/ Begin(h) \/ Dismiss(h) \/ Open(h) \/ Check(h) \/ Take(h) \/ Get(h) \/ Clear(h)
  \/ Insert(h) \/ InsertFails(h)
  \/ \E caught \in BOOLEAN : Answer(h, caught) \/ CloseRuns(h, caught)
  \/ Decide(h) \/ Create(h) \/ Link(h) \/ StartWorker(h)
  \/ Complete(h) \/ WriteCompleted(h) \/ Respond(h) \/ ClearKey(h) \/ Close(h)
  \/ Throw(h) \/ FailDelivery(h) \/ FailOwnRun(h) \/ Failed(h) \/ Settle(h) \/ React(h)
  \/ Crash(h) \/ Lapse(h)

TurnsNext ==
  \/ \E h \in Handlers : HandlerStep(h)
  \/ \E s \in Scopes : KeyExpires(s)
  \/ PressClose \/ ButtonClearsKey \/ ButtonCloses

TurnsSpec == TurnsInit /\ [][TurnsNext]_turnsVars

-----------------------------------------------------------------------------
(* Properties.                                                             *)

TurnsTypeOK ==
  /\ delivery \in [Messages -> Statuses]
  /\ opened \in [Scopes -> {"none", "active", "closed"}]
  /\ lease \in [Scopes -> Handlers \cup {NoOne}]
  /\ run \in [Handlers -> {"none", "running", "completed", "failed"}]
  /\ lapsed \subseteq Handlers /\ overtaken \subseteq Handlers
  /\ button \in {"idle", "drop", "close", "done"}
  /\ items \subseteq Messages
  /\ starts \in [Messages -> Nat]
  /\ turn \in [Handlers -> TurnRecords]

\* However often a message is sent, and wherever its handlers fail or stop, it
\* makes one item and starts one worker at most, and no worker has no item.
MessageTakesEffectOnce ==
  \A m \in Messages : starts[m] <= (IF m \in items THEN 1 ELSE 0)

\* Two turns of one session run at the same time only when the key of one was
\* taken from it: it ran out before its run was in the database, somebody cleared
\* it who had read it before that, or a close dropped it.
TurnsExcludeEachOther ==
  \A g, h \in Handlers :
    g # h /\ Live(g) /\ Live(h) /\ Scope(g) = Scope(h) => {g, h} \cap overtaken # {}

\* What the documentation says: one running turn per session.
OneTurnPerSession ==
  \A g, h \in Handlers :
    Live(g) /\ Live(h) /\ Scope(g) = Scope(h) => g = h
=============================================================================
