---------------------------- MODULE PlatformDev -----------------------------
(***************************************************************************)
(* One requirement on the platform, from its issue to the merge of its     *)
(* pull request: the item's state machine (workflow-core), its row         *)
(* (db/repositories/platform-dev.js), and the requests that move it: the   *)
(* executor's callbacks, GitHub's webhooks, the button that starts the     *)
(* development, what the user says later, and the repairs that the gateway *)
(* starts by itself (platform-dev/automation.js).                          *)
(*                                                                         *)
(* Every request reads the row and later writes the whole of it, and most  *)
(* of them do so several times.  The item may be developed by an agent     *)
(* (agentEligible).  The pull request's head is left out: what is about    *)
(* another head changes nothing.                                           *)
(***************************************************************************)
EXTENDS Integers, Sequences, FiniteSets

CONSTANTS
  Handlers,     \* requests that the gateway handles at the same time
  MaxFixes,     \* PAGES_PLATFORM_MAX_FIX_ATTEMPTS
  MaxRequests   \* bound on the requests, one after the other

ASSUME ItemAssumption == MaxFixes \in Nat /\ MaxRequests \in Nat

VARIABLES
  row,        \* MySQL: the item's status, its autoDevStatus, and whether it has a PR number
  log,        \* agent_run_events: repairs dispatched, by trigger, and waiting follow-ups
  req,        \* per request: where it is, what it has read and what it will do
  begun,      \* how many requests there have been
  pressed,    \* has the user started the development?
  starts,     \* how many times an agent was started
  fixes,      \* how many of them were repairs
  uncounted   \* the repairs whose request had not seen every earlier one

itemVars == <<row, log, req, begun, pressed, starts, fixes, uncounted>>

-----------------------------------------------------------------------------
(* The state machine.                                                      *)

Early == {"received", "triaging", "issue_creating"}
Working == {"agent_queued", "agent_running", "branch_committed"}
Closed == {"merged", "closed_unmerged", "cancelled"}
Finished == Closed \cup {"failed"}
Statuses == Early \cup Working \cup Finished \cup
  {"issue_created", "auto_dev_pending", "pr_created", "ci_running", "ci_failed",
   "review_waiting", "review_blocked", "ready_to_merge"}

Agent == {"agent_queued", "agent_running"}
End == {"failed", "cancelled"}

\* PLATFORM_DEV_ALLOWED_TRANSITIONS
Allowed ==
  [received         |-> {"triaging", "issue_creating", "auto_dev_pending"} \cup End,
   triaging         |-> {"issue_creating", "auto_dev_pending"} \cup End,
   issue_creating   |-> {"issue_created"} \cup End,
   issue_created    |-> {"auto_dev_pending", "closed_unmerged"} \cup Agent \cup End,
   auto_dev_pending |-> {"closed_unmerged"} \cup Agent \cup End,
   agent_queued     |-> {"agent_running"} \cup End,
   agent_running    |-> {"branch_committed", "pr_created", "ci_running"} \cup End,
   branch_committed |-> {"pr_created", "ci_running"} \cup End,
   pr_created       |-> {"ci_running", "review_waiting", "review_blocked", "ready_to_merge",
                         "closed_unmerged"} \cup Agent \cup End,
   ci_running       |-> {"ci_failed", "review_waiting", "review_blocked", "ready_to_merge"}
                         \cup Agent \cup End,
   ci_failed        |-> {"ci_running", "review_waiting", "review_blocked", "ready_to_merge"}
                         \cup Agent \cup End,
   review_waiting   |-> {"review_blocked", "ready_to_merge", "closed_unmerged"}
                         \cup Agent \cup End,
   review_blocked   |-> {"ci_running", "review_waiting", "ready_to_merge"} \cup Agent \cup End,
   ready_to_merge   |-> {"merged", "review_blocked", "ci_running", "closed_unmerged"}
                         \cup Agent \cup End,
   merged           |-> {},
   failed           |-> {"agent_queued", "review_blocked", "cancelled", "merged"},
   cancelled        |-> {"merged"},
   closed_unmerged  |-> {"issue_created", "auto_dev_pending", "pr_created", "merged"}
                         \cup Agent]

CanTransition(from, to) == from = to \/ to \in Allowed[from]

\* isStalePlatformDevCallback
Stale(from, to) ==
  \/ from \in Closed
  \/ from = "failed" /\ to \notin Agent \cup {"review_blocked", "cancelled"}
  \/ from = "ready_to_merge" /\ to = "ci_failed"
  \/ from \in Working /\ to # "ready_to_merge"

\* PLATFORM_DEV_CALLBACK_BRIDGES: from where a status is reached over others.
Bridged(to) ==
  CASE to = "issue_created"    -> {"received", "triaging"}
    [] to = "auto_dev_pending" -> Early
    [] to = "agent_queued"     -> Early \cup {"auto_dev_pending"}
    [] to = "agent_running"    -> Early \cup {"issue_created", "auto_dev_pending", "failed"}
    [] to = "branch_committed" ->
         Early \cup {"issue_created", "auto_dev_pending", "agent_queued"}
    [] to = "pr_created"       -> Early \cup {"issue_created", "auto_dev_pending"} \cup Agent
    [] to = "ci_running"       -> Early \cup {"issue_created", "auto_dev_pending"} \cup Working
    [] to = "ci_failed"        -> {"pr_created", "branch_committed", "agent_running"}
    [] to = "merged"           -> {"pr_created", "ci_running", "review_waiting"}
    [] to \in {"review_waiting", "review_blocked", "ready_to_merge"} ->
         {"branch_committed", "agent_running"}
    [] OTHER -> {}

\* platformDevTransitionPath: the status is reached, or the change is ignored,
\* or else refused with an error.
Reached(from, to) ==
  CanTransition(from, to) \/ (~Stale(from, to) /\ from \in Bridged(to))
Ignored(from, to) == ~CanTransition(from, to) /\ Stale(from, to)

-----------------------------------------------------------------------------
(* A request.                                                              *)

\* to: the status to be written, "same" for a patch; how: "update" through the
\* state machine, "fail" by failPlatformDevItem, "patch" as it is; auto and pr:
\* the patch sets these; next: what follows; seen: the status read at first;
\* mark: how long the log was when the item was written.
Idle == [pc |-> "idle", to |-> "same", how |-> "patch", auto |-> FALSE, pr |-> FALSE,
         next |-> <<>>, seen |-> "received", trigger |-> "none", mark |-> 0, count |-> 0,
         copy |-> [status |-> "received", auto |-> "pending", pr |-> FALSE]]

ItemInit ==
  /\ \/ /\ row = [status |-> "received", auto |-> "pending", pr |-> FALSE]
        /\ pressed = FALSE /\ starts = 0
     \/ /\ row = [status |-> "pr_created", auto |-> "triggered", pr |-> TRUE]
        /\ pressed = TRUE /\ starts = 1
  /\ log = <<>>
  /\ req = [r \in Handlers |-> Idle]
  /\ begun = 0 /\ fixes = 0 /\ uncounted = 0

At(r, p) == req[r].pc = p
Set(r, new) == req' = [req EXCEPT ![r] = new]
Goto(r, p) == Set(r, [req[r] EXCEPT !.pc = p])

\* The request goes on with what follows; it is over when nothing does.
Onward(job) ==
  IF job.next = <<>> THEN Idle
  ELSE [job EXCEPT !.pc = Head(job.next), !.next = Tail(job.next), !.to = "same", !.how = "patch"]

\* updatePlatformDevItem, failPlatformDevItem and patchPlatformDevItem, from
\* the read on.
Update(job, to, next) == [job EXCEPT !.pc = "load", !.how = "update", !.to = to, !.next = next]
Patch(job, next) == [job EXCEPT !.pc = "load", !.how = "patch", !.to = "same", !.next = next]
Overwrite(job, to, next) ==
  [job EXCEPT !.pc = "load", !.how = "patch", !.to = to, !.next = next]
FailItem(job) == [job EXCEPT !.pc = "load", !.how = "fail", !.to = "failed", !.next = <<>>]
MoveItem(job, to, next) == IF row.status = to THEN Patch(job, next) ELSE Update(job, to, next)

Begin(r) == At(r, "idle") /\ begun < MaxRequests /\ begun' = begun + 1

\* The row is read; the transition is reached, ignored or refused.
Load(r) ==
  /\ At(r, "load")
  /\ LET job == req[r]  from == row.status IN
     Set(r,
       IF job.how = "patch" \/ (job.how = "update" /\ Reached(from, job.to))
                            \/ (job.how = "fail" /\ CanTransition(from, "failed"))
         THEN [job EXCEPT !.pc = "store", !.copy = row]
       ELSE IF job.how = "update" /\ Ignored(from, job.to)
         THEN Onward([job EXCEPT !.copy = row, !.mark = Len(log)])
       ELSE Idle)
  /\ UNCHANGED <<row, log, begun, pressed, starts, fixes, uncounted>>

\* upsertPlatformDevItem: every column is written.
Store(r) ==
  /\ At(r, "store")
  /\ LET job == req[r]
         new == [status |-> IF job.to = "same" THEN job.copy.status ELSE job.to,
                 auto |-> IF job.auto THEN "triggered" ELSE job.copy.auto,
                 pr |-> job.pr \/ job.copy.pr]
     IN  /\ row' = new
         /\ Set(r, Onward([job EXCEPT !.copy = new, !.auto = FALSE, !.pr = FALSE,
                                  !.mark = Len(log)]))
  /\ UNCHANGED <<log, begun, pressed, starts, fixes, uncounted>>

-----------------------------------------------------------------------------
(* The start of an agent, and the repairs.                                 *)

\* A slip the properties are tried against: whatever has an issue is started.
ShouldStartAnything(item) == item.status # "received"

\* shouldStartWorkerForPlatformDevItem, of an item that has its issue.
ShouldStart(item) == item.auto = "triggered" /\ item.status \in {"issue_created", "agent_queued"}

\* startWorkerForPlatformDevItemIfConfigured, with the item that was read or
\* written; the item fails when its worker does not start.
Start(r, started) ==
  /\ At(r, "start")
  /\ LET starting == ShouldStart(req[r].copy) IN
     /\ Set(r, IF starting /\ ~started THEN FailItem(req[r]) ELSE Onward(req[r]))
     /\ starts' = starts + (IF starting /\ started THEN 1 ELSE 0)
  /\ UNCHANGED <<row, log, begun, pressed, fixes, uncounted>>

\* canDispatchPlatformFix
CanDispatch(item) ==
  /\ item.auto = "triggered"
  /\ item.status \in {"issue_created", "pr_created", "ci_failed", "review_waiting",
                      "review_blocked", "ready_to_merge", "agent_queued", "failed"}

Dispatches == {i \in DOMAIN log : log[i] # "waiting"}

\* A slip the properties are tried against: one attempt too many.
DispatchOnceMore(r) ==
  /\ At(r, "dispatch")
  /\ LET job == [req[r] EXCEPT !.count = Cardinality(Dispatches)] IN
     Set(r, IF ~CanDispatch(job.copy) THEN Idle
            ELSE IF job.count > MaxFixes THEN Update(job, "failed", <<>>)
            ELSE Update(job, "agent_queued", <<"fix">>))
  /\ UNCHANGED <<row, log, begun, pressed, starts, fixes, uncounted>>

\* dispatchPlatformDevFixIfNeeded up to the start: the repairs so far are
\* counted; one for the same trigger since the item was written is enough,
\* unless the user asked for it.
Dispatch(r) ==
  /\ At(r, "dispatch")
  /\ LET job == [req[r] EXCEPT !.count = Cardinality(Dispatches)] IN
     Set(r, IF ~CanDispatch(job.copy) THEN Idle
            ELSE IF job.count >= MaxFixes THEN Update(job, "failed", <<>>)
            ELSE IF /\ job.trigger # "slack_followup"
                    /\ \E i \in (job.mark + 1) .. Len(log) : log[i] = job.trigger THEN Idle
            ELSE IF job.copy.status = "agent_queued" THEN Patch(job, <<"fix">>)
            ELSE Update(job, "agent_queued", <<"fix">>))
  /\ UNCHANGED <<row, log, begun, pressed, starts, fixes, uncounted>>

\* The agent is started, and then the repair recorded; nothing happens where
\* no worker is to be started.
Fix(r, started) ==
  /\ At(r, "fix")
  /\ LET starting == ShouldStart(req[r].copy) IN
     /\ Set(r, IF ~starting THEN Idle
               ELSE IF started THEN [req[r] EXCEPT !.pc = "record"] ELSE FailItem(req[r]))
     /\ IF starting /\ started
          THEN /\ starts' = starts + 1 /\ fixes' = fixes + 1
               /\ uncounted' = uncounted + (IF req[r].count < fixes THEN 1 ELSE 0)
          ELSE UNCHANGED <<starts, fixes, uncounted>>
  /\ UNCHANGED <<row, log, begun, pressed>>

Record(r) ==
  /\ At(r, "record")
  /\ log' = Append(log, req[r].trigger)
  /\ Set(r, Idle)
  /\ UNCHANGED <<row, begun, pressed, starts, fixes, uncounted>>

\* queuedFollowupsAfterLastSlackDispatch
Waiting ==
  \E i \in DOMAIN log :
    log[i] = "waiting" /\ \A j \in (i + 1) .. Len(log) : log[j] # "slack_followup"

\* dispatchQueuedPlatformDevFollowupIfNeeded
DispatchWaiting(r) ==
  /\ At(r, "waiting")
  /\ Set(r, IF /\ req[r].copy.status \in {"pr_created", "ci_failed", "review_waiting",
                                          "review_blocked", "ready_to_merge", "failed"}
               /\ Waiting
              THEN [req[r] EXCEPT !.pc = "dispatch", !.trigger = "slack_followup"]
              ELSE Idle)
  /\ UNCHANGED <<row, log, begun, pressed, starts, fixes, uncounted>>

-----------------------------------------------------------------------------
(* The executor's callbacks: handlePlatformDevExecutorCallback.            *)

\* The worker has made the issue, and did not start the development.
IssueIsReady(r) ==
  /\ Begin(r)
  /\ Set(r, MoveItem(Idle, "auto_dev_pending", <<"pending">>))
  /\ UNCHANGED <<row, log, pressed, starts, fixes, uncounted>>

\* The user has pressed the button already: the development starts.
Pending(r) ==
  /\ At(r, "pending")
  /\ Set(r, IF req[r].copy.auto = "triggered"
              THEN Update([req[r] EXCEPT !.auto = TRUE], "agent_queued", <<"start">>)
              ELSE Idle)
  /\ UNCHANGED <<row, log, begun, pressed, starts, fixes, uncounted>>

\* An agent runs, or has made the pull request.
AgentRuns(r) ==
  /\ starts > 0
  /\ Begin(r)
  /\ Set(r, MoveItem(Idle, "agent_running", <<>>))
  /\ UNCHANGED <<row, log, pressed, starts, fixes, uncounted>>

AgentMadePullRequest(r) ==
  /\ starts > 0
  /\ Begin(r)
  /\ Set(r, MoveItem([Idle EXCEPT !.pr = TRUE], "pr_created", <<"waiting">>))
  /\ UNCHANGED <<row, log, pressed, starts, fixes, uncounted>>

\* A failure, of the worker or of an agent, that is not of an earlier run.
ExecutorFailed(r) ==
  /\ Begin(r)
  /\ Set(r, IF row.status \in Finished THEN Idle ELSE FailItem(Idle))
  /\ UNCHANGED <<row, log, pressed, starts, fixes, uncounted>>

-----------------------------------------------------------------------------
(* GitHub's webhooks.                                                      *)

\* handleGithubSiteCheckWebhook, with platformCheckStatusForRun: a passed
\* check leads to what the gates of the reviews say.
CheckRun(r, result, gate) ==
  LET next == CASE result = "running" -> "ci_running"
                [] result = "failed" -> "ci_failed"
                [] row.status \in {"review_blocked", "ready_to_merge"} -> row.status
                [] OTHER -> gate
      stale == row.status \in Finished \/ (row.status \in Working /\ next # "ready_to_merge")
  IN  /\ row.pr
      /\ Begin(r)
      /\ Set(r, IF stale THEN Patch(Idle, <<>>)
                ELSE MoveItem([Idle EXCEPT !.trigger = "ci_failed"], next,
                          IF next = "ci_failed" THEN <<"dispatch">> ELSE <<"waiting">>))
      /\ UNCHANGED <<row, log, pressed, starts, fixes, uncounted>>

\* handleGithubReviewAgentWebhook: the status, and then the context of the
\* review, which is patched in.
Review(r, blocking, passed) ==
  LET next == IF blocking THEN IF row.status = "ci_failed" THEN "ci_failed" ELSE "review_blocked"
              ELSE IF passed THEN "ready_to_merge"
              ELSE IF row.status \in {"pr_created", "ci_running"} THEN "review_waiting"
              ELSE row.status
      stale == row.status \in Closed \/ (row.status \in Working /\ next # "ready_to_merge")
  IN  /\ row.pr
      /\ Begin(r)
      /\ Set(r, IF stale THEN Patch(Idle, <<>>)
                ELSE MoveItem([Idle EXCEPT !.trigger = "review_blocked"], next,
                          <<"context", IF blocking THEN "dispatch" ELSE "waiting">>))
      /\ UNCHANGED <<row, log, pressed, starts, fixes, uncounted>>

Context(r) ==
  /\ At(r, "context")
  /\ Set(r, Patch(req[r], req[r].next))
  /\ UNCHANGED <<row, log, begun, pressed, starts, fixes, uncounted>>

\* restorePlatformDevItemForReopenedGithubResource
Restored(target) ==
  IF target = "pr" \/ row.pr THEN "pr_created"
  ELSE IF row.auto = "triggered" THEN "agent_queued" ELSE "auto_dev_pending"

Restore(target, next) ==
  IF row.status \in End THEN Overwrite(Idle, Restored(target), next)
  ELSE Update(Idle, Restored(target), next)

\* handleGithubPullRequestWebhook
PullRequest(r, action) ==
  /\ row.pr
  /\ Begin(r)
  /\ Set(r,
       IF row.status \in Finished
         THEN IF action = "reopened" /\ row.status # "merged"
                THEN Restore("pr", <<"context", "start">>)
              ELSE IF action = "merged" /\ row.status # "merged" THEN Update(Idle, "merged", <<>>)
              ELSE Idle
       ELSE CASE action = "merged" -> MoveItem(Idle, "merged", <<>>)
              [] action = "closed" -> MoveItem(Idle, "closed_unmerged", <<>>)
              [] action = "opened" -> MoveItem(Idle, "pr_created", <<>>)
              [] action = "reopened" -> MoveItem(Idle, "pr_created", <<"start">>)
              [] action = "synchronize" -> MoveItem(Idle, "ci_running", <<>>))
  /\ UNCHANGED <<row, log, pressed, starts, fixes, uncounted>>

\* handlePlatformDevIssueWebhook
Issue(r, action) ==
  /\ Begin(r)
  /\ Set(r,
       CASE action = "opened" ->
              IF row.status \in {"received", "issue_creating"}
                THEN Update(Idle, IF row.auto = "triggered" THEN "issue_created"
                                 ELSE "auto_dev_pending", <<>>)
                ELSE Patch(Idle, <<>>)
         [] action = "closed" ->
              IF row.status \in {"merged", "closed_unmerged"} THEN Patch(Idle, <<>>)
              ELSE Update(Idle, "closed_unmerged", <<>>)
         [] action = "reopened" ->
              IF row.status \in Finished \ {"merged"} THEN Restore("issue", <<"start">>)
              ELSE Patch(Idle, <<"start">>))
  /\ UNCHANGED <<row, log, pressed, starts, fixes, uncounted>>

-----------------------------------------------------------------------------
(* The user.                                                               *)

\* The button: triggerPlatformDevAutoDev, one conditional statement.
Press(r) ==
  /\ row.auto = "pending"
  /\ Begin(r)
  /\ row' = [row EXCEPT !.auto = "triggered"]
  /\ pressed' = TRUE
  /\ Set(r, [Idle EXCEPT !.pc = "pressed"])
  /\ UNCHANGED <<log, starts, fixes, uncounted>>

\* The item is read once more: it waits for its issue, or it is started.
Pressed(r) ==
  /\ At(r, "pressed")
  /\ LET job == [req[r] EXCEPT !.copy = row] IN
     Set(r, CASE row.status = "received" -> Idle
              [] row.status = "auto_dev_pending" ->
                   Update([job EXCEPT !.auto = TRUE], "agent_queued", <<"start">>)
              [] OTHER -> [job EXCEPT !.pc = "start"])
  /\ UNCHANGED <<row, log, begun, pressed, starts, fixes, uncounted>>

\* handleSlackPlatformDevFollowup: the item was read before the agent's turn.
FollowUp(r) ==
  /\ row.status \notin Closed
  /\ Begin(r)
  /\ Set(r, Patch([Idle EXCEPT !.seen = row.status], <<"follow">>))
  /\ UNCHANGED <<row, log, pressed, starts, fixes, uncounted>>

ActOnFollowUp(r) ==
  /\ At(r, "follow")
  /\ IF req[r].seen \in Working \cup {"ci_running", "review_waiting"}
       THEN log' = Append(log, "waiting") /\ Set(r, Idle)
       ELSE /\ Set(r, IF req[r].copy.status # "review_waiting"
                        THEN [req[r] EXCEPT !.pc = "dispatch", !.trigger = "slack_followup"]
                        ELSE Idle)
            /\ UNCHANGED log
  /\ UNCHANGED <<row, begun, pressed, starts, fixes, uncounted>>

\* The gateway stops.
Crash(r) ==
  /\ ~At(r, "idle")
  /\ Set(r, Idle)
  /\ UNCHANGED <<row, log, begun, pressed, starts, fixes, uncounted>>

Gates == {"review_waiting", "review_blocked", "ready_to_merge"}

RequestStep(r) ==
  \/ Load(r) \/ Store(r) \/ Dispatch(r) \/ Record(r) \/ DispatchWaiting(r) \/ Context(r)
  \/ \E started \in BOOLEAN : Start(r, started) \/ Fix(r, started)
  \/ IssueIsReady(r) \/ Pending(r) \/ AgentRuns(r) \/ AgentMadePullRequest(r)
  \/ ExecutorFailed(r)
  \/ \E result \in {"running", "failed"} : CheckRun(r, result, "review_waiting")
  \/ \E gate \in Gates : CheckRun(r, "passed", gate)
  \/ \E blocking, passed \in BOOLEAN : ~(blocking /\ passed) /\ Review(r, blocking, passed)
  \/ \E action \in {"opened", "synchronize", "closed", "merged", "reopened"} :
       PullRequest(r, action)
  \/ \E action \in {"opened", "closed", "reopened"} : Issue(r, action)
  \/ Press(r) \/ Pressed(r) \/ FollowUp(r) \/ ActOnFollowUp(r) \/ Crash(r)

ItemNext == \E r \in Handlers : RequestStep(r)

ItemSpec == ItemInit /\ [][ItemNext]_itemVars

-----------------------------------------------------------------------------
(* Properties.                                                             *)

Rows == [status : Statuses, auto : {"pending", "triggered"}, pr : BOOLEAN]
Triggers == {"slack_followup", "ci_failed", "review_blocked"}
Places == {"idle", "load", "store", "start", "dispatch", "fix", "record", "waiting", "pending",
           "context", "pressed", "follow"}
Jobs == [pc : Places, to : Statuses \cup {"same"}, how : {"update", "fail", "patch"},
         auto : BOOLEAN, pr : BOOLEAN, next : Seq(Places), seen : Statuses,
         trigger : Triggers \cup {"none"}, mark : Nat, count : Nat, copy : Rows]

\* Types; the log has no repair without what it was for.
ItemTypeOK ==
  /\ row \in Rows
  /\ log \in Seq(Triggers \cup {"waiting"})
  /\ req \in [Handlers -> Jobs]
  /\ begun \in 0 .. MaxRequests
  /\ pressed \in BOOLEAN
  /\ starts \in Nat /\ fixes \in 0 .. starts /\ uncounted \in 0 .. fixes

\* Nobody develops a requirement before the user has asked for it: whatever
\* arrives in whatever order, and whichever stale row is written back.
NoWorkBeforeTrigger == starts > 0 => pressed

\* The gateway repairs an item so many times by itself and then gives up, but
\* for repairs that were decided before an earlier one was recorded.
FixesAreBounded == fixes <= MaxFixes + uncounted
=============================================================================
