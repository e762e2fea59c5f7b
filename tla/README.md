# A TLA+ model of boardroom-os

boardroom-os runs a simulated company: a board gives a directive, a CEO model
splits it into tickets, workers (model providers behind employee records)
execute them, checkers review, the board approves. The backend
(`src/backend/app`) is a FastAPI process and a scheduler runner over one SQLite
database. Every command handler

1. opens `repository.transaction()` (`BEGIN IMMEDIATE`: one writer at a time;
   an exception rolls back, a plain `return` **commits**),
2. reads projections, rejects or appends events to one log (idempotency keys
   are unique),
3. calls `refresh_projections`, which rebuilds the projections from the log,
4. after the commit may trigger the CEO loop, which sends further commands.

This directory models that engine: the life of a ticket from its creation to its
end, the scheduler tick, incidents and their recovery, the containment of a
frozen employee's work, what follows a completion (checker, fixes, the board and
the merge of what was approved), the runs that call the providers, the CEO and
the controller that tells it what comes next, meetings, the access of external
workers, and the artifacts a ticket leaves.

## Inventory

| Component | State | Operations | What is hard | What makes it correct |
|---|---|---|---|---|
| Event log, projections (`db/repository.py`, `core/reducer.py`) | events, one row per ticket, node, incident, employee, workflow, approval | append, fold | keys that collide mid-transaction; two rows that describe one ticket | the node row follows the ticket row; a fold is a function of the log |
| Ticket commands (`core/ticket_handlers.py`) | ticket and node rows, leases, timers | create, lease, start, heartbeat, cancel, fail, complete, submit a result, CEO retry | results decided on a stale snapshot; a cancel, timeout or freeze racing the worker; retries | one execution per node; nothing lost; the worker's contract |
| Scheduler tick (same file) | none of its own | time out, retry or open an incident, fail what can never run, lease the rest | several tickets in one transaction; what the tick itself did is not in the projections it reads | one claim per worker; gates respected; breakers respected; every execution ends |
| Incidents (same file) | incident rows with a circuit breaker | open (timeout, failure, provider, staffing), resolve in five ways, close | no check that the ticket is still current; recreation of descendants | one breaker per cause; closed only by the follow-up; budget |
| Staffing (`staffing_containment.py`, `employee_handlers.py`) | employee state; exclusions in ticket payloads | freeze, restore, hire, replace | a freeze walks tickets in every state; two freezes of one ticket | nobody frozen runs anything |
| Maker-checker routing (`ticket_handlers.py` from `_complete_ticket_locked`) | review requests in payloads, rework streak | route to checker, approve, fix ticket, escalate | the streak across checker retries; a raise after the first event | every deliverable that asks for a review gets one; bounded rework |
| Board approval (`approval_handlers.py`) | approval rows, blocked nodes | approve, reject, modify constraints, delegate | stale approvals; follow-up tickets and merges in the same command | no approval acts twice; a blocked node is released once |
| Meetings (`meeting_handlers.py`) | meeting rows | candidates, request, rounds, outcome, review | the row and the ticket are written in two transactions; retries, fixes and checks copy parts of the ticket | one open meeting per topic; the board decides on the meeting it is shown |
| Runtime (`runtime.py`, `provider_*.py`, `scheduler_runner.py`, `inprocess_scheduler.py`) | provider streams, heartbeat thread | execute leased tickets, retry and fall back between providers | a heartbeat thread beside the execution; two runners | one run per ticket; no provider called twice; every run ends |
| CEO loop (`ceo_*.py`, `workflow_*.py`) | shadow runs | snapshot, propose, validate, execute a batch, auto-advance | the whole batch is validated against one snapshot | no node created twice; documents before code; the workflow closes |
| Worker access (`_frozen/worker_*`, `worker_*_tokens.py`) | bootstrap issues, sessions, delivery grants | issue, exchange, rotate, revoke, clean up | revocation while a session or grant is in use | nothing that was ended is honoured again |
| Artifacts (`artifact_*.py`, `ticket_artifacts.py`) | artifact index, upload sessions, object store | upload parts, complete, consume, delete, expire, clean up | storage fails between two writes | an index row never promises what is gone |
| Project workspaces (`project_workspaces.py`) | git repository, worktrees, receipts | commit, merge, close out | git outside the transaction | merged at most once, only after review |
| Event stream (`streaming.py`) | a cursor | read after the cursor | reconnects | no event skipped or repeated |
| Context compiler | none | fit sources into a token budget | boundaries of the budget | never over the budget |
| Read models, catalogues, prompts, drill, frontend | none | | | not modelled: no state of their own |

Components share state through the database only: the tick, the API and the
runner are separate callers of the same handlers. The CEO loop runs after a
commit in the caller's thread.

## Modules

| Module | Models |
|---|---|
| `TicketProjection` | the ticket and node rows, and one operator per event of the log |
| `TicketLifecycle` | the handlers, the tick, recovery, staffing, time; the properties |
| `TicketContract` | the abstract promise to the worker of a ticket; `TicketLifecycle` implements it |
| `ReviewRouting` | what a completion leads to: checker and fix tickets, escalation, the board's decisions, the branches and `main` |
| `ReviewContract` | the abstract stages of a node's deliverable; `ReviewRouting` implements it |
| `ProviderSelection` | which provider a ticket gets and which ones stand in for it: functions of the saved configuration |
| `RuntimeExecution` | the loop that starts leased tickets, calls providers and submits results, run by several threads |
| `WorkflowController` | the controller's view of a workflow and the runs of the CEO that act on it, from the brief to the closeout |
| `Meeting` | meetings between request and board, with the tickets they run on |
| `WorkerAccess` | bindings, bootstrap tokens, sessions and delivery grants of external workers |
| `ArtifactLifecycle` | uploads, results, the artifact index and the store of bodies, deletion and cleanup |
| `MC...` | model values and small instances for TLC, one for each module with a run |
| `TicketProjection_proofs` | lemmas about the events |
| `TicketLifecycle_proofs`, `ReviewRouting_proofs`, `RuntimeExecution_proofs`, `WorkflowController_proofs`, `Meeting_proofs`, `WorkerAccess_proofs`, `ArtifactLifecycle_proofs` | inductive invariants and theorems |

`TicketLifecycle` and `ReviewRouting` are two views of one engine, over the rows
of `TicketProjection`. The first has all the ways in which an attempt is queued,
leased, expired and recovered, and ends at its completion. The second starts a
ticket in one step and follows what its completion leads to. The other modules
look at the same tickets from outside and keep of them what their handlers read:
`RuntimeExecution` extends `ProviderSelection` and sees leases, starts and
terminal states; `WorkflowController` sees a node as absent, queued, working, in
review, at the board, done or stuck; `Meeting` keeps the latest ticket of a
meeting; `WorkerAccess` who holds a ticket; `ArtifactLifecycle` whether it still
executes. The steps by which a ticket moves there are any that the other two
modules allow.

### State

In `TicketLifecycle`, `store` holds the columns the handlers read: `status`, `owner` (lease_owner),
`overdue` (which of its deadlines have passed), `spec` (the latest created
payload), `outcome` (the latest terminal event) of each ticket, and `latest`
and `nodeStatus` of each node. Rebuilding a projection folds the log, so an
event is an operator from one such database to the next; `Moved` is the common
part of the two reducers. `incident` and `employee` are the other two
projections. `attempt[t]` is a result submission between its read and its
transaction, the only handler that is not atomic in the code. `retried` is the
part of the idempotency index that the CEO retry depends on.

In `ReviewRouting`, `store` has the same rows with the payload columns that
routing reads (`kind`, `maker`, `finding`, `streak`), who works on a ticket and
what its checker said. `approval` is the approval's row by the ticket it is
about, `git` the branches with a delivery on them, the branches `main` was merged
with and the closeout receipts, and
`txn` an approval whose branch is merged and whose transaction is
not yet committed.

In `RuntimeExecution`, `ticket` is the status and lease owner, `breaker` and
`opened` the providers with an open breaker and the incident keys in the log,
`config` the saved configuration with `saving` while its file is being rewritten
in place, and `driver` the program counter and locals of each run. `aborted` is
history: the tickets whose run ended on the exception of a command.

In `WorkflowController`, `node`, `made` and `passed` say where a node's latest
ticket is, whether a maker has completed and whether its check approved it;
`created` counts what the CEO created on it; `due` holds the runs that committed
events have called for and that are lost with the process, and `run` the
snapshot and the batch of each run under way.

In `Meeting`, `row` is `meeting_projection`, `latest` the latest ticket of each
meeting's node (a work ticket, a fix or a check), `run` the executions of those
tickets, stale ones included, `plan` the CEO's accepted candidate, `approval` the
approvals that were asked for.

In `WorkerAccess`, `binding`, `issue`, `session` and `grant` are the rows of the
four tables, `call` the requests of workers between their check and their last
write. `ended`, `orphan` and `adrift` are history: what a command has ended,
which issues have lost their binding, which requests were checked before their
binding was cleaned up and are to insert, or have inserted, a session after it.

In `ArtifactLifecycle`, `upload` and `row` are tables, `staged` and `store` files
and objects that no transaction covers, and `writing` a submission between its
bodies and its transaction. `asked` and `spoiled` are history, of deletions and of
artifacts that a ticket named again.

### Steps

In `TicketLifecycle`, a handler that touches one ticket, and at most one that it creates, is one
action. A handler that loops takes `txn` for the time of its transaction and
does one ticket per step: `TickBegin`, `TimeOut`, `DispatchBegin`, `Dispatch`,
`DispatchFail`, `DispatchSkip`, `TickEnd`; `RestoreAndRetry`, `Recreate`,
`RecreateSkip`; `FreezeBegin`, `Requeue`, `Contain`, `FreezeEnd`;
`RestoreBegin`, `Readmit`, `RestoreEnd`. Every other action waits until the
lock is free. So a loop may take its tickets in any order where the code sorts
them by priority, stage and time; what is checked holds for every order.

`TickBegin` remembers the nodes with an open incident because the code looks
for one in projections that it rebuilds only after all timeouts. In `Dispatch`
and later the busy workers count the leases of the same tick, as
`busy_workers.add` does.

In `ReviewRouting`, `_complete_ticket_locked` is split by where it routes:
`SubmitUnreviewed`, `SubmitToBoard`, `SubmitToChecker` for makers, `Accept`,
`Refuse` and `CompleteUnjudged` for checkers, each with all its events and its
follow-up ticket. `CompleteUnjudged` is `/ticket-complete` of a checker's ticket:
there is no result and so no verdict, and what is not a refusal passes. Of a maker
the same command is one of the other actions, on a source without a commit
(`Finishes`).
`CommitDelivery` is the commit on the ticket's branch, which the code makes
before the transaction. An approval of a milestone is two steps, `ApproveMerge`
and `ApproveCommit`, because git does not roll back with the database: `Crash`
may come between the two. Without a source to merge `ApproveCommit` is the whole
approval. `SendBack` is both of the board's refusals. Only the nodes of
`ReviewOf[n] = "BOARD"` have milestone reviews; `"DIRECT"` goes to the board
without a checker; `"INTERNAL"` ends with the checker.

In `RuntimeExecution` each transaction of a run is one action, and so is each
read of the configuration: `Snapshot` lists the leased tickets outside any
transaction, and the start, the choice of the provider, the chain of candidates,
every call and its retries, the incident and the submission come one after the
other, with other runs, operators and the tick between them. A call of a command
may also end in an exception that neither the caller nor the loop catches
(`UncaughtKinds`).

In `WorkflowController` a run takes its view (`Think`), and validates and executes
its batch from it later. The batch of a live model is any subset of
`LiveActions`; without one it is what `ceo_proposer.py` computes from the view.
Triggers start after the commit of what they are about; `Crash` loses them.
`Maintain` is the scheduler's run of an idle workflow.

In `Meeting`, `Hold` writes the meeting's row with the outcome of all rounds in
one transaction, and `Report` its ticket's in a later one. `Rewrite` is the run
of a fix: its ticket has no meeting context, so a provider writes it. `Decide` is
the board, `AskBoard` part of the checker's acceptance.

In `WorkerAccess` a request is checked in one step and writes its session and then
each grant in later ones, with nothing checked again; commands of operators come
in between. A session, issue or grant that lapses is a step of its own.

In `ArtifactLifecycle` a handler is one action and its crash another, in which the
store has changed and the database has not. `WriteBodies` and `AcceptResult` or
`RefuseResult` are two steps, as the submission of a result checks its ticket
before it takes the lock.

Four things are stronger or weaker than a line-by-line reading:

- Ids are numbered in the order of creation. The code draws random ids and
  compares none.
- `handle_ticket_create` does not check that a parent exists; the model offers
  only parents that do. Dependency gates are checked, in both. Ids are fresh,
  so a client cannot close a cycle of gates by creating a ticket.
- A submission reads its ticket row and its node row on two connections. The
  model reads both at once: no command moves the pair between the reads to a
  combination that leads elsewhere than one of the two moments does.
- In `ReviewRouting` a follow-up ticket is created from the rows as they are then. In
  the code a rejection in the middle of a completion leaves the rows to be folded by
  the next command; that command reads the log it folds, so folding at once only
  changes when the rows are seen to move. `completed_by` is taken to be the worker of
  the ticket, which the command does not compare.

### Abstractions

Time is the set of deadlines that have passed: a lease, the SLA, the heartbeat
window, and the half of that window in which a heartbeat still comes in time.
Failure kinds are three classes (ordinary, provider, dispatch). Role profiles,
execution contracts and capabilities are left out: every worker fits every
ticket, so a worker is chosen among more (`ReviewRouting` tells makers from
checkers). Also left out of `TicketLifecycle`: the exception that relaxes
exclusions of the only worker of a role, and the project workspace's git side
effects, which `ReviewRouting` has.

`ReviewRouting` leaves leases, the order of a tick, freezes and incidents that
are not its own to `TicketLifecycle`. A ticket's result is submitted once at a
time. A commit on the branch of a ticket that has ended by then happens only in
instances with `"late commit"`. The write of a receipt and the event that
follows it are one step, except around a merge. Findings are fingerprints: the
verdict's blocking findings as a whole. Conflicts of a merge are a choice of the
environment.

`RuntimeExecution` keeps of a provider's answer its failure kind, whether it may
be retried and whether it came in parts; prompts, schemas and the artifacts that
are built from it are left out, and so is the heartbeat thread, which only writes
what `TicketLifecycle` has. In `WorkflowController` the check of a node and the
board are one step each, and a role has someone active or not. `Meeting` merges
lease and start, makes the checker's ticket one step, treats a time-out as a
failure, keeps only the latest ticket of a meeting, and leaves out excluded
employees and the preference of the lease for the recorder. In `WorkerAccess` a
token is its row, as signature and claims only repeat what the row says, and of
the clock it keeps which side of `revoked_before` an issue is stamped. In
`ArtifactLifecycle` a body is who wrote it; sizes, hashes and media types are left
out, writing the bodies of one result is one step, and a crash ends the API and the
runner together, where one of them may go on.

## Checks

The first three runs use `MCTicketLifecycle`. `Commands` lists what clients send
in an instance; start, heartbeat, complete, fail, the tick and the clock are
always there.

| Run | Instance | Properties | Shows |
|---|---|---|---|
| `submission` | `FairSpec`, results with a stale snapshot, cancels, timeouts, manual leases | `TypeOK`, `NodeMirrorsTicket`, `OneBreakerPerCause`, `ContractKept`, `EveryExecutionEnds` | the second look in the transaction is enough; a node under a breaker gets no second one; the worker's contract is implemented; a running ticket is ended by its worker or by the tick |
| `recovery` | every incident type, a descendant, a budget of 1, freezes, CEO retries | `ClosedOnlyByFollowup`, `BreakerFollowsIncident`, `OverBudgetOnlyByOperator` | recovery closes the right incident and only operators exceed a budget |
| `gates` | gated and staged tickets, cancels, freezes, ticks called with workers | `ExecutingOwnerActive`, `OneExecutionPerNode`, `NoTicketLost`, `NeverAheadOfGates`, `OneClaimPerWorker`, `TrippedNodeIdle` | attempts of a node never overlap and none is orphaned; containment reaches what runs; nothing upstream reopens under a claimed ticket; leases that expire under a tick never give a worker two live claims |
| `review` | a build, its review before the board, a closeout; refusals, checks without a verdict, cancels, conflicts, crashes | `TypeOK`, `DownstreamWaitsForReview`, `BoardQueueAgrees`, `GateAgrees`, `RepeatsEscalate`, `ContractKept` | nothing overtakes a review under way or passes a board review without the board, the board can act on what waits for it and on nothing else, database and git agree |
| `rework` | `FairSpec`, autopilot, 3 makers, 2 findings, retries | `ReworkBounded`, `FreshEyes`, `EveryReviewEnds` | the fix loop ends, with a new maker each time while there is one |
| `runtime` | `FairSpec`, two runs, a ticket leased again, two providers with fallbacks, three configurations | `OneDriverPerTicket`, `ExecutingIsDriven`, `NoProviderCalledTwice`, `EveryRunEnds` | two runs that took the same snapshot never drive one ticket; what executes has a run, but for two ways to lose it (below); candidates are each asked once; every run ends |
| `controller` | a live model that proposes anything, two runs, refusals, failures and incidents | `CreatedOnce`, `GovernanceInOrder`, `CodeAfterDocuments` | old snapshots create no node twice and, as long as the staff can write the documents, no document ahead of the one before and no code ahead of the backlog |
| `autopilot` | `FairSpec`, the deterministic CEO, one crash, a role to hire | `CloseoutHasEvidence`, `Closes` | idle maintenance makes up for the triggers a crash loses: the workflow closes, with its work behind it |
| `meeting` | one topic, the CEO and an operator, two meetings, retries, crashes, stale executions | `OneOpenPerTopic`, `OneMeetingPerSource`, `BoardReadsTheMeeting` | one open meeting per topic and one per source ticket of the CEO; what the board decides on is a meeting that reached consensus |
| `access` | one worker bound to two scopes, a request between the commands of operators | `EndedStaysEnded`, `ListedIssueOpens` | what was ended is not honoured again, unless its binding was cleaned up under the request that opened it; a token listed as active opens a session |
| `artifacts` | `FairSpec`, the object store, two tickets with the same refs and path, an upload, a crash | `ConsumedOnce`, `ReadableHasBody`, `CleanupCatchesUp` | an upload becomes one artifact; what is shown as readable is what its ticket left; what lapsed is cleared |
| `boundary` | expects a violation: a workflow that asks for a technical decision meeting | `Closes` | see below |

In `review` seven tickets are a build, the review of it and the closeout, each with
its checker, and one more for a fix, a retry by the client or the review after a
rejection: each decision of the board and each way a check may end is reached. One
maker does, as who makes a deliverable matters to `rework` only, which has three. In
`rework` twelve tickets are more than the loop can create under its cap and the
retries, so that the bound on ids never ends it for the code.

`CHECK_DEADLOCK FALSE` wherever the bounds stop the system: all tickets ended
and no id left. `MaxTickets`, `MaxIncidents` and `MaxCreates` bound the ids;
`MaxCreates` counts tickets that are not retries, so that ids are left for
them. Three tickets on a node are one ticket, its retry and a retry or recreation
of that one, which is as far as any handler looks along a lineage at a threshold
of 2; two workers are one who holds a claim and one who takes it over. In
`submission` there are more ids than tickets and timeouts together, so that the
caps never hold up a tick.

In `runtime` two runs and one ticket, leased to a second worker after the first,
are a snapshot that is stale in every way it can be; two providers whose fallbacks
name each other are the shortest chain with a cycle. In `controller` one item
behind two documents has every kind of batch and dependency; a second item only
repeats it. In `meeting` two meetings and four tickets are a meeting, its retry,
its fix and another request on the topic. In `access` two issues are one before
and one after a revocation, two grants one of each of two kinds; one request at
a time suffices as requests only meet in the rows. In `artifacts` two refs and one
path make every key meet every other; the directory store is left out because
`ReadableHasBody` fails there (below). `MaxCrashes`, `MaxMishaps`, `MaxTurns`,
`MaxParts` and `MaxItems` bound what the environment does.

The invariants called `TypeOK` of the modules without it in a run are the typing
part of their proofs, or were left to the module that has the rows.

Fairness. In `TicketLifecycle` the runner ticks for ever and SQLite grants the
write lock eventually (strong fairness of `TickBegin`); a handler that holds the
lock goes on (weak fairness of the tick's steps); the clock does not stop (strong
fairness of the SLA's passing). In `ReviewRouting` the same runner makes dispatch
strongly fair, as a worker is free now and again, and the time-out of a ticket
that goes on running weakly fair. Nothing is assumed of workers, checkers and
the board there. In `RuntimeExecution` a run goes on (weak fairness of each run):
every phase of a provider's call has a deadline. In `WorkflowController` the runs
that are due start, think and act, nodes progress and the board decides (weak
fairness): those are the conclusions of the other modules. In `ArtifactLifecycle`
time passes and the store does not refuse for ever (strong fairness of a cleanup
in which nothing fails).

### Where the code departs from its documents

`boundary` ends in a counterexample. With a technical decision meeting as a hard
constraint, the implementation tickets are never released, although the meeting is
held, checked and approved (`workflow_controller.py:628`;
`doc/mainline-truth.md:79`): the controller waits for a meeting whose row says
APPROVED, and nothing writes that to a row's `review_status`.

### What does not hold, and is not claimed

- With incident recovery or CEO retries, `OneExecutionPerNode` and
  `NoTicketLost` do not hold: neither checks that its ticket is the latest of
  its node. `gates` leaves both out.
- `TrippedNodeIdle` does not hold under manual leases, which ignore breakers on
  purpose, nor under CEO retries; nor does `OneBreakerPerCause` under CEO retries.
- `OneClaimPerWorker` is about the tick; a manual lease does not look.
- Recovery schedules a retry whatever the budget is
  (`doc/design/boardroom-data-contracts.md:601` has it within the budget);
  `OverBudgetOnlyByOperator` is what holds.
- A start is allowed under an open provider breaker when the provider is enabled
  (`doc/design/message-bus-design.md:914`).
- A tick that is handed a frozen worker leases to them
  (`doc/api-reference.md:66`). Start refuses them, so they never run it
  (`ExecutingOwnerActive`).
- A crash between the merge and the commit of the approval leaves `main` with a
  branch whose review is open and can still be rejected. `GateAgrees` is the
  other direction. `doc/design/message-bus-design.md:817` and
  `doc/mainline-truth.md:67` ask for opposite orders of the two.
- A refusal further down the chain turns the receipt of a merged branch back to
  NOT_REQUESTED.
- The streak of a finding starts again after a checker that was retried, and the
  cap of the autopilot also counts fixes of nodes upstream, which makes it
  tighter than it reads.
- A ticket that a client creates as the follow-up of one on its own node starts with
  a payload that excludes nobody: `FreshEyes` is claimed where no node is upstream
  of itself.
- A ticket that was cancelled while it waited for the board leaves an open
  approval that nothing can decide.
- A build that was retried before it committed has no branch; the approval of a
  review of it fails in git, again and again.
- A failed merge opens an incident that a later successful merge does not close.
- A ticket in CANCEL_REQUESTED waits for its worker for ever.
- `RESTORE_ONLY` closes the breaker and leaves its incident RECOVERING for ever:
  it names no follow-up (`doc/design/boardroom-data-contracts.md:597` has it closed).
- An incident whose follow-up fails stays RECOVERING for ever: the retry of the
  follow-up has another id.
- A provider's breaker may open between a ticket's lease and its start.
- A duplicate idempotency key in the middle of a tick returns, and so commits what
  was inserted before it (`ticket_handlers.py:3038`).
- So does a rejection of `handle_ticket_completed` (`:5466`). Of a check before the
  board it commits a completion that says the board was asked, and no approval is
  opened: the ticket is COMPLETED, its node row goes on showing EXECUTING
  (`reducer.py:1075`), and no command reaches the node again. The contract has it in
  "checking" for ever; `EveryReviewEnds` is checked where no check precedes the board.
- Two freezes of one ticket leave the first worker excluded after both are
  restored (`staffing_containment.py:84`; `doc/todo/completed-capabilities.md:9`).
- A late result cancels a ticket that had already failed
  (`ticket_handlers.py:4660`;
  `doc/history/archive/memory-log-detailed-2026-03-27_to_2026-03-30.md:1476`).
- A checker's ticket that `/ticket-complete` finishes has no verdict, an internal
  review ends all the same (`ticket_handlers.py:5337`), and what comes after runs on
  what no checker accepted (`doc/archive/specs/feature-spec.md:99`,
  `doc/mainline-truth.md:11`). `DownstreamWaitsForReview` names the case.
- A review is created after a build, the build is refused and fixed, the fix is
  accepted, the review is approved, and the branch that is merged is that of the
  refused build (`project_workspaces.py:1266`;
  `doc/archive/specs/feature-spec.md:99`): a fix hangs below its checker and the
  review below the build, so no search along parents leads from one to the other.
  `GateAgrees` says that `main` holds the branch of the source that is found, as it
  was when merged, not that this is the source that was accepted; a branch that a
  lease made and nothing was delivered on merges as well.
- A checker escalates, its node is COMPLETED like any other, and the next stage
  starts (`ticket_handlers.py:5289`). `DownstreamWaitsForReview` is what holds.
- The rule against overlapping hires and replacements is checked at the request
  only: two open requests, or a freeze, a hire and a restore, pass it
  (`doc/todo/completed-capabilities.md:59`).

Of the runtime:

- The order in which candidates are asked is that of the binding, whatever the
  failover key names (`runtime.py:1861`; `doc/mainline-truth.md:90`).
- A success after a failover drops `verification_evidence_refs` and
  `git_commit_record` (`runtime.py:1764`), and the candidate's provider type is not
  passed on (`:1366`).
- The configuration file is rewritten in place, so a run may read half of it.
- What a command provider prints is parsed inside a handler that catches
  `ClaudeCodeProviderError` and `ValueError` (`runtime.py:1711`), and output that is no
  JSON object raises `OpenAICompatProviderBadResponseError`, which is neither
  (`:1346`, `:1356`). The loop of the run does not catch it either (`:2247`): the run is
  over and its ticket stays EXECUTING until its deadline, where
  `doc/backend-runtime-guide.md:261` has it fail as `PROVIDER_BAD_RESPONSE`. A process
  that cannot be started for another reason than a missing file ends the same way (an
  `OSError`, `provider_claude_code.py:48-103`).
- A run that meets an outage already logged for its ticket ends as well and leaves the
  ticket executing. `ExecutingIsDriven` is about everything but these two.

Of the CEO and the controller:

- An attempt that failed and was retried hides both signs by which idle
  maintenance finds work (`ceo_snapshot.py:51`; `doc/task-backlog/done.md:292`): a
  trigger lost to a crash is then never made up for.
- With an architect required and one on the staff, the closeout is proposed before
  the architect's document and rejected for the lack of it, for ever
  (`ceo_proposer.py:841`, `ceo_validator.py:305-360`; `doc/mainline-truth.md:77`).
- The fan-out to the backlog's items is proposed before the architect's gate
  (`ceo_proposer.py:506`; `doc/mainline-truth.md:21`, `:60`).
- A closeout may overtake items that were planned when triggers are lost, and a
  plan is lost when no planner is active; a snapshot shows 25 nodes
  (`ceo_snapshot.py:373`), so a larger workflow is judged by a part of it.
- The key of a hire makes it happen once per role and workflow.
- An exception in an early stage of `run_scheduler_once` skips the later ones, each
  time round.
- While nobody is active who can write the next document, the controller has no
  plan (`workflow_progression.py:121-147`), and the validator lets a live model
  create code, or any document (`ceo_validator.py:306-370`): `GovernanceInOrder`
  and `CodeAfterDocuments` hold for a staff that can write the chain.

Of meetings:

- The fix that follows a checker's refusal has no meeting context
  (`ticket_handlers.py:896-998`): it is written by a provider alone, and the
  approval after it never reaches the row, which stays CHECKER_PENDING.
  `BoardReadsTheMeeting` leaves such approvals out, and rows that an execution
  whose ticket was over has written after the checker.
- A meeting whose ticket is cancelled or fails for good stays OPEN, and its topic
  is blocked for ever; a topic is free again as soon as a meeting is CLOSED, before
  the checker and the board have seen it.
- Its own failed ticket is a source for another meeting: only the side of the
  approvals is guarded (`doc/mainline-truth.md:33`).
- Participants are not looked at again after the request; a candidate may be
  requested for a node that has a newer ticket by then; a retry of a meeting
  without consensus repeats the same rounds.

Of worker access:

- A plain revocation keeps the version: a request that has been checked and is
  about to open a session opens it. `EndedStaysEnded` is about sessions.
- A bootstrap request that was checked, then ended by a rotation, and whose binding is
  then cleaned up, inserts its session all the same (`worker_runtime.py:641-668`). The
  binding comes back with version 1 (`repository.py:936-949`), and if that is the
  version the request was checked at, the session that the rotation had ended is
  honoured. `EndedStaysEnded` leaves out the sessions that are `adrift` in this way,
  until a command ends their rows.
- A cleanup after a rotation removes a binding whose fresh token was not used yet;
  the token is refused afterwards, as the binding comes back with version 1.
- Revocations need an ACTIVE worker. A containment compares the counts of its
  preview, not the ids. A ticket in a scope without binding refuses the whole list
  of assignments. A submission does not compare `submitted_by` with the owner.

Of artifacts:

- The directory store keeps a body under its logical path (`artifact_store.py:95`):
  a ticket replaces the body of another's artifact. `ReadableHasBody` is about the
  object store.
- An invalid item after valid ones, or a crash before the commit, leaves bodies
  that no row names (`ticket_handlers.py:4907`); a crash after the body of an
  artifact is deleted leaves it ACTIVE without one.
- A ticket whose result names an artifact it imported before overwrites its body
  and, refused, deletes it; so do two submissions of one ticket at once.

## Proofs

Every safety property that a passing run checks is also a theorem, for every
value of the constants.

### The life of a ticket

For every set of nodes, employees and providers, every budget, threshold and
bound, from the assumptions `ProjectionAssumption` and `LifecycleAssumption`:

| Theorem | States | Under |
|---|---|---|
| `TypeCorrect`, `NodeRowsAgree`, `RunningOwnersActive` | `TypeOK`, `NodeMirrorsTicket`, `ExecutingOwnerActive` | |
| `BreakersFollow`, `ClosedByFollowup` | `BreakerFollowsIncident`, `ClosedOnlyByFollowup` | |
| `ContractRefined` | `ContractKept`: `TicketLifecycle` implements `TicketContract` | |
| `BudgetKept` | `OverBudgetOnlyByOperator`, an action property | |
| `OneExecution`, `NothingLost`, `OneBreaker` | `OneExecutionPerNode`, `NoTicketLost`, `OneBreakerPerCause` | `~ MayOperate` |
| `OneClaimEach` | `OneClaimPerWorker` | `"lease" \notin Commands` |
| `GatesStayOpen`, `BreakerStops` | `NeverAheadOfGates`, `TrippedNodeIdle` | both |

`MayOperate` says that incidents are resolved or the CEO retries. The hypotheses are
those of the runs that check the properties, and the code needs them: what goes wrong
without them is listed under "What does not hold" above.

The invariants form a chain, each inductive with the one before it.

- `IInv` adds three things to the first row of the table. `Consistent(store)` is the
  typed database with the agreement of its rows; each event keeps it, because the
  node row an event moves is the one of the ticket it moves, and a ticket is created
  again only for the node it has. `IncidentsNameTickets` is what recovery needs to
  know that it acts on a ticket at all. `FreezeReaches` says that while an employee is
  being frozen, all they still run is in the rest of the loop: `ExecutingOwnerActive`
  alone is not kept by `FreezeEnd`. Of the events only TICKET_STARTED makes a ticket
  run; the `Quiet` lemmas say so of each of the others, and a start has just read the
  worker's state under the lock.
- `JInv` adds the status of the tickets a loop has yet to come to (`LoopsKnow`), that a
  submission under way is of a ticket that exists (`SubmissionsExist`), and that a ticket
  whose latest outcome is its completion is COMPLETED or CANCELLED (`CompletedStays`): an
  incident is closed by the completion of its follow-up, and later events must not undo
  that.
- `KInv` adds `HeldByNode`: what is queued, claimed or running is what its node row
  points at. Recovery breaks it, as it does not ask whether its ticket is the latest.
  A late result may pass over it, and `LateStopping` says that one comes only to a node
  that was asked to stop.
  `TickSees` relates an incident that opened since the tick began to the nodes the tick
  remembers: without it a tick that reads old projections could open a second one.
- `LInv` adds that parents exist, and the two properties themselves: a gate that is open
  stays open when nothing completed is reopened, and a node under a breaker is idle
  from the moment the breaker opens.

Above `JInv` the proofs seldom look at a handler. Every step changes the store by at
most two events (`StoreStep`): a ticket is queued, queued again, claimed, started, asked
to stop, cancelled or ended, and the second event queues one (`Moves`, `TwoEvents`). That
each handler does so is proved once; the refinement, the budget and the invariants above
follow from the moves alone. A move is one step of `TicketContract` for one ticket, which
is what `ContractRefined` says.

### Reviews

From `ProjectionAssumption` and `RoutingAssumption`, for every set of nodes, workers and
findings, every review a node may ask for, all budgets and thresholds:

| Theorem | States |
|---|---|
| `RoutingTypes`, `BoardQueue`, `DownstreamWaits` | `TypeOK`, `BoardQueueAgrees`, `DownstreamWaitsForReview` |
| `ReviewRefined` | `ContractKept`: `ReviewRouting` implements `ReviewContract` |
| `GateKept` | `GateAgrees` |
| `FixLoopEnds`, `RepeatsEnd` | `ReworkBounded`, `RepeatsEscalate` |
| `FixesGetFreshEyes` | `FreshEyes`, an action property, where no node is upstream of itself |

`RouteInv` is the well-formed store (`StoreFine`: rows that agree, payloads that refer to
tickets that exist and, in a check or a fix, to a deliverable that is complete), the board's
queue (`BoardFine`), a node upstream that is finished for every ticket that runs
(`UpstreamFine`), what a finished node shows (`DoneFine`), and an approval between its
merge and its commit, which is still the one the board may decide. As above a handler is
reduced to what it does to the store: a ticket turns to a status, for a reason
(`Turn`, `Happens`), and another may be created because of it (`Put`, `FollowedBy`). The
stage of a node is a function of its rows, and each of those pairs moves it at most along
one edge of `ReviewContract`. A node row shows its latest ticket (`Shows`), except that a
check before the board that was completed without a verdict leaves it as it ran (`Stuck`).

The other four theorems are about what is computed along the parents: the source
behind a ticket, the cycle, the lineage, the row of fixes. A ticket's parent has a smaller
number, every set of numbers has a least one, and so the recursive functions are
well defined (`ChainFunction`) and what every ticket gets from those before it all
tickets get (`TicketsUpTo`). On that basis:

- `GateInv`: an approval that waits for its commit has its source in `main`, and the source
  of a ticket never changes, as parents and kinds are never rewritten.
- `LinkInv` says of every ticket how it came about, in terms of its payload and its
  parent alone: it was created, retries its parent, checks it, or mends what it refused.
  That is what the payloads carry in place of a history. `FreshEyes`, `ReworkBounded` and
  `RepeatsEscalate` then need no further induction over steps, only one over the lineage:
  a fix excludes all who were refused before it; the cycle counts at least the fixes of
  the node; the streak is at least the row it stands for.

### The other components

Of the runs, from `RuntimeAssumption` and `ProviderAssumption`: `OneDriver`
(`OneDriverPerTicket`) and `ExecutionDriven` (`ExecutingIsDriven`), for any number of runs,
workers and tickets, whatever is configured; the second with the exceptions named under
"What does not hold". `RInv` says of each phase of a run what it
holds (`RunFine`), and that a ticket a run holds has been started (`HeldIsStarted`), so no
other run can start it: the start reads the row under the lock.

`EachProviderOnce` (`NoProviderCalledTwice`) is about the selection itself. A run reads
the configuration twice, and the candidates of the second reading stand in for a primary
of the first. They are put together by a fold; `FoldExists` says that such a fold is a
function over the sets of positions and that it keeps what each of its steps keeps, here
that the list names no provider twice and never the primary's (`FailoversAreNew`).
`CallsFine` carries this over the calls: a run that waits for a candidate has called none
of those left. Assumed of a configuration is that its bindings and fallbacks are lists and
that its entries are of providers.

Of the CEO and the controller, from `WorkflowAssumption`: `OneTicketPerNode`
(`CreatedOnce`), `DocumentsInOrder` (`GovernanceInOrder`) and `CodeComesLast`
(`CodeAfterDocuments`) under `DocsStaffed`, `CloseoutAfterDelivery` (`CloseoutHasEvidence`)
without a live model. `CInv` says that what a node needs (`Needs`) holds of the completed
tickets, which only grow, from the snapshot (`ViewFine`) over the batch (`BatchFine`) to
every node that exists: so an old snapshot is as good as a new one. `DocsStaffed` is that
somebody on the initial staff can write each document: the first role of every entry of
`_GOVERNANCE_ROLE_PRIORITY_BY_SCHEMA` (`workflow_progression.py:27`) is that of the
engineer of the default roster (`persona_profiles.py:345`).

Of meetings, for every set of nodes, employees and topics, from
`MeetingAssumption`:

- `TopicsApart`: `Spec => []OneOpenPerTopic`
- `SourcesApart`: `Spec => []OneMeetingPerSource`
- `BoardDecidesOnConsensus`: `Spec => []BoardReadsTheMeeting`

The first two are inductive with the types of the rows. The third needs what relates
a row to a ticket that no foreign key relates: a closed meeting had all its rounds
(`ClosedHadAllRounds`); a ticket that holds the meeting has its context
(`FirstWorkLinked`); a check or a fix exists only of a consensus
(`LaterWorkIsClosed`); an execution is of the latest ticket or of an earlier one, and
what it completed is in the row (`RunsAgree`); and nothing follows the check that
asked the board (`ApprovalIsLast`).

Of worker access, from `WorkerAccessAssumption`, for any number of requests:

- `EndedSessionsStayEnded`: `Spec => []EndedStaysEnded`
- `ListedTokensOpen`: `Spec => []ListedIssueOpens`

A session that was ended is revoked for good, as a refresh keeps a revoked row
revoked, or it was opened by a request from before a rotation and has an older
version than its binding (`EndedIsOld`), or it is adrift. For that, a request that is
still to open a session has a version of at most its binding's unless it is adrift
(`OpeningIsCurrent`), and no request refreshes a session that was ended without being
revoked (`RefreshIsSafe`).

Of artifacts, from `ArtifactAssumption` and `RowAssumption`:

- `UploadsAreConsumedOnce`: `Spec => []ConsumedOnce`, in either kind of store
- `ReadableIsThere`: `~Local` implies `Spec => []ReadableHasBody`: the object store

The first needs that a COMPLETED session has been put together whole
(`CompletedIsWhole`), unless an abort deleted its payload and crashed before it wrote
the row. For the second, the bodies of a submission that is on its way are in
the store unless somebody else's row has taken the ref (`BodiesWritten`), a result
names no ref twice (`RefsApart`), and keys of different tickets or refs differ, so
that a deletion or a cleanup takes away no body but its own. What a submission
writes over a body of its own ticket is noted in `spoiled` and left out of the
property. In the local store artifacts of the same path share one body, and the second
theorem does not hold of it.

### What stays with TLC

`EveryExecutionEnds`, `EveryReviewEnds`, `EveryRunEnds`, `Closes` and `CleanupCatchesUp` are
liveness under fairness: they need ENABLED and well-founded arguments over behaviours,
which the prover does not have.

## Not modelled

- The log as a log: idempotency keys (except where a retry, an incident or a hire
  depends on one), sequence numbers, the event stream that reads after a cursor.
  Every handler appends and folds in one transaction, and the modules take the fold.
- The context compiler, read models, catalogues, prompts, schemas and the frontend:
  functions of what they read, with no state of their own.
- Requirement elicitation, scope follow-ups and staffing approvals of the board, and
  what the CEO delegate decides: forms whose effect is a ticket or an employee that
  the modules create by other actions.
- The heartbeat thread of a run, worktrees, dossiers and notes of a workspace, the
  operators' own tokens and their audit.
