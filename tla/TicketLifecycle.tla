--------------------------- MODULE TicketLifecycle ---------------------------
(***************************************************************************)
(* The ticket command handlers (core/ticket_handlers.py), the scheduler    *)
(* tick, incident recovery and staffing containment, over the projections  *)
(* of TicketProjection.                                                    *)
(*                                                                         *)
(* A handler runs inside one `BEGIN IMMEDIATE` transaction, so handlers    *)
(* exclude each other.  A handler that changes at most one ticket besides  *)
(* the one it creates is one action.  A handler that loops over tickets    *)
(* (the tick, freeze, restore, the recreation of pending descendants)      *)
(* takes the lock `txn`, does one ticket per step and releases it; every   *)
(* other action waits for the lock.  The one handler that is not atomic in *)
(* the code, the submission of a result, reads the projections before its  *)
(* transaction: `attempt` holds what it read.                              *)
(***************************************************************************)
EXTENDS TicketProjection, FiniteSets

CONSTANTS
  Providers, NoProvider,
  ProviderOf,        \* the provider an employee runs on
  EnabledProviders,  \* providers the runtime configuration enables
  NamedProviders,    \* providers a failure detail may name
  RetryBudget,       \* retry_budget of every ticket
  TimeoutThreshold, FailureThreshold,  \* streaks that open an incident
  RetriesTimeouts,   \* escalation_policy.on_timeout = retry
  EscalatesRepeats,  \* escalation_policy.on_repeat_failure = escalate_ceo
  NotRetried,        \* failure kinds the escalation policy does not retry
  MaxDispatches,     \* max_dispatches of a tick
  Commands,          \* the commands clients send in this instance
  Assignees, ParentChoices, GateChoices,  \* what a created ticket may name
  ExtraWorkers,      \* the `workers` lists a tick may be called with
  Clocks,            \* the deadlines that pass in this instance
  MaxCreates, MaxIncidents  \* exploration bounds

ASSUME LifecycleAssumption ==
  /\ NoProvider \notin Providers
  /\ ProviderOf \in [Employees -> Providers \cup {NoProvider}]
  /\ EnabledProviders \subseteq Providers
  /\ NamedProviders \subseteq Providers
  /\ RetryBudget \in Nat
  /\ TimeoutThreshold \in Nat /\ FailureThreshold \in Nat
  /\ RetriesTimeouts \in BOOLEAN /\ EscalatesRepeats \in BOOLEAN
  /\ NotRetried \subseteq OrdinaryKinds
  /\ MaxDispatches \in Nat
  /\ Assignees \subseteq Employees
  /\ ParentChoices \subseteq Tickets
  /\ GateChoices \subseteq SUBSET Tickets
  /\ ExtraWorkers \subseteq SUBSET Employees
  /\ Clocks \subseteq Deadlines
  /\ MaxCreates \in Nat /\ MaxIncidents \in Nat

VARIABLES
  store,     \* ticket_projection, node_projection, and the log facts behind them
  incident,  \* incident_projection
  employee,  \* employee_projection.state
  attempt,   \* what a result submission in flight read of its ticket
  retried,   \* tickets whose CEO retry idempotency key is in the log
  txn        \* the looping handler that holds the write lock, if any

vars == <<store, incident, employee, attempt, retried, txn>>

Incidents == 1 .. MaxIncidents

IncidentTypes == {"TIMEOUT", "FAILURE", "PROVIDER", "STAFFING"}

NoIncident ==
  [status |-> "NONE", breaker |-> "NONE", type |-> "NONE", ticket |-> NoTicket,
   provider |-> NoProvider, followup |-> NoTicket]

IncidentRows ==
  [status : {"NONE", "OPEN", "RECOVERING", "CLOSED"},
   breaker : {"NONE", "OPEN", "CLOSED"},
   type : IncidentTypes \cup {"NONE"}, ticket : Tickets \cup {NoTicket},
   provider : Providers \cup {NoProvider}, followup : Tickets \cup {NoTicket}]

Idle ==
  [op |-> "none", todo |-> {}, who |-> NoOne, extra |-> {}, tripped |-> {},
   room |-> 0, instead |-> [t \in Tickets |-> NoTicket]]

Transactions ==
  [op : {"none", "time out", "dispatch", "freeze", "restore", "recreate"},
   todo : SUBSET Tickets, who : Employees \cup {NoOne},
   extra : SUBSET Employees, tripped : SUBSET Nodes,
   room : 0 .. MaxDispatches,
   instead : [Tickets -> Tickets \cup {NoTicket}]]

TypeOK ==
  /\ store \in Databases
  /\ incident \in [Incidents -> IncidentRows]
  /\ employee \in [Employees -> {"ACTIVE", "FROZEN"}]
  /\ attempt \in [Tickets -> {"none", "late", "work"}]
  /\ retried \in SUBSET Tickets
  /\ txn \in Transactions

Init ==
  /\ store = EmptyDatabase
  /\ incident = [i \in Incidents |-> NoIncident]
  /\ employee = [e \in Employees |-> "ACTIVE"]
  /\ attempt = [t \in Tickets |-> "none"]
  /\ retried = {}
  /\ txn = Idle

Unlocked == txn.op = "none"

Accepts(command) == Unlocked /\ command \in Commands

-----------------------------------------------------------------------------
(* Incidents and their circuit breakers.                                   *)

FreeIncidents == {i \in Incidents : incident[i].status = "NONE"}
FreshIncidents == {i \in FreeIncidents : \A j \in FreeIncidents : i <= j}

Tripped(i) == incident[i].status = "OPEN" /\ incident[i].breaker = "OPEN"

(* An incident carries the node of its ticket, provider incidents too.     *)
OnNode(i, n) == incident[i].status # "NONE" /\ NodeOf(store, incident[i].ticket) = n

(* Mutant: a breaker counts only when no timeout opened it.              *)
NodePaused_NotByTimeout(n) ==
  \E i \in Incidents : Tripped(i) /\ OnNode(i, n) /\ incident[i].type # "TIMEOUT"

NodePaused(n) == \E i \in Incidents : Tripped(i) /\ OnNode(i, n)

ProviderPaused(p) ==
  p # NoProvider /\ \E i \in Incidents : Tripped(i) /\ incident[i].provider = p

(* Mutant: incidents under recovery are seen, open ones are not.         *)
NodesWithOpenIncident_Recovering ==
  {n \in Nodes : \E i \in Incidents : incident[i].status = "RECOVERING" /\ OnNode(i, n)}

NodesWithOpenIncident ==
  {n \in Nodes : \E i \in Incidents : incident[i].status = "OPEN" /\ OnNode(i, n)}

(* INCIDENT_OPENED and CIRCUIT_BREAKER_OPENED.                             *)
OpenIncident(type, t, p) ==
  \E i \in FreshIncidents :
    incident' = [incident EXCEPT ![i] =
      [status |-> "OPEN", breaker |-> "OPEN", type |-> type, ticket |-> t,
       provider |-> p, followup |-> NoTicket]]

(* Mutant: the recovery starts and the breaker stays open.               *)
StartRecovery_BreakerLeft(i, followup) ==
  incident' = [incident EXCEPT ![i] = [@ EXCEPT !.status = "RECOVERING", !.followup = followup]]

(* CIRCUIT_BREAKER_CLOSED and INCIDENT_RECOVERY_STARTED.                   *)
StartRecovery(i, followup) ==
  incident' = [incident EXCEPT ![i] = [@ EXCEPT !.status = "RECOVERING", !.breaker = "CLOSED",
                                                !.followup = followup]]

-----------------------------------------------------------------------------
(* Commands on one ticket.                                                 *)

Creations == {t \in Tickets : Exists(store, t) /\ store.spec[t].retries = 0}

(* Mutant: a node asked to stop is free.                                 *)
NodeTakesTicket_Stopping(n) ==
  store.nodeStatus[n] \in {"NONE", "REWORK_REQUIRED", "CANCEL_REQUESTED"}

(* Mutant: a node whose ticket is queued is free.                        *)
NodeTakesTicket_Queued(n) ==
  store.nodeStatus[n] \in {"NONE", "REWORK_REQUIRED", "PENDING"}

(* Mutant: a node that is done is free.                                  *)
NodeTakesTicket_Done(n) ==
  store.nodeStatus[n] \in {"NONE", "REWORK_REQUIRED", "COMPLETED"}

(* A node takes a new ticket only when it has none or its last one failed. *)
NodeTakesTicket(n) == store.nodeStatus[n] \in {"NONE", "REWORK_REQUIRED"}

(* handle_ticket_create.                                                   *)
CreateTicket(t, n, p, gates, a, staged) ==
  /\ Accepts("create")
  /\ Cardinality(Creations) < MaxCreates
  /\ t \in FreshIds(store)
  /\ NodeTakesTicket(n)
  /\ a # NoOne => employee[a] = "ACTIVE"
  /\ \A g \in gates : g # t /\ Exists(store, g)
  /\ p # NoTicket => Exists(store, p)
  /\ store' = TicketCreated(store, t,
                [Blank(n) EXCEPT !.parent = p, !.gates = gates,
                                 !.assignee = a, !.staged = staged])
  /\ UNCHANGED <<incident, employee, attempt, retried, txn>>

Create ==
  \E t \in Tickets, n \in Nodes, p \in ParentChoices \cup {NoTicket},
     gates \in GateChoices \cup {{}}, a \in Assignees \cup {NoOne} :
       CreateTicket(t, n, p, gates, a, p # NoTicket)

(* handle_ticket_lease: by hand, without the scheduler's other checks.     *)
Lease(t, e) ==
  /\ Accepts("lease")
  /\ Exists(store, t) /\ IsLatest(store, t)
  /\ \/ store.status[t] = "PENDING"
     \/ /\ store.status[t] = "LEASED"
        /\ "lease" \in store.overdue[t] \/ store.owner[t] = e
  /\ employee[e] = "ACTIVE"
  /\ ~ ProviderPaused(ProviderOf[e])
  /\ store' = TicketLeased(store, t, e)
  /\ UNCHANGED <<incident, employee, attempt, retried, txn>>

(* handle_ticket_start.                                                    *)
Start(t, e) ==
  /\ Unlocked
  /\ Exists(store, t) /\ IsLatest(store, t)
  /\ store.nodeStatus[NodeOf(store, t)] = "PENDING"
  /\ store.status[t] = "LEASED"
  /\ store.owner[t] = e
  /\ "lease" \notin store.overdue[t]
  /\ employee[e] = "ACTIVE"
  /\ ProviderPaused(ProviderOf[e]) => ProviderOf[e] \in EnabledProviders
  /\ store' = TicketStarted(store, t)
  /\ UNCHANGED <<incident, employee, attempt, retried, txn>>

(* handle_ticket_heartbeat, reported by the lease owner.                   *)
Heartbeat(t) ==
  /\ Unlocked
  /\ Executing(store, t)
  /\ "heartbeat" \notin store.overdue[t]
  /\ store' = HeartbeatRecorded(store, t)
  /\ UNCHANGED <<incident, employee, attempt, retried, txn>>

(* handle_ticket_cancel: a running ticket is asked to stop, any other live *)
(* one is cancelled at once.                                               *)
Cancel(t) ==
  /\ Accepts("cancel")
  /\ Exists(store, t) /\ IsLatest(store, t)
  /\ store.status[t] \notin DeadStatus
  /\ store' = IF store.status[t] = "EXECUTING"
              THEN TicketCancelRequested(store, t)
              ELSE TicketCancelled(store, t)
  /\ UNCHANGED <<incident, employee, attempt, retried, txn>>

-----------------------------------------------------------------------------
(* Failure and completion.                                                 *)

(* Mutant: one retry too many.                                           *)
BudgetLeft_OneMore(t) == store.spec[t].retries <= RetryBudget

BudgetLeft(t) == store.spec[t].retries < RetryBudget

(* _schedule_retry: the next attempt, created in the same transaction.     *)
ScheduleRetry(db, t, n) == TicketCreated(db, n, RetrySpec(db, t))

RetriesFailure(t, kind) == BudgetLeft(t) /\ kind \notin NotRetried

EscalatesFailure(db, t, kind) ==
  /\ EscalatesRepeats /\ kind \notin ProviderKinds
  /\ Streak(db, t, {kind}) >= FailureThreshold

FailingProvider(t, named) ==
  IF named # NoProvider THEN named
  ELSE IF store.owner[t] = NoOne THEN NoProvider ELSE ProviderOf[store.owner[t]]

PausesProvider(t, kind, named) ==
  kind \in ProviderKinds /\ FailingProvider(t, named) # NoProvider

(* handle_ticket_fail: after TICKET_FAILED exactly one of: pause the       *)
(* provider, open the breaker of the node, retry, or stop there.           *)
FailTicket(t, kind, named) ==
  /\ Unlocked
  /\ Executing(store, t)
  /\ LET db == TicketFailed(store, t, kind)
         p  == FailingProvider(t, named)
     IN \/ /\ PausesProvider(t, kind, named)
           /\ store' = db
           /\ IF \E i \in Incidents : incident[i].status = "OPEN"
                                        /\ incident[i].provider = p
              THEN UNCHANGED incident
              ELSE OpenIncident("PROVIDER", t, p)
        \/ /\ ~ PausesProvider(t, kind, named)
           /\ EscalatesFailure(db, t, kind)
           /\ store' = db
           /\ IF NodeOf(store, t) \in NodesWithOpenIncident
              THEN UNCHANGED incident
              ELSE OpenIncident("FAILURE", t, NoProvider)
        \/ /\ ~ PausesProvider(t, kind, named)
           /\ ~ EscalatesFailure(db, t, kind)
           /\ UNCHANGED incident
           /\ IF RetriesFailure(t, kind)
              THEN \E n \in FreshIds(db) : store' = ScheduleRetry(db, t, n)
              ELSE store' = db
  /\ UNCHANGED <<employee, retried, txn>>

Fail(t, kind, named) == FailTicket(t, kind, named) /\ UNCHANGED attempt

(* Mutant: any ticket of the node ends the recovery.                     *)
WaitsFor_AnyOfNode(i, t) ==
  incident[i].status = "RECOVERING" /\ OnNode(i, NodeOf(store, t))

(* list_recovering_incidents_for_followup_ticket.                          *)
WaitsFor(i, t) ==
  incident[i].status = "RECOVERING" /\ incident[i].followup = t

(* Mutant: the transaction trusts what was read before it.               *)
CompleteTicket_NotReadAgain(t) ==
  /\ Unlocked
  /\ Exists(store, t)
  /\ store' = TicketCompleted(store, t)
  /\ UNCHANGED <<incident, employee, retried, txn>>

(* _complete_ticket_locked for a ticket without a review request; the      *)
(* recovering incidents that waited for this ticket are closed.            *)
CompleteTicket(t) ==
  /\ Unlocked
  /\ Executing(store, t)
  /\ store' = TicketCompleted(store, t)
  /\ incident' = [i \in Incidents |->
       IF WaitsFor(i, t) THEN [incident[i] EXCEPT !.status = "CLOSED"]
       ELSE incident[i]]
  /\ UNCHANGED <<employee, retried, txn>>

Complete(t) == CompleteTicket(t) /\ UNCHANGED attempt

(* handle_ticket_result_submit, before its transaction: it reads the       *)
(* projections and decides from them which way the result goes.            *)
CancelPending(t) ==
  \/ store.status[t] = "CANCEL_REQUESTED"
  \/ store.nodeStatus[NodeOf(store, t)] = "CANCEL_REQUESTED"

SubmitRead(t) ==
  /\ Accepts("submit")
  /\ attempt[t] = "none"
  /\ Exists(store, t) /\ store.status[t] # "CANCELLED"
  /\ \/ CancelPending(t) /\ attempt' = [attempt EXCEPT ![t] = "late"]
     \/ /\ ~ CancelPending(t)
        /\ store.status[t] = "EXECUTING"
        /\ store.nodeStatus[NodeOf(store, t)] = "EXECUTING"
        /\ attempt' = [attempt EXCEPT ![t] = "work"]
  /\ UNCHANGED <<store, incident, employee, retried, txn>>

Submitted(t, path) ==
  attempt[t] = path /\ attempt' = [attempt EXCEPT ![t] = "none"]

(* The late result of a cancelled execution: nothing is read again.        *)
SubmitLate(t) ==
  /\ Unlocked
  /\ Submitted(t, "late")
  /\ store' = TicketCancelled(store, t)
  /\ UNCHANGED <<incident, employee, retried, txn>>

SubmitFail(t, kind, named) == Submitted(t, "work") /\ FailTicket(t, kind, named)

SubmitComplete(t) == Submitted(t, "work") /\ CompleteTicket(t)

(* Rejected by the transaction, or the process died before it.             *)
SubmitDropped(t) ==
  /\ Unlocked
  /\ Submitted(t, attempt[t]) /\ attempt[t] # "none"
  /\ UNCHANGED <<store, incident, employee, retried, txn>>

(* handle_retry_ticket_from_ceo: within the budget, once per ticket.       *)
CeoRetry(t) ==
  /\ Accepts("ceo retry")
  /\ t \notin retried
  /\ store.status[t] \in {"FAILED", "TIMED_OUT"}
  /\ \/ /\ store.outcome[t] = "TIMED_OUT"
        /\ BudgetLeft(t) /\ RetriesTimeouts
     \/ store.outcome[t] \in FailureKinds /\ RetriesFailure(t, store.outcome[t])
  /\ \E n \in FreshIds(store) : store' = ScheduleRetry(store, t, n)
  /\ retried' = retried \cup {t}
  /\ UNCHANGED <<incident, employee, attempt, txn>>

-----------------------------------------------------------------------------
(* The scheduler tick: time out what is overdue, then dispatch.            *)

(* Mutant: only missed heartbeats time a ticket out.                     *)
Overdue_HeartbeatOnly ==
  {t \in Tickets : store.status[t] = "EXECUTING" /\ "heartbeat" \in store.overdue[t]}

Overdue == {t \in Tickets : /\ store.status[t] = "EXECUTING"
                            /\ store.overdue[t] \cap {"sla", "heartbeat"} # {}}

(* The incidents a tick looks up are those of the projection it started    *)
(* from: what its own timeouts open is not rebuilt before they end.        *)
TickBegin(extra) ==
  /\ Unlocked
  /\ extra \in ExtraWorkers \cup {{}}
  /\ Cardinality(Overdue) <= Cardinality(FreeIds(store))
  /\ Cardinality(Overdue) <= Cardinality(FreeIncidents)
  /\ txn' = [Idle EXCEPT !.op = "time out", !.todo = Overdue, !.extra = extra,
                         !.tripped = NodesWithOpenIncident]
  /\ UNCHANGED <<store, incident, employee, attempt, retried>>

EscalatesTimeout(db, t) == Streak(db, t, {"TIMED_OUT"}) >= TimeoutThreshold

(* Tickets over their SLA go first, then those that missed a heartbeat.    *)
TimeOut(t) ==
  /\ txn.op = "time out" /\ t \in txn.todo
  /\ \/ "sla" \in store.overdue[t]
     \/ \A u \in txn.todo : "sla" \notin store.overdue[u]
  /\ LET db == TicketTimedOut(store, t)
     IN \/ /\ EscalatesTimeout(db, t)
           /\ store' = db
           /\ IF NodeOf(store, t) \in txn.tripped
              THEN UNCHANGED incident
              ELSE OpenIncident("TIMEOUT", t, NoProvider)
        \/ /\ ~ EscalatesTimeout(db, t)
           /\ UNCHANGED incident
           /\ IF BudgetLeft(t) /\ RetriesTimeouts
              THEN \E n \in FreshIds(db) : store' = ScheduleRetry(db, t, n)
              ELSE store' = db
  /\ txn' = [txn EXCEPT !.todo = @ \ {t}]
  /\ UNCHANGED <<employee, attempt, retried>>

Dispatchable ==
  {t \in Tickets : \/ store.status[t] = "PENDING"
                   \/ store.status[t] = "LEASED" /\ "lease" \in store.overdue[t]}

DispatchBegin ==
  /\ txn.op = "time out" /\ txn.todo = {}
  /\ txn' = [txn EXCEPT !.op = "dispatch", !.todo = Dispatchable,
                        !.room = MaxDispatches]
  /\ UNCHANGED <<store, incident, employee, attempt, retried>>

(* Mutant: a worker with a lease is not busy before it starts.           *)
Busy_RunningOnly ==
  {store.owner[t] : t \in {u \in Tickets : store.status[u] = "EXECUTING"}}

Busy ==
  {store.owner[t] : t \in {u \in Tickets :
     \/ store.status[u] = "EXECUTING"
     \/ store.status[u] = "LEASED" /\ "lease" \notin store.overdue[u]}}

Candidates == {e \in Employees : employee[e] = "ACTIVE"} \cup txn.extra

(* _evaluate_delivery_stage_parent_dependency.                             *)
AwaitsParent(t) ==
  LET p == store.spec[t].parent
  IN store.spec[t].staged /\ p # NoTicket /\ NodeOf(store, p) # NodeOf(store, t)
     /\ store.nodeStatus[NodeOf(store, p)] # "COMPLETED"

ParentLost(t) ==
  LET p == store.spec[t].parent
  IN /\ AwaitsParent(t)
     /\ \/ store.nodeStatus[NodeOf(store, p)] = "CANCELLED"
        \/ IsLatest(store, p) /\ store.status[p] = "CANCELLED"

GateLost(t) ==
  \E g \in store.spec[t].gates :
    store.status[g] \in {"NONE", "FAILED", "TIMED_OUT", "CANCELLED"}

AwaitsGate(t) ==
  \E g \in store.spec[t].gates : store.status[g] \in LiveStatus

(* What run_scheduler_tick checks before it looks at a ticket's gates.     *)
MayDispatch(t) ==
  /\ IsLatest(store, t)
  /\ store.nodeStatus[NodeOf(store, t)] = "PENDING"
  /\ ~ NodePaused(NodeOf(store, t))

Selectable(t, e) ==
  /\ e \in Candidates /\ e \notin Busy /\ e \notin store.spec[t].excluded
  /\ ~ ProviderPaused(ProviderOf[e])
  /\ store.spec[t].assignee # NoOne =>
       e = store.spec[t].assignee /\ employee[e] = "ACTIVE"

AssigneeLost(t) ==
  LET a == store.spec[t].assignee
  IN /\ a # NoOne /\ employee[a] # "ACTIVE"
     /\ a \in Candidates /\ a \notin Busy /\ a \notin store.spec[t].excluded

GatesOpen(t) ==
  ~ AwaitsParent(t) /\ \A g \in store.spec[t].gates : store.status[g] = "COMPLETED"

Considered(t) ==
  /\ txn.op = "dispatch" /\ t \in txn.todo /\ txn.room > 0
  /\ UNCHANGED <<incident, employee, attempt, retried>>

Dispatch(t, e) ==
  /\ Considered(t)
  /\ MayDispatch(t) /\ GatesOpen(t) /\ Selectable(t, e)
  /\ store' = TicketLeased(store, t, e)
  /\ txn' = [txn EXCEPT !.todo = @ \ {t}, !.room = @ - 1]

(* TICKET_FAILED by the scheduler: no streak, no incident, no retry.       *)
DispatchFail(t) ==
  /\ Considered(t)
  /\ MayDispatch(t)
  /\ \/ ParentLost(t)
     \/ ~ AwaitsParent(t) /\ GateLost(t)
     \/ GatesOpen(t) /\ AssigneeLost(t)
  /\ store' = TicketFailed(store, t, DispatchInvalid)
  /\ txn' = [txn EXCEPT !.todo = @ \ {t}]

(* The ticket stays as it is until another tick.                           *)
DispatchSkip(t) ==
  /\ Considered(t)
  /\ \/ ~ MayDispatch(t)
     \/ AwaitsParent(t) /\ ~ ParentLost(t)
     \/ ~ AwaitsParent(t) /\ AwaitsGate(t)
     \/ /\ GatesOpen(t) /\ ~ AssigneeLost(t)
        /\ \A e \in Employees : ~ Selectable(t, e)
  /\ txn' = [txn EXCEPT !.todo = @ \ {t}]
  /\ UNCHANGED store

TickEnd ==
  /\ txn.op = "dispatch" /\ (txn.todo = {} \/ txn.room = 0)
  /\ txn' = Idle
  /\ UNCHANGED <<store, incident, employee, attempt, retried>>

-----------------------------------------------------------------------------
(* handle_incident_resolve.                                                *)

Resolvable(i) == Accepts("resolve") /\ Tripped(i)

(* RESTORE_ONLY: for every type, and nothing is waited for.                *)
RestoreOnly(i) ==
  /\ Resolvable(i)
  /\ StartRecovery(i, NoTicket)
  /\ UNCHANGED <<store, employee, attempt, retried, txn>>

(* The action must fit the incident and the ticket's last terminal event.  *)
RetryFits(i) ==
  LET o == store.outcome[incident[i].ticket]
  IN \/ incident[i].type = "TIMEOUT"  /\ o = "TIMED_OUT"
     \/ incident[i].type = "FAILURE"  /\ o \in FailureKinds \ ProviderKinds
     \/ incident[i].type = "PROVIDER" /\ o \in ProviderKinds

Pending == {t \in Tickets : store.status[t] = "PENDING"}

(* RESTORE_AND_RETRY_LATEST_*: the breaker closes and a retry is scheduled, *)
(* whatever budget is left; then every queued ticket is looked at, for the *)
(* follow-up replaces the whole lineage as a parent.                       *)
RestoreAndRetry(i) ==
  LET t == incident[i].ticket
  IN /\ Resolvable(i) /\ RetryFits(i)
     /\ Cardinality(Pending) < Cardinality(FreeIds(store))
     /\ \E n \in FreshIds(store) :
          /\ store' = ScheduleRetry(store, t, n)
          /\ StartRecovery(i, n)
          /\ txn' = IF Pending = {} THEN Idle
                    ELSE [Idle EXCEPT !.op = "recreate", !.todo = Pending,
                            !.instead = [u \in Tickets |->
                              IF u \in Lineage(store, t) THEN n ELSE NoTicket]]
     /\ UNCHANGED <<employee, attempt, retried>>

(* A queued ticket whose parent was replaced is cancelled and created      *)
(* again under a new id, with the replacement as its parent.  One that     *)
(* comes before its parent in the order of the loop is passed over.        *)
Replaced(t) ==
  store.spec[t].parent # NoTicket /\ txn.instead[store.spec[t].parent] # NoTicket

Recreate(t) ==
  /\ txn.op = "recreate" /\ t \in txn.todo /\ Replaced(t)
  /\ \E n \in FreshIds(store) :
       /\ store' = TicketCreated(TicketCancelled(store, t), n,
                     [store.spec[t] EXCEPT !.parent = txn.instead[@]])
       /\ txn' = IF txn.todo = {t} THEN Idle
                 ELSE [txn EXCEPT !.todo = @ \ {t}, !.instead[t] = n]
  /\ UNCHANGED <<incident, employee, attempt, retried>>

RecreateSkip(t) ==
  /\ txn.op = "recreate" /\ t \in txn.todo /\ ~ Replaced(t)
  /\ txn' = IF txn.todo = {t} THEN Idle ELSE [txn EXCEPT !.todo = @ \ {t}]
  /\ UNCHANGED <<store, incident, employee, attempt, retried>>

(* RESTORE_AND_RETRY_LATEST_STAFFING_CONTAINMENT: the contained attempt is *)
(* cancelled and a copy of its spec created, its retry count unchanged.    *)
RecoverContained(i) ==
  LET t == incident[i].ticket
      db == IF store.status[t] = "CANCEL_REQUESTED"
            THEN TicketCancelled(store, t) ELSE store
  IN /\ Resolvable(i) /\ incident[i].type = "STAFFING"
     /\ store.status[t] \in {"CANCEL_REQUESTED", "CANCELLED"}
     /\ \E n \in FreshIds(store) :
          /\ store' = TicketCreated(db, n, [store.spec[t] EXCEPT !.parent = t])
          /\ StartRecovery(i, n)
     /\ UNCHANGED <<employee, attempt, retried, txn>>

-----------------------------------------------------------------------------
(* Staffing containment: employee freeze and restore.  The employee event  *)
(* of the code comes first, but nothing reads it before the commit.        *)

(* Mutant: a freeze takes back the leases and leaves what runs.          *)
Owned_LeasedOnly(e) ==
  {t \in Tickets : store.owner[t] = e /\ store.status[t] = "LEASED"}

Owned(e) ==
  {t \in Tickets : /\ store.owner[t] = e
                   /\ store.status[t] \in {"LEASED", "EXECUTING", "CANCEL_REQUESTED"}}

FreezeBegin(e) ==
  /\ Accepts("freeze")
  /\ employee[e] = "ACTIVE"
  /\ Cardinality(Owned(e)) <= Cardinality(FreeIncidents)
  /\ txn' = [Idle EXCEPT !.op = "freeze", !.todo = Owned(e), !.who = e]
  /\ UNCHANGED <<store, incident, employee, attempt, retried>>

(* A leased ticket goes back to the queue, closed to the frozen worker.    *)
Requeue(t) ==
  /\ txn.op = "freeze" /\ t \in txn.todo
  /\ store.status[t] = "LEASED"
  /\ store' = TicketCreated(store, t,
                [store.spec[t] EXCEPT !.excluded = @ \cup {txn.who},
                                      !.frozenFor = txn.who])
  /\ txn' = [txn EXCEPT !.todo = @ \ {t}]
  /\ UNCHANGED <<incident, employee, attempt, retried>>

(* A running one is asked to stop and an incident opens on its node, also  *)
(* when one is open already.                                               *)
Contain(t) ==
  /\ txn.op = "freeze" /\ t \in txn.todo
  /\ store.status[t] \in {"EXECUTING", "CANCEL_REQUESTED"}
  /\ store' = IF store.status[t] = "EXECUTING"
              THEN TicketCancelRequested(store, t) ELSE store
  /\ OpenIncident("STAFFING", t, NoProvider)
  /\ txn' = [txn EXCEPT !.todo = @ \ {t}]
  /\ UNCHANGED <<employee, attempt, retried>>

FreezeEnd ==
  /\ txn.op = "freeze" /\ txn.todo = {}
  /\ employee' = [employee EXCEPT ![txn.who] = "FROZEN"]
  /\ txn' = Idle
  /\ UNCHANGED <<store, incident, attempt, retried>>

RestoreBegin(e) ==
  /\ Accepts("restore")
  /\ employee[e] = "FROZEN"
  /\ txn' = [Idle EXCEPT !.op = "restore", !.who = e,
                         !.todo = {t \in Tickets : /\ store.status[t] = "PENDING"
                                                   /\ store.spec[t].frozenFor = e
                                                   /\ e \in store.spec[t].excluded}]
  /\ UNCHANGED <<store, incident, employee, attempt, retried>>

(* The queued ticket is created again, open to the restored worker.        *)
Readmit(t) ==
  /\ txn.op = "restore" /\ t \in txn.todo
  /\ store' = TicketCreated(store, t,
                [store.spec[t] EXCEPT !.excluded = @ \ {txn.who}])
  /\ txn' = [txn EXCEPT !.todo = @ \ {t}]
  /\ UNCHANGED <<incident, employee, attempt, retried>>

RestoreEnd ==
  /\ txn.op = "restore" /\ txn.todo = {}
  /\ employee' = [employee EXCEPT ![txn.who] = "ACTIVE"]
  /\ txn' = Idle
  /\ UNCHANGED <<store, incident, attempt, retried>>

-----------------------------------------------------------------------------
(* Time, as far as the handlers can tell it apart.                         *)
DeadlinePasses(t, d) ==
  /\ Unlocked
  /\ d \notin store.overdue[t]
  /\ \/ store.status[t] = "LEASED" /\ d = "lease"
     \/ store.status[t] = "EXECUTING" /\ d \in {"sla", "beat due"}
     \/ /\ store.status[t] = "EXECUTING" /\ d = "heartbeat"
        /\ "beat due" \in store.overdue[t]
  /\ store' = [store EXCEPT !.overdue[t] = @ \cup {d}]
  /\ UNCHANGED <<incident, employee, attempt, retried, txn>>

-----------------------------------------------------------------------------
FailureReports == FailureKinds \ {DispatchInvalid}

TicketCommand ==
  \/ Create
  \/ \E t \in Tickets :
       \/ \E e \in Employees : Lease(t, e) \/ Start(t, e)
       \/ Heartbeat(t) \/ Cancel(t) \/ Complete(t) \/ CeoRetry(t)
       \/ \E k \in FailureReports, p \in NamedProviders \cup {NoProvider} :
            Fail(t, k, p) \/ SubmitFail(t, k, p)
       \/ SubmitRead(t) \/ SubmitLate(t) \/ SubmitComplete(t) \/ SubmitDropped(t)

Tick ==
  \/ \E extra \in ExtraWorkers \cup {{}} : TickBegin(extra)
  \/ DispatchBegin \/ TickEnd
  \/ \E t \in Tickets :
       \/ TimeOut(t) \/ DispatchFail(t) \/ DispatchSkip(t)
       \/ \E e \in Employees : Dispatch(t, e)

Recovery ==
  \/ \E i \in Incidents :
       RestoreOnly(i) \/ RestoreAndRetry(i) \/ RecoverContained(i)
  \/ \E t \in Tickets : Recreate(t) \/ RecreateSkip(t)

Staffing ==
  \/ \E e \in Employees : FreezeBegin(e) \/ RestoreBegin(e)
  \/ \E t \in Tickets : Requeue(t) \/ Contain(t) \/ Readmit(t)
  \/ FreezeEnd \/ RestoreEnd

TimePasses == \E t \in Tickets, d \in Clocks : DeadlinePasses(t, d)

Next == TicketCommand \/ Tick \/ Recovery \/ Staffing \/ TimePasses

Spec == Init /\ [][Next]_vars

(* The scheduler runner ticks for ever and SQLite grants its write lock in *)
(* the end; a loop that holds the lock goes on; the clock does not stop.   *)
FairSpec ==
  /\ Spec
  /\ SF_vars(TickBegin({}))
  /\ WF_vars(Tick /\ ~ Unlocked)
  /\ \A t \in Tickets : SF_vars(DeadlinePasses(t, "sla"))

-----------------------------------------------------------------------------
(* Properties.                                                             *)

(* A node row and the ticket row it points at tell the same story: the     *)
(* ticket belongs to the node and the node's status follows from its own.  *)
(* Handlers that check only one of the two rows rely on it.                *)
NodeMirrorsTicket ==
  \A n \in Nodes :
    LET t == store.latest[n]
    IN IF t = NoTicket THEN store.nodeStatus[n] = "NONE"
       ELSE /\ Exists(store, t) /\ NodeOf(store, t) = n
            /\ store.nodeStatus[n] = NodeStatusFor(store.status[t])

(* A ticket runs only under a worker who is active: however freezes,       *)
(* leases, starts and ticks interleave, a freeze contains what runs.       *)
ExecutingOwnerActive ==
  \A t \in Tickets : store.status[t] = "EXECUTING" =>
    store.owner[t] \in Employees /\ employee[store.owner[t]] = "ACTIVE"

(* No worker holds two claims that count, where a claim is a ticket it     *)
(* runs or a lease that has not expired: the tick's busy workers.  Leases  *)
(* taken by hand are not checked for it, and not part of the run.          *)
Claims(e) ==
  {t \in Tickets : /\ store.owner[t] = e
                   /\ \/ store.status[t] = "EXECUTING"
                      \/ store.status[t] = "LEASED" /\ "lease" \notin store.overdue[t]}

OneClaimPerWorker == \A e \in Employees : Cardinality(Claims(e)) <= 1

(* A queued ticket is the one its node points at.  One that is not can     *)
(* never be leased, started or cancelled again: it is lost.                *)
NoTicketLost ==
  \A t \in Tickets : store.status[t] = "PENDING" => IsLatest(store, t)

(* At most one ticket of a node is claimed, running or stopping: a retry   *)
(* or a new ticket never starts beside an attempt that still works on the  *)
(* same output.                                                            *)
OneExecutionPerNode ==
  \A t, u \in Tickets :
    /\ store.status[t] \in {"LEASED", "EXECUTING", "CANCEL_REQUESTED"}
    /\ store.status[u] \in {"LEASED", "EXECUTING", "CANCEL_REQUESTED"}
    /\ NodeOf(store, t) = NodeOf(store, u)
    => t = u

(* While an incident is open on a node, no ticket of it runs or is about   *)
(* to: what was running when it opened has ended or been asked to stop,    *)
(* and the scheduler starts nothing.                                       *)
TrippedNodeIdle ==
  \A i \in Incidents, t \in Tickets :
    Tripped(i) /\ OnNode(i, NodeOf(store, t))
      => store.status[t] \notin {"LEASED", "EXECUTING"}

(* A ticket is claimed or run only when the tickets it is gated on have    *)
(* completed and the node of its delivery-stage parent is done, also after *)
(* the gates were looked at: nothing upstream is reopened under it.        *)
NeverAheadOfGates ==
  \A t \in Tickets : store.status[t] \in {"LEASED", "EXECUTING"} => GatesOpen(t)

(* An incident is closed only by the completion of its own follow-up.      *)
ClosedOnlyByFollowup ==
  \A i \in Incidents : incident[i].status = "CLOSED" =>
    /\ incident[i].followup # NoTicket
    /\ store.outcome[incident[i].followup] = "COMPLETED"

(* The same failing node or provider is never put under a second breaker   *)
(* of its own while the first is open: resolving one incident reopens it.  *)
OneBreakerPerCause ==
  \A i, j \in Incidents :
    /\ Tripped(i) /\ Tripped(j)
    /\ \/ /\ {incident[i].type, incident[j].type} \subseteq {"TIMEOUT", "FAILURE"}
          /\ OnNode(i, NodeOf(store, incident[j].ticket))
       \/ /\ incident[i].type = "PROVIDER" /\ incident[j].type = "PROVIDER"
          /\ incident[i].provider = incident[j].provider
    => i = j

(* The breaker of an incident is open exactly while the incident is; the   *)
(* dispatch check reads both columns, the recovery check too.              *)
BreakerFollowsIncident ==
  \A i \in Incidents :
    /\ incident[i].status = "OPEN" <=> incident[i].breaker = "OPEN"
    /\ incident[i].status # "NONE" => Exists(store, incident[i].ticket)

(* No ticket is created over its retry budget unless an operator asks for  *)
(* it by resolving an incident (or a descendant is created again there).   *)
OperatorActs ==
  \/ \E i \in Incidents :
       incident[i].status = "OPEN" /\ incident'[i].status = "RECOVERING"
  \/ txn.op \in {"recreate", "freeze", "restore"}

OverBudgetOnlyByOperator ==
  [][\A t \in Tickets :
       /\ store.status[t] # "PENDING" /\ store'.status[t] = "PENDING"
       /\ store'.spec[t].retries > RetryBudget
       => OperatorActs]_vars

(* The handlers keep the contract of TicketContract with the workers.      *)
Contract == INSTANCE TicketContract WITH status <- store.status, owner <- store.owner

ContractKept == Contract!ContractSpec

(* Nothing runs for ever: the worker reports, or the scheduler times the   *)
(* ticket out when its SLA has passed.                                     *)
EveryExecutionEnds ==
  \A t \in Tickets : store.status[t] = "EXECUTING" ~> store.status[t] # "EXECUTING"
=============================================================================
